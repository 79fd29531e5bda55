SPECIFICATION Spec
CONSTANTS
    a = a
    ab = ab
    Ids = {a, ab}
    Actors = {a}
    Keys = {0}
    MaxVersion = 1
    Values = {0, 1}
    Begins <- Shared
    ByteOrder <- Bytes
    MailboxSize = 1
    MaxFaults = 0
INVARIANT
    ScansSeeOwn
