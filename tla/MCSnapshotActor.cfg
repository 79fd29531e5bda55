SPECIFICATION Spec
CONSTANTS
    a = a
    ab = ab
    Ids = {a, ab}
    Actors = {a}
    Keys = {0, 1, 2}
    MaxVersion = 2
    Values = {0, 1, 2}
    Begins <- Shared
    ByteOrder <- Bytes
    MailboxSize = 2
    MaxFaults = 1
INVARIANTS
    TypeOK
    SnapshotsInOrder
    IterationComplete
PROPERTIES
    SavedNeverGoesBack
    ReadYourSaves
    ImplementsStores
