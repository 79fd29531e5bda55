SPECIFICATION Spec
CONSTANTS
    Events = {a}
    MaxEvents = 2
    MaxStarts = 2
    MaxRetries = 0
    MaxFaults = 0
    MailboxSize = 2
    InsertAhead = 0
    MaxInserts = 0
    MayRestart = TRUE
    MayCrash = TRUE
CHECK_DEADLOCK FALSE
INVARIANTS
    RecoveredStateComplete
