SPECIFICATION FairSpec
CONSTANTS
    Events = {a, b}
    MaxEvents = 2
    MaxStarts = 2
    MaxRetries = 1
    MaxFaults = 1
    MailboxSize = 2
    InsertAhead = 0
    MaxInserts = 1
    MayRestart = TRUE
    MayCrash = TRUE
CHECK_DEADLOCK FALSE
INVARIANTS
    TypeOK
    RunningStateReflectsJournal
    FirstLifeComplete
    SnapshotsMatchKeys
    AckedDurable
PROPERTIES
    StopTerminates
    StartupDecided
