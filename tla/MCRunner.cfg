SPECIFICATION FairSpec
CONSTANTS
    Clients = {c, d}
    MailboxSize = 2
    Supervising <- Delays
    Asking <- Delays
    MaxCalls = 2
    MaxRestarts = 2
CHECK_DEADLOCK FALSE
INVARIANTS
    TypeOK
    AnsweredByOwnHandling
    WaitingIsQueued
    BackoffsInOrder
PROPERTIES
    FullRetries
    ImplementsActorLife
