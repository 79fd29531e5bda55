SPECIFICATION FairSpec
CONSTANTS
    Names = {m, n}
    MaxActors = 2
    MaxDepth = 3
    SignalBuffer = 1
    MaxSignals = 0
    MaxRestarts = 1
    MayReuse = TRUE
    MayCancel = TRUE
    MayPanic = TRUE
    MayForget = FALSE
    MayFail = TRUE
CHECK_DEADLOCK FALSE
INVARIANTS
    PathsAgree
PROPERTIES
    ShutdownCompletes
