SPECIFICATION Spec
CONSTANTS
    Names = {n}
    MaxActors = 3
    MaxDepth = 3
    SignalBuffer = 1
    MaxSignals = 1
    MaxRestarts = 0
    MayReuse = TRUE
    MayCancel = FALSE
    MayPanic = FALSE
    MayForget = TRUE
    MayFail = FALSE
CHECK_DEADLOCK FALSE
INVARIANTS
    TypeOK
    RegisteredStoppable
    StopOnce
    RegisteredStarted
    NoStall
