SPECIFICATION Spec
CONSTANTS
    Names = {n}
    MaxActors = 2
    MaxDepth = 2
    SignalBuffer = 2
    MaxSignals = 0
    MaxRestarts = 0
    MayReuse = TRUE
    MayCancel = FALSE
    MayPanic = FALSE
    MayForget = FALSE
    MayFail = FALSE
CHECK_DEADLOCK FALSE
INVARIANTS
    LookupFindsRunning
