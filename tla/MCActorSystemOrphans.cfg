SPECIFICATION Spec
CONSTANTS
    Names = {n}
    MaxActors = 2
    MaxDepth = 3
    SignalBuffer = 2
    MaxSignals = 1
    MaxRestarts = 0
    MayReuse = FALSE
    MayCancel = FALSE
    MayPanic = FALSE
    MayForget = FALSE
    MayFail = FALSE
CHECK_DEADLOCK FALSE
INVARIANTS
    NoOrphans
