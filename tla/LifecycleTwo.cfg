SPECIFICATION Spec
CONSTANTS
    Workers = {w1, w2}
    Requests = {"create", "cancel", "delete", "read", "shutdown"}
    ReleaseGated = FALSE
    MaxRuns = 2
    MaxEvents = 4
    MaxFail = 0
    MaxCrash = 1
SYMMETRY Symmetry
INVARIANT ExecutorHoldsOwnerLock
PROPERTY DeletionFences
CHECK_DEADLOCK FALSE
