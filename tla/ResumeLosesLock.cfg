SPECIFICATION Spec
CONSTANTS
    Workers = {w1}
    Requests = {"create", "clarify"}
    ReleaseGated = FALSE
    MaxRuns = 1
    MaxEvents = 4
    MaxFail = 0
    MaxCrash = 0
INVARIANT ExecutorHoldsOwnerLock
CHECK_DEADLOCK FALSE
