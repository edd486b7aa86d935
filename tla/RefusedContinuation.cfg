SPECIFICATION Spec
CONSTANTS
    Workers = {w1}
    Requests = {"create", "clarify", "cancel"}
    ReleaseGated = TRUE
    MaxRuns = 1
    MaxEvents = 4
    MaxFail = 0
    MaxCrash = 0
INVARIANT RunningHasExecutor
CHECK_DEADLOCK FALSE
