SPECIFICATION FairSpec
CONSTANTS
    Workers = {w1}
    Requests = {"create", "clarify", "cancel", "delete", "read", "shutdown"}
    ReleaseGated = FALSE
    MaxRuns = 3
    MaxEvents = 5
    MaxFail = 0
    MaxCrash = 2
INVARIANT RunningHasExecutor
PROPERTY RunningResolves
CHECK_DEADLOCK FALSE
