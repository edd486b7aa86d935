SPECIFICATION Spec
CONSTANTS
    Workers = {w1, w2}
    Requests = {"create", "clarify", "cancel"}
    ReleaseGated = FALSE
    MaxRuns = 1
    MaxEvents = 4
    MaxFail = 0
    MaxCrash = 0
PROPERTY SettledIsFinal
CHECK_DEADLOCK FALSE
