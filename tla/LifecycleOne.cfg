SPECIFICATION Spec
CONSTANTS
    Workers = {w1}
    Requests = {"create", "clarify", "cancel", "delete", "read", "shutdown"}
    ReleaseGated = FALSE
    MaxRuns = 3
    MaxEvents = 6
    MaxFail = 1
    MaxCrash = 1
INVARIANT TypeOK
INVARIANT TimelineConsistent
INVARIANT RecordMatchesDisk
PROPERTY TimelineOnlyGrows
PROPERTY ImplementsResearchTask
CHECK_DEADLOCK FALSE
