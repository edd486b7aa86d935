SPECIFICATION Spec
CONSTANTS
    r1 = r1
    r2 = r2
    r3 = r3
    r4 = r4
    None = None
    Requests = {r1, r2, r3}
    Priority <- StandardPriority
    NormalWorkers = 1
    HeavyWorkers = 1
    RebalanceThreshold = 1
INVARIANT NoWaiterLost
CHECK_DEADLOCK FALSE
