SPECIFICATION LocksSpec
CONSTANTS
    w1 = w1
    w2 = w2
    ApiWorkers = {w1, w2}
    TaskIds = {x1, x2}
    Arrivals <- OnlyCommands
    MaxVisits = 4
INVARIANT CommandsSerialize
CHECK_DEADLOCK FALSE
