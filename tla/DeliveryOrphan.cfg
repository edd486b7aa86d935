SPECIFICATION FairSpec
CONSTANTS
    Viewers = {v1}
    NoSocket = NoSocket
    MaxReconnects = 1
    MaxEvents = 1
    MaxRuns = 1
    MaxLocks = 2
    MaxStalls = 1
PROPERTY OutcomeReachesEveryTab
CHECK_DEADLOCK FALSE
