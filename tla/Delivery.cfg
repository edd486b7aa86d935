SPECIFICATION FairSpec
CONSTANTS
    Viewers = {v1}
    NoSocket = NoSocket
    MaxReconnects = 1
    MaxEvents = 1
    MaxRuns = 2
    MaxLocks = 2
    MaxStalls = 1
INVARIANT TypeOK
INVARIANT LiveSocketMissesOnlyCut
INVARIANT SocketServesOneRun
INVARIANT DiscardIsFinal
INVARIANT OrphanedOnlyByStall
PROPERTY ImplementsTimelineFeed
PROPERTY EmitReturns
PROPERTY OutcomeReachesServedTabs
CHECK_DEADLOCK FALSE
