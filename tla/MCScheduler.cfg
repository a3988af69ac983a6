\* Safety of the build as shipped (debug = 0).
SPECIFICATION Spec
CONSTANTS
    NumThreads  = 3
    MAX_THREADS = 1024
    QUEUELEVEL  = 4
    QUEUECHECK  = 2
    MAX_PAGE    = 2
    Debug       = FALSE
    RoundPeriod = 105
INVARIANTS
    TypeOK
    NoThreadLost
    PendingCount
    MutualExclusion
    FrameIsolation
PROPERTIES
    HighestFirst
    JoinWaits
    PoolSafety
