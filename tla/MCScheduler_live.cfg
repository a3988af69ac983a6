\* Liveness of the build as shipped (debug = 0): what the timer alone
\* guarantees, and what it does for clients that get on with their calls.
SPECIFICATION TimedSpec
CONSTANTS
    NumThreads  = 2
    MAX_THREADS = 1024
    QUEUELEVEL  = 3
    QUEUECHECK  = 2
    MAX_PAGE    = 1
    Debug       = FALSE
    RoundPeriod = 15
PROPERTIES
    ImplementsPool
    JoinReturns
    MutexReleased
    EndsWhenAllDone
