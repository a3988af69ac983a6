\* A debug build (debug = 1), where priorities are adjusted.
SPECIFICATION TimedSpec
CONSTANTS
    NumThreads  = 2
    MAX_THREADS = 1024
    QUEUELEVEL  = 3
    QUEUECHECK  = 2
    MAX_PAGE    = 0
    Debug       = TRUE
    RoundPeriod = 15
PROPERTIES
    NoStarvation
    PeriodicScan
