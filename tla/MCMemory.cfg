SPECIFICATION FairSpec
CONSTANTS
    NumThreads    = 2
    MAX_PAGE      = 4
    MAX_FILE_PAGE = 2
    MaxRequests   = 3
INVARIANTS
    TablesTrue
    OthersClosed
PROPERTY
    AccessReturns
