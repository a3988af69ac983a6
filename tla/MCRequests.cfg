SPECIFICATION SpecAll
CONSTANTS
    Names   <- ShortNames
    Stored  <- StoredShort
    NumInodes = 5
    PtrNum    = 3
    Reserve   = 2
    MaxOpen   = 2
    MaxCrashes = 0
    Threads = {t1, t2, t3}
    InodeBlocks = 2
    DataBlocks  = 2
    MaxFaults   = 2
INVARIANTS
    AnswersExist
    WholeInodes
    ServesFormatted
PROPERTY
    FormattedForGood
