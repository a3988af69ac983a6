SPECIFICATION Spec
CONSTANTS
    NumThreads = 3
    EnterLimit = 3
    QUEUELEVEL = 2
    MaxThreads = 3
    NumHello = 1
    NumPotato = 2
    LastQuiet = 0
INVARIANTS
    BarriersHold
    StaysQueued
    OnePotato
PROPERTIES
    EndsUnlessLost
    RobinReachesAll
    GoesOn
