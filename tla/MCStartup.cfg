\* The first tick may cut a create, and its push, in two.
SPECIFICATION Spec
CONSTANTS
    NumThreads = 4
    QUEUELEVEL = 2
INVARIANTS
    CountCovered
    AtMostOneLost
PROPERTY
    ListsAreQueues
