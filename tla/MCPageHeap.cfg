\* Every sequence of allocations and frees in a frame of 96 bytes.
SPECIFICATION Spec
CONSTANTS
    PAGE_SIZE = 96
    Sizes     <- RequestSizes
INVARIANTS
    BlocksTileHeap
    PayloadsApart
    FullyCoalesced
