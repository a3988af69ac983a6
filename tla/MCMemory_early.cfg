SPECIFICATION Spec
CONSTANTS NumThreads=2 MAX_PAGE=4 MAX_FILE_PAGE=1 MaxRequests=2
INVARIANT AlwaysClosed
