\* A directory spread over up to three inodes, and at most two crashes amid
\* creates; creates stop when fewer than two inodes are left.
SPECIFICATION Spec
CONSTANTS
    NumInodes = 9
    PtrNum    = 3
    Names     <- ShortNames
    Stored    <- StoredShort
    Reserve   = 2
    MaxOpen   = 2
    MaxCrashes = 2
INVARIANTS
    BitmapMatchesTree
    CreateArrives
    DirectoryEnds
PROPERTIES
    ImplementsDirectory
    FilesKept
