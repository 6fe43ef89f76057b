SPECIFICATION Spec
CONSTANTS
    n1 = n1
    n2 = n2
    Name <- MCName
    BucketOf <- MCOneBucket
    NBlocks = 7
    NInodes = 3
    BlockUnits = 2
    MaxExtents = 2
    FileEnd <- MCWrite
    MaxHandles = 1
    Torn = FALSE
    KeepOpen = FALSE
    MaxBirth = 1
    MaxFault = 1
SYMMETRY MCSymmetry
INVARIANTS
    BlocksOwnedOnce
    SizeCovered
    NamesFormTree
    DiskInOrder
    LookupsEnd
