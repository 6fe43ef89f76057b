SPECIFICATION Spec
CONSTANTS
    n1 = n1
    n2 = n2
    Name <- MCName
    BucketOf <- MCOneBucket
    NBlocks = 6
    NInodes = 3
    BlockUnits = 2
    MaxExtents = 2
    FileEnd <- MCWrite
    MaxHandles = 1
    Torn = TRUE
    KeepOpen = FALSE
    MaxBirth = 2
    MaxFault = 1
SYMMETRY MCSymmetry
INVARIANT
    FreedOnce
