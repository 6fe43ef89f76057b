SPECIFICATION Spec
CONSTANTS
    n1 = n1
    n2 = n2
    Name <- MCName
    BucketOf <- MCOneBucket
    NBlocks = 6
    NInodes = 3
    BlockUnits = 2
    MaxExtents = 2
    FileEnd <- MCWrite
    MaxHandles = 1
    Torn = FALSE
    KeepOpen = TRUE
    MaxBirth = 2
    MaxFault = 0
SYMMETRY MCSymmetry
INVARIANT
    HandlesKeepFile
