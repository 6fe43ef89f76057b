SPECIFICATION FairSpec
CONSTANTS
    Frame = {1, 2, 3, 4, 5, 6, 7, 8, 9, 10, 11, 12, 13, 14, 15, 16, 17, 18}
    Proc = {1, 2}
    Fan = 8
    PageSize = 2
    Image <- MCImage
    ElfMin = 1
    ElfMax = 6
    StackGuard = 6
    StackTop = 8
    HeapMax = 5
    GrowMax = 5
    MaxExit = 2
    Increment <- MCFewIncrements
INVARIANTS
    FramesAccounted
    HeapMatchesBrk
PROPERTIES
    CallReturns
    OnlyHeapUnmapped
    FailedSpawnLeaksNothing
