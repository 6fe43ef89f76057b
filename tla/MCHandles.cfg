\* The handle table of one process and its transfers.
SPECIFICATION FairSpec
CONSTANTS
    o1 = o1
    o2 = o2
    Console = Console
    Object <- MCObject
    Mode <- MCMode
    Mask <- MCOneMask
    Length <- MCLong
    SeekTo <- MCBack
    MaxHandles = 3
    GenModulus = 3
    FileMax = 2
    IoChunk = 1
    SeekMax = 2
    MaxReuse = 2
INVARIANTS
    OpenedMatchesTable
    StaleHandlesRefused
PROPERTIES
    KeepsContract
    OffsetMatchesBytes
    TransferEnds
