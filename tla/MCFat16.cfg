CONSTANTS
    SectorSize = 4
    EntrySize = 2
    MinClusters = 2
    MaxClusters = 3
    Disk = {1, 2}
    Volumes <- Disks
    Name = {"f", "d", "g"}
    ReadAt <- Reads
    MaxDevices = 1
    MaxData = 3
    MaxVnodes = 3
    MaxHandles = 1
    MaxMounts = 2
    StaleReads = FALSE
SPECIFICATION FairSpec
INVARIANTS ReadsInPlace ReadIsChain PoolsBalanced
PROPERTIES CallsEnd
CHECK_DEADLOCK FALSE
