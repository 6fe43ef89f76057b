CONSTANTS
    a = a
    b = b
    NoName = NoName
    Name <- Names2
    MaxDentries = 5
    MaxVnodes = 4
    MaxData = 5
    MaxHandles = 2
    MaxInodes = 3
    Path <- Paths
    MaxMakes = 2
    MaxMounts = 2
    Remount = FALSE
    SelfRename = FALSE
SYMMETRY NameSymmetry
SPECIFICATION Spec
INVARIANTS CacheAgrees VnodesOwnedOnce DiskIsTree OpenFileKeepsVnode
CHECK_DEADLOCK FALSE
