CONSTANTS
    a = a
    b = b
    NoName = NoName
    Name <- Names2
    MaxDentries = 5
    MaxVnodes = 3
    MaxData = 4
    MaxHandles = 2
    MaxInodes = 3
    Path <- Paths
    MaxMakes = 2
    MaxMounts = 2
    Remount = FALSE
    SelfRename = TRUE
SYMMETRY NameSymmetry
SPECIFICATION Spec
INVARIANT ListsHoldLiveDentries
CHECK_DEADLOCK FALSE
