\* The host library with its users, lists and full disk.
SPECIFICATION Spec
CONSTANTS
    NBlocks = 7
    NInodes = 3
    Name = {a, b}
    Cred <- MCCred
    Mode <- MCMode
    Seed <- MCSeed
    Inline = 1
    AcesPerBlock = 1
    RecsPerBlock = 2
    MaxSize = 2
    MaxRecs = 2
    MaxAttrs = 1
SYMMETRY Symmetry
INVARIANTS BlocksAccounted NamesOnce InheritedAcl ReadsBack
PROPERTIES DeniedNeverWrites
CHECK_DEADLOCK FALSE
