\* Does a unit that was never written read as zero?
SPECIFICATION Spec
CONSTANTS
    NBlocks = 7
    NInodes = 3
    Name = {a, b}
    Cred <- MCCred
    Mode <- MCMode
    Seed <- OneSeed
    Inline = 1
    AcesPerBlock = 1
    RecsPerBlock = 2
    MaxSize = 2
    MaxRecs = 2
    MaxAttrs = 1
SYMMETRY Symmetry
INVARIANTS HolesReadZero
CHECK_DEADLOCK FALSE
