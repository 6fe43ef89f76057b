SPECIFICATION FairSpec
CONSTANTS
    s1 = s1
    s2 = s2
    f1 = f1
    KernelSpace = KernelSpace
    Space <- MCSpace
    File <- MCFile
    ExitCode <- MCOneCode
    SleepTicks <- MCSleepTicks
    ProcessMax = 4
    PidModulus = 16
    MaxCreate = 4
    MaxTick = 2
INVARIANTS
    TypeOK
    ListMatchesTable
    OneRunner
    LoadedSpaceIsOwn
    SpacesOwnedOnce
    NoPanic
    PidsUnique
    FilesOwnedOnce
PROPERTIES
    SleepsFullTime
    ExitStatusMonotone
    NobodyOvertakes
    WaiterRuns
