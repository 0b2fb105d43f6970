SPECIFICATION FairSpec
CONSTANTS
    NCPU = 3
    NVM = 2
    MASTER = 0
    INVALID = INVALID
    CpuNums = {1, 2}
    Affinities = {{}, {2}, {0, 1}}
INVARIANTS
    AssignmentConsistent
    PowerdownMeansFull
    InitialisedBeforeUse
PROPERTIES
    VmsBoot
CHECK_DEADLOCK FALSE
