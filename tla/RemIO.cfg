SPECIFICATION FairSpec
CONSTANTS
    Front = {f1, f2}
    Back = {b1, b2}
    BackCpu = b1
    FrontCpu = f1
    Dev = {3, 5}
    POOL = 2
    BYTE = 8
    Capacity = 1
    None = None
    MAX_ACCESS = 3
    MAX_NOTIFY = 1
INVARIANTS
    RequestAccounting
    OwnAnswer
PROPERTIES
    AccessesComplete
CHECK_DEADLOCK FALSE
