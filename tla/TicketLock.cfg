SPECIFICATION FairSpec
CONSTANTS
    CPU = {c1, c2, c3}
    TICKETS = 5
INVARIANTS
    MutualExclusion
PROPERTIES
    ImplementsFifo
    NoStarvation
