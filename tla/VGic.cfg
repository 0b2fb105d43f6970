SPECIFICATION Spec
CONSTANTS
    c1 = c1
    c2 = c2
    VCPU = {c1, c2}
    NoVcpu = NoVcpu
    ANY = ANY
    INT = {1, 2, 3, 4}
    NUM_LRS = 2
    Setups <- MCSetups
    Prompt = FALSE
    MAX_OPS = 3
INVARIANTS
    NoSpurious
    NotLost
CHECK_DEADLOCK FALSE
