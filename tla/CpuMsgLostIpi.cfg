SPECIFICATION Spec
CONSTANTS
    CPU = {c1, c2}
    NoCpu = NoCpu
    Capacity = 2
    NoMsg = NoMsg
    Ports = {FALSE}
    Idle = {}
    Kinds = {"wake"}
    MAX_SEND = 3
INVARIANTS
    NoneStrandedOnAnyPort
