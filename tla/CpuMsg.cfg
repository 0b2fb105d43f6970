SPECIFICATION FairSpec
CONSTANTS
    CPU = {c1, c2}
    NoCpu = NoCpu
    Capacity = 2
    NoMsg = NoMsg
    Ports = {TRUE, FALSE}
    Idle = {}
    Kinds = {"wake", "relay"}
    MAX_SEND = 3
INVARIANTS
    NoStrandedMessage
PROPERTIES
    ImplementsMailbox
    MessagesAreHandled
    BlockedVcpuResumes
