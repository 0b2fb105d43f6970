SPECIFICATION MCSpec
CONSTANTS
    VCPU = {v0, v1, v2}
    Boot = v0
    Entry = {e1, e2}
    NoEntry = NoEntry
    NoTarget = NoTarget
    Capacity = 1
    MAX_CALL = 4
    HARTS = 2
    MAX_TIME = 2
PROPERTIES
    PortsImplementVcpuPower
    PoweredOnRuns
    TimerFires
CHECK_DEADLOCK FALSE
