SPECIFICATION SetupSpec
CONSTANTS
    VM = {0, 1}
    Ports = {"armv8", "riscv", "rh850", "tricore"}
    LINES = 4
    PRIV = 2
    IPIR = 2
    IPI = 0
    Drivers <- MCDrivers
    Configs <- MCConfigs
    Key = {1, 2}
    Shmem = {0, 1}
    NoShmem = 1
    RemioConfigs <- MCRemioConfigs
    Cpus <- MCCpus
    Bits = {1, 2, 3}
    SmeNum = 3
    CtxNum = 3
    ResetCtx = {2}
    FqSize = 4
    Shmems = 2
    Event = {0, 1, 2}
    RINGS = 2
    Regions <- MCRegions
    Registers <- MCRegisters
    DeviceBases <- MCDeviceBases
    Instructions <- MCInstructions
    Setups <- MCSetups
INVARIANTS
    ExclusiveLine
    AcceptedMeansPaired
    DevicesIsolated
    FaultsReported
    RingsReachPeers
    
CHECK_DEADLOCK FALSE
