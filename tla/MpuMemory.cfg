SPECIFICATION Spec
CONSTANTS
    BITMAP_GRANULE_LEN = 4
    BITS_PER_BYTE = 4
    PLAT_BITMAP_POOL_SIZE = 16
    SIZE_MAX = 1000
    COLOR_NUM = 1
    COLOR_SIZE = 1
    COLORMAP_BITS = 1
    Systems <- MCSystems
    VM_PAGES = 1
    MPU_ENTRIES = 14
    MPU_CODE_ENTRIES = 8
    CPU <- MCCPU
    VMPU_NUM_ENTRIES = 10
    SHARED_REGION_POOL_SIZE = 24
    IPI_MAX_EVENTS = 16
INVARIANT UnitAgrees
INVARIANT GlobalShared
INVARIANT VmConfined
INVARIANT NoLeftovers
