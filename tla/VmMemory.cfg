SPECIFICATION Spec
CONSTANTS
    BITMAP_GRANULE_LEN = 4
    BITS_PER_BYTE = 4
    PLAT_BITMAP_POOL_SIZE = 16
    SIZE_MAX = 1000
    COLOR_NUM = 4
    COLOR_SIZE = 1
    COLORMAP_BITS = 5
    LVLS = 2
    LVL_TERM <- MCTerm
    ENTRIES = 4
    HYP_ENTRIES = 8
    VM_ENTRIES = 4
    VM_ROOT_PAGES = 1
    Sections <- MCSections
    Systems <- MCSystems
    VM_PAGES = 1
INVARIANT PagesExclusive
INVARIANT RegionsMapped
INVARIANT ImageInstalled
 
