SPECIFICATION MCSpec
CONSTANTS
    APLIC_MAX_INTERRUPTS = 4
    APLIC_MIN_PRIO = 15
    PLIC_MAX_INTERRUPTS = 4
    Stores <- MCStores
    MAX_STORES = 2
    MAX_RAISES = 2
    Accesses <- MCAccesses
    IMR_BITS = 2
    MAX_ACCESSES = 2
    MAX_EVENTS = 2
CHECK_DEADLOCK FALSE
INVARIANT NotLost
 
 
PROPERTY Drained
