SPECIFICATION FairSpec
CONSTANTS
    CPU = {c1, c2, c3}
    Master = c1
    Program <- MCProgram
    MAX_SEND = 3
INVARIANTS
    MessagesCleared
PROPERTIES
    ImplementsBarrier
    EveryoneFinishes
