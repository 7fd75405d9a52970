CONSTANTS
    c1 = c1
    c2 = c2
    CPU = {c1, c2}
    BSP = c1
    NENV = 3
    NCREATE = {1}
    MAXGEN = 2
    Value = {1}
    NULL = NULL
SPECIFICATION FairForkSpec
INVARIANTS
    FreeListExact
PROPERTIES
    ControlledByParentOrSelf
    ReadyRuns
    ZombieFreedOrStopped
CHECK_DEADLOCK FALSE
