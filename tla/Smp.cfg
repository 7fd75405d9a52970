CONSTANTS
    c1 = c1
    c2 = c2
    c3 = c3
    e1 = e1
    CPU = {c1, c2, c3}
    BSP = c1
    ENVS = {e1}
    NULL = NULL
SPECIFICATION FairSpec
INVARIANTS
    LockTakenOnce
    ResumeExact
    OwnStack
PROPERTIES
    ImplementsLock
    BootCompletes
CHECK_DEADLOCK FALSE
