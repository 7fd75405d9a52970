CONSTANTS
    c1 = c1
    c2 = c2
    CPU = {c1, c2}
    BSP = c1
    NENV = 2
    NCREATE = {1}
    MAXGEN = 2
    Value = {1}
    NULL = NULL
SPECIFICATION LibSpec
INVARIANTS
    OneCpuPerEnv
    LiveAddressSpace
    BlockedIffReceiving
    NoPanic
CHECK_DEADLOCK FALSE
