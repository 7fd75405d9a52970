CONSTANTS
    c1 = c1
    c2 = c2
    CPU = {c1, c2}
    BSP = c1
    NENV = 4
    NCREATE = {4}
    MAXGEN = 1
    Value = {0, 1, 2}
    Programs = {"fairness"}
    LAST = 2
    NULL = NULL
SPECIFICATION IpcSpec
PROPERTIES
    EverySendEnds
CHECK_DEADLOCK FALSE
