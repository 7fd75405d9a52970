CONSTANTS
    c1 = c1
    c2 = c2
    CPU = {c1, c2}
    BSP = c1
    NENV = 2
    NCREATE = {1}
    MAXGEN = 2
    Value = {1}
    NULL = NULL
SPECIFICATION AnySpec
INVARIANTS
    RunsOnce
CHECK_DEADLOCK FALSE
