CONSTANTS
    c1 = c1
    c2 = c2
    CPU = {c1, c2}
    BSP = c1
    NENV = 4
    NCREATE = {1, 4}
    MAXGEN = 1
    Value = {0, 1, 2, 3, 4, 5}
    Programs = {"primes", "pingpong", "fairness"}
    LAST = 5
    NULL = NULL
SPECIFICATION IpcSpec
INVARIANTS
    InOrderOnce
    PrimesOnly
PROPERTIES
    WokenBySender
    SendEnds
CHECK_DEADLOCK FALSE
