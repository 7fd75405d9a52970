CONSTANTS
    p1 = p1
    p2 = p2
    p3 = p3
    p4 = p4
    e1 = e1
    c1 = c1
    PAGE = {p1, p2, p3, p4}
    ENVS = {e1}
    FIRST = e1
    CPU = {c1}
    NPD = 1
    NPT = 3
    REFMOD = 3
    PERMS <- ReadOrWrite
    NULL = NULL
SPECIFICATION Spec
INVARIANT RefCountExact
CHECK_DEADLOCK FALSE
