CONSTANTS
    p1 = p1
    p2 = p2
    p3 = p3
    p4 = p4
    p5 = p5
    e1 = e1
    e2 = e2
    c1 = c1
    c2 = c2
    PAGE = {p1, p2, p3, p4, p5}
    ENVS = {e1, e2}
    FIRST = e1
    CPU = {c1, c2}
    NPD = 2
    NPT = 1
    REFMOD = 65536
    PERMS <- WithIllegal
    NULL = NULL
SPECIFICATION Spec
SYMMETRY Symmetry
INVARIANT OnlySyscallBits
CHECK_DEADLOCK FALSE
