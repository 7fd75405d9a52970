CONSTANTS
    e1 = e1
    e2 = e2
    e3 = e3
    ENVS = {e1, e2, e3}
    FIRST = e1
    NPAGES = 6
    NDATA = 1
    Value = {0, 1}
    NULL = NULL
SPECIFICATION Spec
INVARIANTS
    SharingSafe
PROPERTIES
    ImplementsPrivate
SYMMETRY EnvSymmetry
CHECK_DEADLOCK FALSE
