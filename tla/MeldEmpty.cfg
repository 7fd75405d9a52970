CONSTANTS
    n1 = n1
    n2 = n2
    n3 = n3
    Node = {n1, n2, n3}
    Value <- Keys
    Amount <- Increments
    NULL = NULL
SPECIFICATION Spec
SYMMETRY NodeSymmetry
VIEW Memory
INVARIANT Apart
CHECK_DEADLOCK FALSE
