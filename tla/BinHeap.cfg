CONSTANTS
    n1 = n1
    n2 = n2
    n3 = n3
    n4 = n4
    n5 = n5
    n6 = n6
    Node = {n1, n2, n3, n4, n5, n6}
    Value <- Keys
    Amount <- Increments
    NULL = NULL
SPECIFICATION Spec
SYMMETRY NodeSymmetry
VIEW Memory
CONSTRAINT Apart
INVARIANTS
    WellFormed
PROPERTIES
    ImplementsBag
CHECK_DEADLOCK FALSE
