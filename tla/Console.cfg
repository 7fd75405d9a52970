CONSTANTS
    CONSBUFSIZE = 4
    CRT_COLS = 4
    CRT_ROWS = 4
    BUFLEN = 10
    MAXARGS = 5
    Scenarios <- AllScenarios
SPECIFICATION Spec
INVARIANTS
    EchoExact
    ArgvExact
    NoModifierStuck
PROPERTIES
    ImplementsTypewriter
CHECK_DEADLOCK FALSE
