CONSTANTS
    NWORDS = 30
SPECIFICATION Spec
PROPERTY StoreMayFault
CHECK_DEADLOCK FALSE
