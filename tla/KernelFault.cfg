CONSTANTS
    NWORDS = 30
SPECIFICATION Spec
INVARIANT NoKernelFault
CHECK_DEADLOCK FALSE
