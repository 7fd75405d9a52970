CONSTANTS
    NWORDS = 46
SPECIFICATION Spec
PROPERTIES
    ResumeExact
    StackIntact
CONSTRAINT NotSpoilt
CHECK_DEADLOCK FALSE
