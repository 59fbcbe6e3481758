SPECIFICATION Spec
CONSTANTS
    N = 2
    HdrLen = 2
    BodyLen = 3
    PipeCap = 8
    MaxMsgs = 2
    MaxExits = 1
INVARIANTS
    TypeOK Intact
PROPERTY
    Implements
CHECK_DEADLOCK FALSE
