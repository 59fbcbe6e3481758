SPECIFICATION Spec
CONSTANTS
    N = 1
    HdrLen = 2
    BodyLen = 3
    PipeCap = 10
    MaxMsgs = 2
    MaxExits = 0
INVARIANTS
    NoReadFails
CHECK_DEADLOCK FALSE
