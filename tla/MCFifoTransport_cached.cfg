SPECIFICATION FairSpec
CONSTANTS
    N = 2
    HdrLen = 2
    BodyLen = 3
    PipeCap = 10
    MaxMsgs = 1
    MaxExits = 0
PROPERTY
    AllRead
CHECK_DEADLOCK FALSE
