SPECIFICATION FairSpec
CONSTANTS
    N = 4
    ActionSeq <- Shared
    RunCnt <- Once
    MayEnd = TRUE
INVARIANTS
    TypeOK LockAgrees MitigationsApart OpenIsAwaited ProgressIsStarted
PROPERTIES
    Implements BusyOnlyWhenOverdue LockReleased AllComplete
CHECK_DEADLOCK FALSE
