SPECIFICATION Spec
CONSTANTS
    r1 = r1  r2 = r2  r3 = r3
    N = 1
    Reqs = {r1, r2, r3}
    ActionOf <- WithForeign
    Shutdown = shutdown
    None = none
    PipeCap = 2
    DrainMax = 1
    MaxBeats = 2
    Paced = FALSE
    Polite = FALSE
    Faulty = {}
    MaxFails = 1
    Signals = {"HUP", "USR1"}
INVARIANTS
    TypeOK NoLostCompletion AnsweredOnce PendingFits HeartbeatsNotMasked
    HeartbeatIdKnown ExitShutsPlugins
PROPERTY
    Implements
CHECK_DEADLOCK FALSE
