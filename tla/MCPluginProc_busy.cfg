SPECIFICATION Spec
CONSTANTS
    r1 = r1  r2 = r2  r3 = r3
    N = 1
    Reqs = {r1, r2}
    ActionOf <- TwoForOne
    Shutdown = shutdown
    None = none
    PipeCap = 5
    DrainMax = 2
    MaxBeats = 1
    Paced = TRUE
    Polite = TRUE
    Faulty = {}
    MaxFails = 0
    Signals = {}
INVARIANT
    BusyIsDropped
