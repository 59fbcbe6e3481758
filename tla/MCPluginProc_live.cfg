SPECIFICATION FairSpec
CONSTANTS
    r1 = r1  r2 = r2  r3 = r3
    N = 2
    Reqs = {r1, r2}
    ActionOf <- OneEach
    Shutdown = shutdown
    None = none
    PipeCap = 5
    DrainMax = 2
    MaxBeats = 1
    Paced = TRUE
    Polite = FALSE
    Faulty = {2}
    MaxFails = 0
    Signals = {"HUP"}
PROPERTIES
    ResponseSent ShutdownCompletes
