CONSTANTS
    g1 = g1
    g2 = g2
    g3 = g3
    NoG = NoG
    c1 = c1
    Goroutines = {g1, g2, g3}
    NProcs = 2
    RescueCap = 0
    RunqCap = 1
    PollPeriod = 1
    AgeCap = 1
    Chans = {c1}
    Lockers = {}
    Blockers = {}
SPECIFICATION Spec
INVARIANTS TypeOK OnePlace NotLost QueuedRunnable
CHECK_DEADLOCK FALSE
SYMMETRY Symmetry
