CONSTANTS
    g1 = g1
    g2 = g2
    NoG = NoG
    c1 = c1
    c2 = c2
    Goroutines = {g1, g2}
    NProcs = 2
    RescueCap = 0
    RunqCap = 1
    PollPeriod = 1
    AgeCap = 1
    Chans = {c1, c2}
    Lockers = {g1}
    Blockers = {}
SPECIFICATION Spec
INVARIANTS OnePlace NotLost LockedStaysPut
CHECK_DEADLOCK FALSE
