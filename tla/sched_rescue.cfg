CONSTANTS
    g1 = g1
    g2 = g2
    NoG = NoG
    Goroutines = {g1, g2}
    NProcs = 1
    RescueCap = 1
    RunqCap = 1
    PollPeriod = 1
    AgeCap = 2
    c1 = c1
    Chans = {c1}
    Lockers = {}
    Blockers = {g1}
SPECIFICATION FairSpec
INVARIANTS OnePlace
PROPERTIES GlobalServed
CHECK_DEADLOCK FALSE
