CONSTANTS
    g1 = g1
    g2 = g2
    g3 = g3
    NoG = NoG
    c1 = c1
    Goroutines = {g1, g2, g3}
    NProcs = 1
    RescueCap = 0
    RunqCap = 1
    PollPeriod = 2
    AgeCap = 1
    Chans = {c1}
    Lockers = {}
    Blockers = {}
SPECIFICATION FairSpec
PROPERTIES ReadyRuns
CHECK_DEADLOCK FALSE
