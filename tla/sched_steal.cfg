CONSTANTS
    NoG = 0
    Goroutines = {1, 2, 3, 4, 5, 6, 7, 8}
    Depth = 4
    NProcs = 2
    RescueCap = 0
    RunqCap = 4
    PollPeriod = 2
    AgeCap = 0
    Chans = {}
    Lockers = {}
    Blockers = {}
SPECIFICATION StealSpec
INVARIANTS NoStealCycle NotLost
CHECK_DEADLOCK FALSE
