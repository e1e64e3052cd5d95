SPECIFICATION FairSpec
CONSTANTS
    t1 = t1
    t2 = t2
    Tasks = {t1, t2}
    Chans <- MCChans
    Cap <- MCCap
    Ops <- AllOps
    Closable = {1, 2}
PROPERTIES Linearizable WokenReturns CloseWakesAll
CHECK_DEADLOCK FALSE
