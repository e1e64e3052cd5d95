SPECIFICATION Spec
CONSTANTS
    t1 = t1
    t2 = t2
    t3 = t3
    Tasks = {t1, t2, t3}
    Chans <- MCChans
    Cap <- MCCap
    Ops <- CoreOps
    Closable = {1, 2}
SYMMETRY Symmetry
INVARIANTS TypeOK NoDanglingSudog NoLockDeadlock NoMissedMatch
PROPERTY Linearizable
CHECK_DEADLOCK FALSE
