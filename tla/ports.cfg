SPECIFICATION Spec
CONSTANTS
  Main = main
  Wkr = wkr
  PoolThreads = {k1}
  None = None
  Transit = Transit
  MaxOps = 4
INVARIANTS TypeOK HoldCount HeldRunsOn NotStranded CloseIsLast WorkerEvents
CHECK_DEADLOCK FALSE
