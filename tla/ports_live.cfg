SPECIFICATION Spec
CONSTANTS
  Main = main
  Wkr = wkr
  PoolThreads = {k1}
  None = None
  Transit = Transit
  MaxOps = 3
PROPERTIES Delivered TerminateEnds
CHECK_DEADLOCK FALSE
