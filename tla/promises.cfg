SPECIFICATION Spec
CONSTANTS
  Deferred = 1
  MaxOps = 3
  MaxProms = 4
  Rounds = 5
  Kinds = {"all", "allSettled", "any", "race"}
INVARIANTS TypeOK SameOrder NothingForgotten
CHECK_DEADLOCK FALSE
