CONSTANT
  Functions <- AllFunctions
SPECIFICATION Spec
INVARIANTS TypeOK InStep HandlersMatch ReachSound TdzSound PresentSound StoresReach
  NoUseAfterFree FreedOnce
