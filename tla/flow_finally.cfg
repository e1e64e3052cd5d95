CONSTANT
  Functions <- FinallyFunctions
SPECIFICATION Spec
INVARIANT InStep
