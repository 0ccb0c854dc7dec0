CONSTANTS
  Functions <- MCFunctions
  Inputs    <- MCInputs
  Regs      <- MCRegs
  Steps     <- MCSteps
SPECIFICATION Spec
INVARIANT MeaningPreserved
CHECK_DEADLOCK FALSE
