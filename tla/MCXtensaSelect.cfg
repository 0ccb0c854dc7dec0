CONSTANTS
  Functions <- MCFunctions
  Inputs    <- MCInputs
  Regs      <- MCRegs
  Steps     <- MCSteps
SPECIFICATION Spec
INVARIANTS
  TypeOK
  DiamondsComputeSelects
  SuccessorsAreDestinations
  PhisMatchPredecessors
CHECK_DEADLOCK FALSE
