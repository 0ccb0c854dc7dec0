SPECIFICATION Spec
CONSTANTS
  Statements <- MCStatements
  Supported <- MCSupported
  Functions <- MCFunctions
INVARIANTS TypeOK NoUnexpectedNode FrameAddressHasFP
PROPERTIES Ends SupportedCompiles
CHECK_DEADLOCK FALSE
