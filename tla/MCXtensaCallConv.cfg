CONSTANT Calls <- MCCalls
SPECIFICATION Spec
INVARIANTS
  TypeOK
  FormalsAreActuals
  ResultsArrive
  VaWalkContiguous
  LiveAcrossCallIntact
CHECK_DEADLOCK FALSE
