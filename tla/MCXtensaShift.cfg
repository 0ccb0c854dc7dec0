CONSTANTS
  W      = 4
  Blocks <- MCBlocks
SPECIFICATION Spec
INVARIANTS
  TypeOK
  RootsComputed
CHECK_DEADLOCK FALSE
