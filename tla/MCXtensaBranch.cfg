CONSTANTS
  HalfRange = 2
  Blocks    <- MCBlocks
  Registers <- MCRegisters
  OtherOpcodes = {"COPY"}
  Programs  <- MCPrograms
SPECIFICATION Spec
INVARIANTS
  TypeOK
  BranchesPreserved
  StaysAnalyzable
  OnlyCallsUnknown
CHECK_DEADLOCK FALSE
