CONSTANTS
  HalfRange = 2
  Blocks    <- MCBlocks
  Registers <- MCRegisters
  OtherOpcodes = {"COPY"}
  Programs  <- MCImmediates
SPECIFICATION Spec
INVARIANT BranchesPreserved
