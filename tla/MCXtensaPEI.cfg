CONSTANTS
  Functions   <- MCFunctions
  EntryRegs   <- MCEntryRegs
  Values      <- MCValues
  AllocaSizes <- MCAllocaSizes
  MaxDyn      = 16
SPECIFICATION Spec
INVARIANTS
  TypeOK
  ReturnsToCaller
PROPERTY FrameSpec
CHECK_DEADLOCK FALSE
