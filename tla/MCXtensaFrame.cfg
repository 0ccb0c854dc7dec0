CONSTANTS
  Functions   <- MCFunctions
  EntryRegs   <- MCEntryRegs
  Values      <- MCValues
  AllocaSizes <- MCAllocaSizes
  MaxDyn      = 16
SPECIFICATION Spec
INVARIANTS
  TypeOK
  CalleeSavedPreserved
  ProgramDataIntact
  OutgoingArgsIntact
  UnwindCorrect
  SPAlignedAtCalls
CHECK_DEADLOCK FALSE
