CONSTANTS
  Uses    <- MCUses
  Bases   <- MCBases
  Offsets <- MCOffsets
  Objects <- MCObjects
  EntryValue <- MCEntryValue
  FrameValue <- MCFrameValue
  SymbolAddr <- MCSymbolAddr
  PoolAddr <- MCPoolAddr
SPECIFICATION Spec
INVARIANTS
  TypeOK
  MeaningPreserved
  PrintedComputesNode
CHECK_DEADLOCK FALSE
