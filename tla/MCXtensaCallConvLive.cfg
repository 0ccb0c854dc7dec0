CONSTANT Calls <- MCLiveInA6
SPECIFICATION Spec
INVARIANT LiveAcrossCallIntact
CHECK_DEADLOCK FALSE
