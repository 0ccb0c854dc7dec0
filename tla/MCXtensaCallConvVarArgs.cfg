CONSTANT Calls <- MCVariadic
SPECIFICATION Spec
INVARIANT VaArgsAreVariadic
CHECK_DEADLOCK FALSE
