SPECIFICATION Spec
CONSTANT MaxJoins = 2
INVARIANT InputIsSent
CHECK_DEADLOCK FALSE
