SPECIFICATION Spec
CHECK_DEADLOCK FALSE
CONSTANT Sources <- RereadSources
INVARIANT OperandMayBeReread
