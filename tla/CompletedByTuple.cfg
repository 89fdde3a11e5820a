SPECIFICATION Spec
CHECK_DEADLOCK FALSE
CONSTANT Sources <- CompletedSources
INVARIANT CompletionBorrows
