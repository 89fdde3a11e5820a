SPECIFICATION Spec
CHECK_DEADLOCK FALSE
CONSTANT Sources <- MCSources
INVARIANTS
  TypeOK
  LoweredVerifies
  MeaningKept
  LoweredAsAssumed
  AritiesAgree
