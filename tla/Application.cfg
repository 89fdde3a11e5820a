SPECIFICATION Spec
CONSTANTS
  None = None
  MaxUsize = 100
  SlotBytes = 3
  IntBits = 2
  Binary64Zero = 0
  SemanticRegistry <- ProductionRegistry
  MaxU32 = 2
  MaxLength = 2
  ToDouble <- MCToDouble
  Arithmetic64 <- MCArithmetic64
  Test64 <- MCTest64
  Rank64 <- MCRank64
  Calls <- MCCalls
  Configurations <- MCConfigurations
  RawNodes <- MCRawNodes
  Reservations <- MCReservations
INVARIANTS
  LoweredApplyVerifies
  SelectionIsCanonical
  AnswerIsAsDeclared
  NoLateTypeError
  LengthsAgreeOrAreReported
  HeldIsAnswered
  IntegersAreExact
CHECK_DEADLOCK FALSE
