SPECIFICATION Spec
CONSTANTS
  None = None
  MaxUsize = 60
  SlotBytes = 2
  Programs <- MCPrograms
  Configurations <- MCConfigurations
  FormatLengths = {0, 3}
  ResultLengths = {0, 2}
INVARIANTS TypeOK LiveIsHeld NoInvariantFailure NoDanglingAlias SlotsHoldMeaning
PROPERTIES ImplementsEvaluation Terminates
CHECK_DEADLOCK FALSE
