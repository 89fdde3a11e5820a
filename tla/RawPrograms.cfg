SPECIFICATION Spec
CONSTANTS
  None = None
  MaxUsize = 60
  SlotBytes = 2
  Programs <- MCVerifiedPrograms
  Configurations <- MCConfigurations
  FormatLengths = {0, 3}
  ResultLengths = {0, 2}
INVARIANTS NoInvariantFailure
CHECK_DEADLOCK FALSE
