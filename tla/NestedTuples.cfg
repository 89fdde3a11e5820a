SPECIFICATION Spec
CONSTANTS
  None = None
  MaxUsize = 60
  SlotBytes = 2
  Programs <- MCNestingPrograms
  Configurations <- MCConfigurations
  FormatLengths = {0, 3}
  ResultLengths = {0, 2}
INVARIANTS DeliveredStaysCharged
CHECK_DEADLOCK FALSE
