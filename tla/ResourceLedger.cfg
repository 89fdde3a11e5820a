SPECIFICATION Spec
CONSTANTS
  None = None
  MaxUsize = 5
  SlotBytes = 2
  Owners = {o1, o2}
  Lengths = {0, 1, 3}
  Widths = {1, 2}
  Configurations <- MCConfigurations
SYMMETRY MCSymmetry
INVARIANTS TypeOK LedgerBalances LimitsHold
PROPERTIES PeakIsHighWater RefusalIsInert OrdinalsAreFresh
