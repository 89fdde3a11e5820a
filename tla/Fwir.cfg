SPECIFICATION Spec
CONSTANTS
  SemanticRegistry <- ProductionRegistry
  MaxUsize = 5000
  MaxU32 = 1000
  StringBytes <- MCStringBytes
  MalformedText = 12
  OddNaN = 12
  Cases <- MCCases
  Edits <- MCEdits
INVARIANTS
  RoundTrip
  AcceptedIsCanonical
  SectionsTile
  LimitsComeFirst
CHECK_DEADLOCK FALSE
