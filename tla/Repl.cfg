CONSTANTS
    MaxEntries = 2
    MaxBytes = 3
    MaxNumber = 4
    MaxStream = 5
    MaxCommands = 3
    MaxLines = 4
    Inputs <- MCInputs
SPECIFICATION Spec
INVARIANTS
    TypeOK
    LinesAreMet
    HistoryIsLongestSuffix
    NumbersTellPlace
    DispatchesTheLineRead
PROPERTY Terminates
CHECK_DEADLOCK FALSE
