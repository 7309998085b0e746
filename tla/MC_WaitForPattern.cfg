CONSTANTS
    ScreenRows = 2
    HistoryLimit = 2
    MaxOut = 4
    MaxTime = 6
    Timeout = 4
    Interval = 2
    WaitLines = 1
    Match <- MCMatchLate
SPECIFICATION Spec
INVARIANT TypeOK
INVARIANT ReturnsByDeadline
PROPERTY Terminates
CHECK_DEADLOCK FALSE
