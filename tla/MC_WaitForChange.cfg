CONSTANTS
    ScreenRows = 2
    HistoryLimit = 2
    MaxOut = 3
    MaxTime = 5
    Timeout = 3
    Interval = 2
    WaitLines = 1
    Match = {}
SPECIFICATION Spec
INVARIANT TypeOK
INVARIANT ChangeSeenBeforeTimeout
PROPERTY Terminates
CHECK_DEADLOCK FALSE
