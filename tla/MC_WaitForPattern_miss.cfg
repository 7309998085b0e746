CONSTANTS
    ScreenRows = 2
    HistoryLimit = 2
    MaxOut = 4
    MaxTime = 6
    Timeout = 4
    Interval = 2
    WaitLines = 1
    Match <- MCMatchFirst
SPECIFICATION Spec
CHECK_DEADLOCK FALSE
INVARIANT PrintedBeforeTimeoutSeen
