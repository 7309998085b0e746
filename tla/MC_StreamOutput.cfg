CONSTANTS
    ScreenRows = 2
    HistoryLimit = 2
    MaxOut = 6
    MaxTime = 0
    Match = {}
    StreamLines = 3
SPECIFICATION Spec
INVARIANT NoDuplicates
CHECK_DEADLOCK FALSE
