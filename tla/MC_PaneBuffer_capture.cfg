CONSTANTS
    ScreenRows = 2
    HistoryLimit = 3
    MaxOut = 3
    MaxTime = 0
    Match = {}
SPECIFICATION PaneSpec
INVARIANT CaptureWithinLines
