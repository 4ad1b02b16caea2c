SPECIFICATION ReaperSpec
CONSTANTS
    FullIdle = 6
    HalfIdle = 2
    HalfMax = 4
    StuckLimit = 3
    MaxAge = 12
    Period = 1
    MaxTime = 14
INVARIANTS
    QuietIsReclaimed
    TrickleIsBounded
CHECK_DEADLOCK FALSE
