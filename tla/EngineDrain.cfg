SPECIFICATION MCSpec
CONSTANTS
    Window = 4
    Bucket = 2
    Second = 2
    BatchSize = 2
    WallClock = {9}
    Skew = 1
    MaxTime = 2
    MaxFrames = 3
    MaxStreams = 1
    Names = {"read", "answer", "written", "write", "https", "arp"}
    Others = {}
    Frame <- MCFrame
    Stateless <- MCStateless
CHECK_DEADLOCK FALSE
INVARIANTS
    FinishDrains
