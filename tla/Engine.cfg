SPECIFICATION MCSpec
CONSTANTS
    Window = 4
    Bucket = 2
    Second = 2
    BatchSize = 2
    WallClock = {9}
    Skew = 1
    MaxTime = 2
    MaxFrames = 3
    MaxStreams = 2
    Names = {"read", "answer", "written", "write", "https", "arp", "gre"}
    Others = {"read2", "ack", "wsman",
              "vlan", "prefixed", "icmp", "runt", "badip", "llc"}
    Frame <- MCFrame
    Stateless <- MCStateless
CHECK_DEADLOCK FALSE
INVARIANTS
    Accounted
    CheckpointExact
    ReportedOnce
    PairsLatest
    RequestsKept
    UnclaimedReported
PROPERTIES
    Delivers
