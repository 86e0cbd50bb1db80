SPECIFICATION MCSpec
CONSTANTS
    HopLimit = 3
    Payloads <- MCPayloads
    Offsets <- MCOffsets
    Captures <- MCCaptures
    Traffic <- MCTraffic
    Padding = 8
INVARIANTS
    StaysInside
    ReadsAsWritten
    PacketsAsWritten
    CutIsAccounted
    WholeIsEnough
PROPERTIES
    Terminates
    MoreIsTold
CHECK_DEADLOCK FALSE
