SPECIFICATION TablesSpec
CONSTANTS
    FlowKey = {f1}
    Protocol = {modbus}
    NoTag = NoTag
    MaxClassifyAttempts = 1
    MaxFlows = 1
    MaxTick = 0
    Window = 4
    Bucket = 3
    Skew = 2
    MaxTime = 9
    MaxCalls = 2
    Record <- MCRecord
CHECK_DEADLOCK FALSE
INVARIANT DropsOnlyRepeats
