SPECIFICATION TablesSpec
CONSTANTS
    FlowKey = {f1, f2, f3}
    Protocol = {modbus, dnp3}
    NoTag = NoTag
    MaxClassifyAttempts = 2
    MaxFlows = 2
    MaxTick = 7
    Window = 4
    Bucket = 3
    Skew = 2
    MaxTime = 9
    MaxCalls = 4
    Record <- MCRecord
CHECK_DEADLOCK FALSE
INVARIANTS
    FlowTableBounded
    MostRecentlyFedKept
    AnswersMatchCache
    AttemptsBounded
    OncePerBucket
    DropsOnlyAlike
PROPERTIES
    SettledIsFinal
