SPECIFICATION Spec
CONSTANTS
    AdsPendingCap = 2
    AdsMaxDataLen = 0
    MaxPending = 2
    MaxFileNames = 1
    BannerLen = 2
    WordLen = 2
    ReportEvery = 3
    SeqModulus = 4
    TemplateCap = 2
    ReadsCap = 2
    FlushTimes <- MCFlushTimes
    Chunks <- MCChunks
    MaxSteps <- MCMaxSteps
INVARIANTS
    ToldOnce
    ResponsesPaired
    TablesKept
    NamesFollowCreates
    ChunkingIsInvisible
    
    RejectedLeavesNoTrace
    SessionsIndependent
    SilentAfterClose
    StreamsFollowed
    LatestDefinition
CHECK_DEADLOCK FALSE
