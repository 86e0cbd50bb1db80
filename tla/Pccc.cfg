SPECIFICATION Spec
CONSTANTS
    AdsPendingCap = 2
    AdsMaxDataLen = 0
    MaxPending = 2
    MaxFileNames = 1
    BannerLen = 2
    WordLen = 2
    ReportEvery = 3
    SeqModulus = 4
    TemplateCap = 2
    ReadsCap = 2
    FlushTimes <- MCFlushTimes
    Chunks <- PcccChunks
    MaxSteps <- PcccMaxSteps
INVARIANTS
    PcccReadsReported
CHECK_DEADLOCK FALSE
