SPECIFICATION HistorySpec
CONSTANTS
    FullFrameBytes = 4
    Width = 12
    Height = 2
    ObservesCompletion = TRUE
    MayFail = {}
    ClockMayWrap = FALSE
    SeqMod = 4
    AckMaskBits = 2
    MaxWindow = 2
    MaxAckEvery = 2
    DataLengths <- MCDataLengths
    PipeRequests <- MCPipeRequests
    MaxGeneration = 1
INVARIANT
    FatalNackOnce
