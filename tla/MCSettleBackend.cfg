SPECIFICATION Spec
CONSTANTS
    FullFrameBytes = 4
    Width = 12
    Height = 2
    ObservesCompletion = FALSE
    MayFail = {"begin_frame", "write_contiguous", "finish_frame"}
    ClockMayWrap = TRUE
    SeqMod = 4
    AckMaskBits = 2
    MaxWindow = 2
    MaxAckEvery = 2
    DataLengths <- MCDataLengths
    PipeRequests <- MCPipeRequests
    MaxGeneration = 1
INVARIANTS
    FrameAccounting
PROPERTIES
    ImplementsPromise
