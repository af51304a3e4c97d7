SPECIFICATION FairSpec
CONSTANTS
    FullFrameBytes = 4
    Width = 12
    Height = 2
    ObservesCompletion = TRUE
    MayFail = {"begin_frame", "write_contiguous", "finish_frame", "update"}
    ClockMayWrap = FALSE
    SeqMod = 4
    AckMaskBits = 2
    MaxWindow = 2
    MaxAckEvery = 2
    DataLengths <- MCDataLengths
    PipeRequests <- MCPipeRequests
    MaxGeneration = 1
INVARIANTS
    TypeOK
    FrameAccounting
    PanelHeld
    PanelPainted
    SuccessMeansShown
    AckCadence
PROPERTIES
    ImplementsPromise
    RefreshEnds
    SilentClientReleased
