SPECIFICATION LinkSpec
CONSTANTS
    FullFrameBytes = 5
    ObservesCompletion = TRUE
    MayFail = {}
    ClockMayWrap = FALSE
    SeqMod = 4
    AckMaskBits = 3
    MaxWindow = 3
    MaxAckEvery = 2
    DataLengths = {1}
    PipeRequests <- MCPipeRequests
    MaxGeneration = 1
    Commands <- MCCommands
    Display <- FiveRows
    MsdStatuses = {0, 2}
    RxSlots = 3
    TxSlots = 8
    TxReserved = 4
    LoopPackets = 2
    LoopFrames = 1
    PromptLoop = TRUE
    MaxResends = 1
    MaxLocals = 1
INVARIANTS
    LinkTypeOK
    AckedWereReceived
    EndAfterLastSack
    SackMeansReceived
PROPERTIES
    ChunksInPlace
    TransferSucceeds
    ClientReleased
    OutcomesQueued
