SPECIFICATION ComponentSpec
CONSTANTS
    FullFrameBytes = 2
    ObservesCompletion = TRUE
    MayFail = {}
    ClockMayWrap = FALSE
    SeqMod = 2
    AckMaskBits = 1
    MaxWindow = 1
    MaxAckEvery = 1
    DataLengths = {0, 1}
    PipeRequests = {}
    MaxGeneration = 2
    Commands <- MCDirectCommands
    Display <- TwoRows
    MsdStatuses = {2}
    RxSlots = 3
    TxSlots = 6
    TxReserved = 2
    LoopPackets = 2
    LoopFrames = 2
    PromptLoop = FALSE
PROPERTY
    FrameFromOneClient
