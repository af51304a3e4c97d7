SPECIFICATION ResultSpec
CONSTANTS
    FullFrameBytes = 1
    ObservesCompletion = TRUE
    MayFail = {}
    ClockMayWrap = FALSE
    SeqMod = 4
    AckMaskBits = 2
    MaxWindow = 2
    MaxAckEvery = 2
    DataLengths = {0, 1}
    PipeRequests = {}
    MaxGeneration = 1
    Commands <- MCCommands
    Display <- OneRow
    MsdStatuses = {0, 2}
    RxSlots = 3
    TxSlots = 8
    TxReserved = 4
    LoopPackets = 2
    LoopFrames = 1
    PromptLoop = TRUE
INVARIANT
    ErrorIsLastResult
