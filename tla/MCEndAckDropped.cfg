SPECIFICATION ScriptedSpec
CONSTANTS
    FullFrameBytes = 16
    ObservesCompletion = TRUE
    MayFail = {}
    ClockMayWrap = FALSE
    SeqMod = 256
    AckMaskBits = 32
    MaxWindow = 16
    MaxAckEvery = 4
    DataLengths = {1}
    PipeRequests <- MCPipeRequests
    MaxGeneration = 1
    Commands <- MCCommands
    Display <- SixteenRows
    MsdStatuses = {2}
    RxSlots = 24
    TxSlots = 16
    TxReserved = 4
    LoopPackets = 8
    LoopFrames = 4
    PromptLoop = TRUE
PROPERTY
    OutcomesQueued
