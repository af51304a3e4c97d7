SPECIFICATION DialogueSpec
CONSTANTS
    FullFrameBytes = 1
    ObservesCompletion = TRUE
    MayFail = {}
    ClockMayWrap = FALSE
    SeqMod = 2
    AckMaskBits = 1
    MaxWindow = 1
    MaxAckEvery = 1
    DataLengths = {0, 1}
    PipeRequests <- MCPipeRequests
    MaxGeneration = 2
    Commands <- MCDialogueCommands
    Display <- OneRow
    MsdStatuses = {0, 2}
    RxSlots = 3
    TxSlots = 7
    TxReserved = 2
    LoopPackets = 1
    LoopFrames = 2
    PromptLoop = TRUE
    Pipelining = 1
INVARIANTS
    AccountTypeOK
    GoneClientForgotten
PROPERTIES
    FrameFromOneClient
    ClientAnswered
    BusySensorFollows
    FlagClearedShown
