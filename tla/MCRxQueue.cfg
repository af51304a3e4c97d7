SPECIFICATION FairSpec
CONSTANTS
    Packets = {p1, p2, p3}
    NoPacket = NoPacket
    RxSlots = 3
    StoresInOrder = TRUE
INVARIANTS
    TypeOK
    SlotsApart
PROPERTIES
    ImplementsQueue
    PacketsHandled
