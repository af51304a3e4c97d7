SPECIFICATION Spec
CONSTANTS
    Packets = {p1, p2, p3}
    NoPacket = NoPacket
    RxSlots = 3
    StoresInOrder = FALSE
INVARIANT
    HandoffGuarded
