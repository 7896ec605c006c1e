SPECIFICATION Spec
CONSTANTS
    Capacity = 2
    First = 65534
    Offsets <- MCOffsets
    MaxPackets = 8
INVARIANTS TypeOK StreamDelivered
PROPERTY ImplementsWindow
