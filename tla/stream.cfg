SPECIFICATION Spec
CONSTANTS
    p1 = p1
    p2 = p2
    p3 = p3
    p4 = p4
    Packet = {p1, p2, p3, p4}
    Size <- Sizes
    MaxSize = 4
    Class <- Sorting
    HeaderLen = 2
    OutCap = 3
    HighWater = 3
    WireCap = 3
INVARIANTS TypeOK NoLostWakeup InStep
PROPERTIES ImplementsChannel Delivered
CHECK_DEADLOCK FALSE
