CONSTANTS
    x = x  again = again  y = y
    None = None
    Belts = {1}
    Sensors = {1}
    Goals = {x, again, y}
    CommandOf <- MCCommandOf
    Requests <- MCRequests
    MaxSequence = 5
    MaxFrames = 1
    StoreCapacity = 2
    Troubles = {"lost", "unplug", "restart", "brownout"}
    MaxTroubles = 1
SPECIFICATION Spec
INVARIANTS TypeOK ActuationExact  OffsetBeforeRun
CHECK_DEADLOCK FALSE
