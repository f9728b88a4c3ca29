CONSTANTS
    upper = upper  lower = lower  A = A  B = B
    Conveyors = {upper}
    CanFail = {}
    Stations = {}
    LineFaults = FALSE
    Exits = TRUE
    MaxOrders = 2
SPECIFICATION Spec
INVARIANTS ExitLeavesLineStopped
CHECK_DEADLOCK FALSE
