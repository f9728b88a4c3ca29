CONSTANTS
    upper = upper  lower = lower  A = A  B = B
    Conveyors = {upper}
    CanFail = {"control","mega"}
    Stations = {}
    LineFaults = TRUE
    Exits = TRUE
    MaxOrders = 2
SPECIFICATION FairSpec
INVARIANTS TaintedLineStaysStopped
PROPERTIES StopWaitsEnd
CHECK_DEADLOCK FALSE
