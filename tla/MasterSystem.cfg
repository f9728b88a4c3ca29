CONSTANTS
    upper = upper  lower = lower  A = A  B = B
    Conveyors = {upper, lower}
    CanFail = {"vision"}
    Stations = {A}
    LineFaults = TRUE
    Exits = FALSE
    MaxOrders = 2
SPECIFICATION Spec
SYMMETRY MasterSymmetry
INVARIANTS TypeOK BeliefMatchesOrders
PROPERTIES PausedOnlyWhenStopped RunOnlyOnRequest

