\* Two captures that reach a queue of one at the same time, two workers.
CONSTANTS
    a1 = a1  b1 = b1  a2 = a2  p1 = p1  p2 = p2  w1 = w1  w2 = w2
    None = None
    Jobs = {b1, a2}
    Products = {p1, p2}
    ProductOf <- MCProductOf
    StationOf <- MCStationOf
    FifoOf <- MCFifoOf
    Capacity = 1
    Workers = {w1, w2}
    TimedJobs = {b1}
    CancelScopes <- MCCancelScopes
    OomPossible = TRUE
SPECIFICATION FairSpec
PROPERTIES StopTerminates AcceptedJobReported
CHECK_DEADLOCK FALSE
