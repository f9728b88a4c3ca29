\* Three captures, two workers, a queue of one: enqueues block.
CONSTANTS
    a1 = a1  b1 = b1  a2 = a2  p1 = p1  p2 = p2  w1 = w1  w2 = w2
    None = None
    Jobs = {a1, b1, a2}
    Products = {p1, p2}
    ProductOf <- MCProductOf
    StationOf <- MCStationOf
    FifoOf <- MCFifoOf
    Capacity = 1
    Workers = {w1, w2}
    TimedJobs = {b1}
    CancelScopes <- MCCancelScopes
    OomPossible = TRUE
SPECIFICATION Spec
SYMMETRY WorkerSymmetry
INVARIANTS TypeOK ProducerSleepsOnlyWhenFull NoLostWakeup SingleOwner CanceledScopeLeavesQueue
PROPERTIES OutcomeFinal CancelClosesAllButOneWindow
CHECK_DEADLOCK FALSE
