\* Three goals, two of them for one capture, a queue of one.
CONSTANTS
    a = a  again = again  b = b  p1 = p1  p2 = p2
    k1 = k1  k2 = k2  c1 = c1  c2 = c2
    None = None
    Goals = {a, again, b}
    ProductOf <- MCProductOf
    StationOf <- MCStationOf
    CaptureOf <- MCCaptureOf
    CommandOf <- MCCommandOf
    MaxAttempts = 2
    Capacity = 1
    Scopes <- MCScopes
    StoreCapacity = 1
    Troubles = {"camera", "disk", "oom", "initialize", "master", "cancel", "shutdown"}
    MaxTroubles = 1
SPECIFICATION FairSpec
INVARIANTS TypeOK OneJobPerCapture
PROPERTIES CanceledScopeShutsOut EveryGoalEnds
CHECK_DEADLOCK FALSE
