\* Four captures of two products in any arrival order, a deque of three.
CONSTANTS
    a1 = a1  b1 = b1  a2 = a2  b2 = b2  p1 = p1  p2 = p2
    None = None
    Jobs = {a1, b1, a2, b2}
    Products = {p1, p2}
    ProductOf <- MCProductOf
    StationOf <- MCStationOf
    FifoOf <- MCFifoOf
    Capacity = 3
SPECIFICATION Spec
PROPERTY RefinesPromise
CHECK_DEADLOCK FALSE
