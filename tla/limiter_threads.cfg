SPECIFICATION Spec
CONSTANTS
    a = a
    b = b
    Threads = {a, b}
    NoThread = NoThread
    Capacity = 1
    Refill = 1
    MaxTime = 2
    MaxCalls = 4
INVARIANT
    RateBoundOfKey
CHECK_DEADLOCK FALSE
