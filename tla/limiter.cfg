SPECIFICATION Spec
CONSTANTS
    c1 = c1
    c2 = c2
    t1 = t1
    search = search
    Clients = {c1, c2}
    Tools = {search}
    Threads = {t1, Absent}
    Sizes = {0, 10}
    Absent = Absent
    KeyFields = {"tenant", "thread"}
    Calls <- MCCalls
    Capacity = 2
    Refill = 1
    SizeDivisor = 10
    NoBucket = NoBucket
    NoPromise = NoPromise
    NoWatch = NoWatch
    MaxTime = 3
    MaxSkew = 1
INVARIANTS
    TypeOK
    RateBound
    RetryAdmitted
PROPERTY
    KeepsBuckets
