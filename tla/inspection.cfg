SPECIFICATION Spec
CONSTANTS
    node1 = node1
    node2 = node2
    node3 = node3
    node4 = node4
    load1 = load1
    run1 = run1
    t1 = t1
    Calls = {node1, node2, node3, node4, load1}
    Kind <- MCKind
    Run <- MCRun
    Thread <- MCThread
    Threads = {t1}
    NoRun = NoRun
    NoThread = NoThread
    Nobody = Nobody
    HasText = {node1, node2, node3}
    Decided = {node4}
    Unscanned = {load1}
    MaxEvents = 1
    MaxActive = 2
SYMMETRY Alike
INVARIANTS
    TypeOK
    LateEventsJoin
    OneBaseline
    EventsKept
PROPERTY
    SettledStays
CHECK_DEADLOCK FALSE
