SPECIFICATION Spec
CONSTANTS
    node1 = node1
    node2 = node2
    tool1 = tool1
    tool2 = tool2
    put1 = put1
    get1 = get1
    t1 = t1
    NoThread = NoThread
    Calls = {tool1, get1}
    Kind <- MCKind
    Thread <- MCThread
    MayCarry <- MCMayCarry
    Mode <- MCBlockMode
    AlertOn = {"drift", "unsafe"}
    Capacity = 1
    SendMayRaise = TRUE
    MaxActive = 2
    Attached = TRUE
INVARIANT
    CallbackBlocks
