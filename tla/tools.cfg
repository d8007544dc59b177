SPECIFICATION Spec
CONSTANTS
    c1 = c1
    c2 = c2
    t1 = t1
    search = search
    shell = shell
    Clients = {c1, c2}
    Tools = {search, shell}
    Threads = {t1}
    NoThread = NoThread
    Calls <- MCCalls
    Rules = {"shell_metachar", "out_of_allowlist", "enumeration"}
    Allowed = {search}
    BlockOn = {"shell_metachar", "oversized_args", "enumeration"}
    Window = 1
    Threshold = 2
    MaxTime = 3
    MaxSkew = 1
    MaxWindow = 1
SYMMETRY Alike
INVARIANTS
    TypeOK
    NoSweepMissed
    AlarmsBounded
    VerdictExplained
