SPECIFICATION Spec
CONSTANTS
    plan = plan
    act = act
    check = check
    tool = tool
    Nodes = {plan, act, check, tool}
    Threads = {t1, t2}
    Start = Start
    End = End
    Llm = Llm
    NoNode = NoNode
    Edges <- MCEdges
    Branches <- MCBranches
    Strays <- MCStrays
    Wrapped = {act}
    Models = {plan}
    MaxTurns = 2
CHECK_DEADLOCK FALSE
INVARIANTS
    TypeOK
    FalseAlarmsExplained
    StraysAlarm
