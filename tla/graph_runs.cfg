SPECIFICATION RunSpec
CONSTANTS
    r1 = r1
    Requests = {r1}
    NoRequest = NoRequest
    Window = 2
    MinSamples = 2
    RateNum = 1
    RateDen = 2
    Cooldown = 2
    FailClosedOnAttack = FALSE
    AttackWindow = 1
    MinAttackSignals = 2
    MaxCalls = 3
    MaxAttacks = 2
    MayAbandon = FALSE
    RefusalsReported = FALSE
    Gates = 2
PROPERTY
    RunsHeal
