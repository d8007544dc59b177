SPECIFICATION FairSpec
CONSTANTS
    r1 = r1
    r2 = r2
    Requests = {r1, r2}
    NoRequest = NoRequest
    Window = 2
    MinSamples = 2
    RateNum = 1
    RateDen = 2
    Cooldown = 2
    FailClosedOnAttack = FALSE
    AttackWindow = 1
    MinAttackSignals = 2
    MaxCalls = 3
    MaxAttacks = 2
    MayAbandon = FALSE
    RefusalsReported = FALSE
INVARIANT
    ProbeOwned
PROPERTY
    HealsOnceHealthy
