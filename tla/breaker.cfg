SPECIFICATION Spec
CONSTANTS
    r1 = r1
    r2 = r2
    r3 = r3
    Requests = {r1, r2, r3}
    NoRequest = NoRequest
    Window = 1
    MinSamples = 2
    RateNum = 1
    RateDen = 2
    Cooldown = 2
    FailClosedOnAttack = TRUE
    AttackWindow = 1
    MinAttackSignals = 2
    MaxCalls = 3
    MaxAttacks = 2
    MayAbandon = TRUE
    RefusalsReported = TRUE
SYMMETRY Callers
INVARIANTS
    TypeOK
    SlotAccounting
PROPERTIES
    OutageFixed
    KeepsContract
