\* Two broker processes that crash and restart over the same files, two threads,
\* each in either process; one guarded plan, two approvals that may name it.
SPECIFICATION Spec
CONSTANTS
    None = None
    Plans = {p1}
    Guarded = {p1}
    Approvals = {a1, a2}
    Threads = {t1, t2}
    Instances = {i1, i2}
    GrantLifetime = 2
    MaxTime = 2
    PlanExpiry <- LatePlanExpiry
SYMMETRY AllSymmetry
INVARIANTS
    TypeOK
    AtMostOneSpawn
    SpawnIsAccounted
    WithdrawalHolds
    OneLiveGrantPerPlan
