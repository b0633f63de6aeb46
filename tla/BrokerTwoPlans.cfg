\* Two plans, one of them free of approval, in two threads of one process under
\* fairness: the receipts of both share one file.  (No symmetry: liveness.)
SPECIFICATION FairSpec
CONSTANTS
    None = None
    Plans = {p1, p2}
    Guarded = {p1}
    Approvals = {a1}
    Threads = {t1, t2}
    Instances = {i1}
    GrantLifetime = 1
    MaxTime = 1
    PlanExpiry <- LatePlanExpiry
INVARIANTS
    ReceiptsKnowTheProcess
    InFlightHasAThread
PROPERTIES
    SingleUseSpec
    CallsReturn
