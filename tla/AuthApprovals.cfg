\* Two sessions approve two plans while these are denied, revoked, swept, discarded
\* and lost in a restart; the store and the audit at their limits.
SPECIFICATION Spec
CONSTANTS
    None = None
    Plans = {p1, p2}
    Calls = {c1, c2}
    Grants = {g1, g2}
    PlanTTL = 3
    GrantTTL = 1
    MaxRecords = 2
    MaxEvents = 2
    MaxClock = 2
SYMMETRY CallsAndGrants
INVARIANTS
    TypeOK
    OneApprovalPerPlan
    ApprovedIsAudited
    RequestAgrees
PROPERTY GoneStaysGone
