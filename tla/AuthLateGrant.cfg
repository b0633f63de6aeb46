\* The verifier's answer takes longer than the grant lives.
SPECIFICATION Spec
CONSTANTS
    None = None
    Plans = {p1}
    Calls = {c1}
    Grants = {g1}
    PlanTTL = 2
    GrantTTL = 1
    MaxRecords = 1
    MaxEvents = 2
    MaxClock = 2
SYMMETRY CallsAndGrants
PROPERTY ReadyOnLiveGrant
