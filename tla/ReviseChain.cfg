CONSTANTS
    d0 = d0
    d1 = d1
    d2 = d2
    c1 = c1
    c2 = c2
    why1 = why1
    why2 = why2
    Roots = {d0}
    Decisions <- MCDecisions
    Executable = {d0, d1}
    Conclusions = {"mismatch", "verification_failed"}
    Readbacks <- MCReadbacks
    MaxRestarts = 1
    Reopens = {c1, c2}
    Reasons <- MCReasons
    None = None
SPECIFICATION Spec
INVARIANTS TypeOK BegunHoldsSlot NoOrphanPlan
PROPERTIES NativeAttemptReleased DecisionChainSpec
CHECK_DEADLOCK FALSE
