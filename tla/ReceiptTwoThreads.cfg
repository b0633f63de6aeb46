\* An execution and read-backs of one receipt in two threads.
SPECIFICATION Spec
CONSTANTS
    None = None
    Torn = Torn
    Threads = {t1, t2}
    Receipts = {r1}
    Attempts = {v1, v2}
    MaxVerificationAttempts = 1
    Files = {f1, f2, f3, f4}
SYMMETRY AllSymmetry
INVARIANTS
    FileNeverAhead
    ReadbackStaysEligible
    AttemptsExclusive
