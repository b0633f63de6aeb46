\* Two threads persist at once: is an accepted receipt in the file before its process?
SPECIFICATION Spec
CONSTANTS
    None = None
    Torn = Torn
    Threads = {t1, t2}
    Receipts = {r1, r2}
    Attempts = {v1, v2}
    MaxVerificationAttempts = 1
    Files = {f1, f2, f3, f4}
SYMMETRY AllSymmetry
INVARIANT ReceiptBeforeSpawn
