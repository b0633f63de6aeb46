\* One thread at a time; crashes and failed writes at every step of a persist.
SPECIFICATION Spec
CONSTANTS
    None = None
    Torn = Torn
    Threads = {t1}
    Receipts = {r1, r2}
    Attempts = {v1, v2}
    MaxVerificationAttempts = 1
    Files = {f1, f2}
SYMMETRY FilesAndAttempts
INVARIANTS
    TypeOK
    FileReadable
    ReceiptBeforeSpawn
    NothingLost
    ReadsBounded
PROPERTY FileNeverRewinds
