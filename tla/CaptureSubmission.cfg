\* One capture of two chunks, polled by their alarms and the second by a fast poll
\* too; the first job may be cancelled and be forgotten; the worker or the Brain
\* restarts once, at any step.
SPECIFICATION Spec
CONSTANTS
    c1 = c1
    j1 = j1
    j2 = j2
    alarm = alarm
    fast = fast
    Captures = {c1}
    Jobs = {j1, j2}
    Chunks <- MCChunks
    Signed = {c1}
    Cancellable = {j1}
    Forgettable = {j1}
    Polls <- MCPolls
    Alarm = alarm
    MaxRestarts = 1
CHECK_DEADLOCK FALSE
INVARIANTS TypeOK SuccessIsStored OutcomeKnowsItsChunks NotifiedOnce
PROPERTIES OutcomeStays CaptureSettles
