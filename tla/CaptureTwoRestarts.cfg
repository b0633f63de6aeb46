\* The same capture, whose worker is stopped twice: are the jobs it was answered for
\* waited for?
SPECIFICATION Spec
CONSTANTS
    c1 = c1
    j1 = j1
    j2 = j2
    alarm = alarm
    fast = fast
    Captures = {c1}
    Jobs = {j1, j2}
    Chunks <- MCChunks
    Signed = {c1}
    Cancellable = {j1}
    Forgettable = {j1}
    Polls <- MCPolls
    Alarm = alarm
    MaxRestarts = 2
CHECK_DEADLOCK FALSE
INVARIANT AcceptedJobsSettle
