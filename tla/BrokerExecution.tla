--------------------------- MODULE BrokerExecution ---------------------------
(***************************************************************************)
(* The native execution broker of the desktop daemon                       *)
(* (desktop-daemon/src-tauri/src/execution_broker): Broker::execute, the   *)
(* approval store, the plan ledger and the execution receipts, as threads  *)
(* of one or more operating-system processes ("instances") run them over   *)
(* the same three files.                                                   *)
(*                                                                         *)
(* Every store has a copy in memory, changed under a mutex, and a file,    *)
(* replaced whole by an atomic rename.  The approval store and the ledger  *)
(* hold their mutex while they write the file, so a persist is one step.   *)
(* The receipt store takes its snapshot under the mutex and writes it      *)
(* after the mutex is released, so there a persist is two steps.  A crash  *)
(* loses memory and keeps files; a failed write changes no file.           *)
(***************************************************************************)
EXTENDS Integers, FiniteSets

CONSTANTS
    Plans,          \* plan ids
    Guarded,        \* the plans whose compiled policy requires an approval
    Approvals,      \* approval ids, drawn at random by the native authority
    Threads,        \* threads that serve calls (Tauri commands, bridge connections)
    Instances,      \* broker processes pointing at the same files
    PlanExpiry,     \* [Plans -> time from which the plan is expired]
    GrantLifetime,  \* the longest lifetime of a grant
    MaxTime,        \* bound on the clock
    None            \* no plan, approval or instance

ASSUME BrokerAssumption ==
    /\ Guarded \subseteq Plans
    /\ MaxTime \in Nat
    /\ GrantLifetime \in Nat
    /\ PlanExpiry \in [Plans -> 0..MaxTime]
    /\ None \notin Plans \cup Approvals \cup Instances

VARIABLES
    now,            \* the clock all instances read
    startup,        \* [Instances -> the next store the process opens]
    lock,           \* [Stores -> the instance holding the OS file lock]
    degraded,       \* [Instances -> stores that fail closed there]
    ledgerMem, ledgerDisk,  \* phase of each plan id in the plan ledger
    apprMem, apprDisk,      \* record of each approval id
    rcptMem, rcptDisk,      \* state of the receipt of each plan
    pc,             \* [Threads -> where the call is]
    job,            \* [Threads -> what the call works on]
    snap,           \* [Threads -> receipt snapshot taken and not yet written]
    spawns,         \* history: processes created for each plan
    spawnedWith,    \* history: the approval a plan was spawned with
    withdrawn       \* history: approvals whose deny/revoke returned Ok

hostVars    == <<startup, lock, degraded>>
ledgerVars  == <<ledgerMem, ledgerDisk>>
apprVars    == <<apprMem, apprDisk>>
rcptVars    == <<rcptMem, rcptDisk>>
callVars    == <<pc, job, snap>>
historyVars == <<spawns, spawnedWith, withdrawn>>
vars == <<now, hostVars, ledgerVars, apprVars, rcptVars, callVars, historyVars>>

-----------------------------------------------------------------------------
(* Types *)

Stores == {"approvals", "ledger", "receipts"}

LedgerPhase == {"absent", "accepted", "reserved"}
EmptyLedger == [p \in Plans |-> "absent"]

\* A record that exists is of a plan and has its life cycle behind a grant.
ApprovalStatus == {"granted", "consumed", "denied", "revoked"}
NoRecord       == [status |-> "absent", plan |-> None, expires |-> 0]
ApprovalRecord == {NoRecord} \cup [status : ApprovalStatus, plan : Plans, expires : 0..MaxTime]
EmptyApprovals == [a \in Approvals |-> NoRecord]

ReceiptState == {"none", "accepted", "spawn_started", "spawn_failed", "completed",
                 "unknown_after_crash"}
NoReceipts == [p \in Plans |-> "none"]

PC == {"idle", "accepting", "acceptPersist", "reserving", "reservePersist", "consuming",
       "consumePersist", "inserting", "spawning", "aborting", "marking", "waiting", "auditing",
       "receiptSnapshot", "receiptWrite", "grantPersist", "withdrawPersist"}

\* `then` is where a call goes once its receipt update is on disk.
Job   == [inst : Instances \cup {None}, plan : Plans \cup {None},
          appr : Approvals \cup {None}, then : PC]
NoJob == [inst |-> None, plan |-> None, appr |-> None, then |-> "idle"]

TypeOK ==
    /\ now \in 0..MaxTime
    /\ startup \in [Instances -> {"down", "ledger", "receipts", "up"}]
    /\ lock \in [Stores -> Instances \cup {None}]
    /\ degraded \in [Instances -> SUBSET Stores]
    /\ ledgerMem \in [Instances -> [Plans -> LedgerPhase]]
    /\ ledgerDisk \in [Plans -> LedgerPhase]
    /\ apprMem \in [Instances -> [Approvals -> ApprovalRecord]]
    /\ apprDisk \in [Approvals -> ApprovalRecord]
    /\ rcptMem \in [Instances -> [Plans -> ReceiptState]]
    /\ rcptDisk \in [Plans -> ReceiptState]
    /\ pc \in [Threads -> PC]
    /\ job \in [Threads -> Job]
    /\ snap \in [Threads -> [Plans -> ReceiptState]]
    /\ spawns \in [Plans -> Nat]
    /\ spawnedWith \in [Plans -> Approvals \cup {None}]
    /\ withdrawn \in SUBSET Approvals

Init ==
    /\ now = 0
    /\ startup = [i \in Instances |-> "down"]
    /\ lock = [s \in Stores |-> None]
    /\ degraded = [i \in Instances |-> {}]
    /\ ledgerMem = [i \in Instances |-> EmptyLedger]
    /\ ledgerDisk = EmptyLedger
    /\ apprMem = [i \in Instances |-> EmptyApprovals]
    /\ apprDisk = EmptyApprovals
    /\ rcptMem = [i \in Instances |-> NoReceipts]
    /\ rcptDisk = NoReceipts
    /\ pc = [t \in Threads |-> "idle"]
    /\ job = [t \in Threads |-> NoJob]
    /\ snap = [t \in Threads |-> NoReceipts]
    /\ spawns = [p \in Plans |-> 0]
    /\ spawnedWith = [p \in Plans |-> None]
    /\ withdrawn = {}

-----------------------------------------------------------------------------
(* Process start, crash and the clock *)

\* Faulty variants (names ending in _Bug) are never used by the specification:
\* each shows that a property would notice that mistake in the code.

\* Opens the store without asking for the file lock.
Acquire_Bug(i, s) ==
    /\ lock' = [lock EXCEPT ![s] = i]
    /\ UNCHANGED degraded

Acquire(i, s) ==
    /\ lock[s] = None
    /\ lock' = [lock EXCEPT ![s] = i]
    /\ UNCHANGED degraded

\* The lock is held elsewhere, or the file cannot be read, parsed or migrated:
\* the store opens degraded, empty and without the lock.
OpensDegraded(i, s) ==
    /\ degraded' = [degraded EXCEPT ![i] = @ \cup {s}]
    /\ UNCHANGED lock

OpenApprovals(i) ==
    /\ startup[i] = "down"
    /\ startup' = [startup EXCEPT ![i] = "ledger"]
    /\ \/ /\ Acquire(i, "approvals")
          /\ apprMem' = [apprMem EXCEPT ![i] = apprDisk]
       \/ /\ OpensDegraded(i, "approvals")
          /\ UNCHANGED apprMem
    /\ UNCHANGED <<now, ledgerVars, apprDisk, rcptVars, callVars, historyVars>>

\* Starts from an empty ledger instead of the file.
OpenLedger_Bug(i) ==
    /\ startup[i] = "ledger"
    /\ startup' = [startup EXCEPT ![i] = "receipts"]
    /\ Acquire(i, "ledger")
    /\ UNCHANGED <<now, ledgerVars, apprVars, rcptVars, callVars, historyVars>>

OpenLedger(i) ==
    /\ startup[i] = "ledger"
    /\ startup' = [startup EXCEPT ![i] = "receipts"]
    /\ \/ /\ Acquire(i, "ledger")
          /\ ledgerMem' = [ledgerMem EXCEPT ![i] = ledgerDisk]
       \/ /\ OpensDegraded(i, "ledger")
          /\ UNCHANGED ledgerMem
    /\ UNCHANGED <<now, ledgerDisk, apprVars, rcptVars, callVars, historyVars>>

\* Restart recovery: a receipt a previous run left in flight can be claimed
\* neither as "no effect" nor as "completed".
Recovered(receipts) ==
    [p \in Plans |-> IF receipts[p] \in {"accepted", "spawn_started"}
                     THEN "unknown_after_crash"
                     ELSE receipts[p]]

OpenReceipts(i) ==
    /\ startup[i] = "receipts"
    /\ startup' = [startup EXCEPT ![i] = "up"]
    /\ \/ /\ Acquire(i, "receipts")
          /\ rcptMem' = [rcptMem EXCEPT ![i] = Recovered(rcptDisk)]
          /\ rcptDisk' = Recovered(rcptDisk)
       \/ /\ OpensDegraded(i, "receipts")
          /\ UNCHANGED rcptVars
    /\ UNCHANGED <<now, ledgerVars, apprVars, callVars, historyVars>>

\* The process dies: its memory, its threads and its locks are gone.
Crash(i) ==
    /\ startup[i] # "down"
    /\ startup' = [startup EXCEPT ![i] = "down"]
    /\ lock' = [s \in Stores |-> IF lock[s] = i THEN None ELSE lock[s]]
    /\ degraded' = [degraded EXCEPT ![i] = {}]
    /\ ledgerMem' = [ledgerMem EXCEPT ![i] = EmptyLedger]
    /\ apprMem' = [apprMem EXCEPT ![i] = EmptyApprovals]
    /\ rcptMem' = [rcptMem EXCEPT ![i] = NoReceipts]
    /\ pc' = [t \in Threads |-> IF job[t].inst = i THEN "idle" ELSE pc[t]]
    /\ job' = [t \in Threads |-> IF job[t].inst = i THEN NoJob ELSE job[t]]
    /\ snap' = [t \in Threads |-> IF job[t].inst = i THEN NoReceipts ELSE snap[t]]
    /\ UNCHANGED <<now, ledgerDisk, apprDisk, rcptDisk, historyVars>>

Tick ==
    /\ now < MaxTime
    /\ now' = now + 1
    /\ UNCHANGED <<hostVars, ledgerVars, apprVars, rcptVars, callVars, historyVars>>

-----------------------------------------------------------------------------
(* The life of a call *)

Begin(t, i, p, a, l) ==
    /\ pc[t] = "idle"
    /\ startup[i] = "up"
    /\ pc' = [pc EXCEPT ![t] = l]
    /\ job' = [job EXCEPT ![t] = [inst |-> i, plan |-> p, appr |-> a, then |-> "idle"]]
    /\ UNCHANGED snap

Goto(t, l) ==
    /\ pc' = [pc EXCEPT ![t] = l]
    /\ UNCHANGED <<job, snap>>

Return(t) ==
    /\ pc' = [pc EXCEPT ![t] = "idle"]
    /\ job' = [job EXCEPT ![t] = NoJob]
    /\ snap' = [snap EXCEPT ![t] = NoReceipts]

-----------------------------------------------------------------------------
(* Approvals: grant, deny, revoke *)

\* Forgets that the plan may already have a live grant.
Grant_Bug(t, i, p, a, expires) ==
    /\ "approvals" \notin degraded[i]
    /\ \A j \in Instances : apprMem[j][a] = NoRecord
    /\ apprDisk[a] = NoRecord
    /\ now < expires
    /\ Begin(t, i, p, a, "grantPersist")
    /\ apprMem' = [apprMem EXCEPT ![i][a] =
                      [status |-> "granted", plan |-> p, expires |-> expires]]
    /\ UNCHANGED <<now, hostVars, ledgerVars, apprDisk, rcptVars, historyVars>>

\* grant_at: an id no record carries, no live grant for the same plan.
Grant(t, i, p, a, expires) ==
    /\ "approvals" \notin degraded[i]
    /\ \A j \in Instances : apprMem[j][a] = NoRecord
    /\ apprDisk[a] = NoRecord
    /\ \A b \in Approvals : ~(apprMem[i][b].plan = p /\ apprMem[i][b].status = "granted")
    /\ now < expires
    /\ expires - now <= GrantLifetime
    /\ expires <= PlanExpiry[p]
    /\ Begin(t, i, p, a, "grantPersist")
    /\ apprMem' = [apprMem EXCEPT ![i][a] =
                      [status |-> "granted", plan |-> p, expires |-> expires]]
    /\ UNCHANGED <<now, hostVars, ledgerVars, apprDisk, rcptVars, historyVars>>

PersistGrant(t) ==
    /\ pc[t] = "grantPersist"
    /\ Return(t)
    /\ \/ apprDisk' = apprMem[job[t].inst]
       \/ UNCHANGED apprDisk
    /\ UNCHANGED <<now, hostVars, ledgerVars, apprMem, rcptVars, historyVars>>

WithStatus(record, status) == [record EXCEPT !.status = status]

\* Writes the withdrawal also of an id that no record carries.
Withdraw_Bug(t, i, a, status) ==
    /\ "approvals" \notin degraded[i]
    /\ apprMem[i][a].status # "consumed"
    /\ Begin(t, i, None, a, "withdrawPersist")
    /\ apprMem' = [apprMem EXCEPT ![i][a] = WithStatus(@, status)]
    /\ UNCHANGED <<now, hostVars, ledgerVars, apprDisk, rcptVars, historyVars>>

\* deny / revoke: a consumed approval stays consumed (the call changes nothing).
Withdraw(t, i, a, status) ==
    /\ "approvals" \notin degraded[i]
    /\ apprMem[i][a].status \notin {"absent", "consumed"}
    /\ Begin(t, i, None, a, "withdrawPersist")
    /\ apprMem' = [apprMem EXCEPT ![i][a] = WithStatus(@, status)]
    /\ UNCHANGED <<now, hostVars, ledgerVars, apprDisk, rcptVars, historyVars>>

PersistWithdraw(t) ==
    /\ pc[t] = "withdrawPersist"
    /\ Return(t)
    /\ \/ /\ apprDisk' = apprMem[job[t].inst]
          /\ withdrawn' = withdrawn \cup {job[t].appr}
       \/ UNCHANGED <<apprDisk, withdrawn>>
    /\ UNCHANGED <<now, hostVars, ledgerVars, apprMem, rcptVars, spawns, spawnedWith>>

-----------------------------------------------------------------------------
(* Broker::execute: the gate, then accept -> reserve -> consume -> receipt *)

\* The stored record, never the presented strings, authorises the plan.
Verifies(i, p, a) ==
    /\ apprMem[i][a].plan = p
    /\ apprMem[i][a].status = "granted"
    /\ now < apprMem[i][a].expires

Execute(t, i, p, a) ==
    /\ degraded[i] = {}
    /\ now < PlanExpiry[p]
    /\ IF p \in Guarded THEN a # None /\ Verifies(i, p, a) ELSE a = None
    /\ Begin(t, i, p, a, "accepting")
    /\ UNCHANGED <<now, hostVars, ledgerVars, apprVars, rcptVars, historyVars>>

Accept(t) ==
    LET i == job[t].inst
        p == job[t].plan
    IN  /\ pc[t] = "accepting"
        /\ \/ /\ ledgerMem[i][p] # "absent"
              /\ Return(t)
              /\ UNCHANGED ledgerMem
           \/ /\ ledgerMem[i][p] = "absent"
              /\ ledgerMem' = [ledgerMem EXCEPT ![i][p] = "accepted"]
              /\ Goto(t, "acceptPersist")
        /\ UNCHANGED <<now, hostVars, ledgerDisk, apprVars, rcptVars, historyVars>>

\* A failed persist returns the error; what memory already holds stays there.
PersistLedger(t, from, next) ==
    /\ pc[t] = from
    /\ \/ /\ ledgerDisk' = ledgerMem[job[t].inst]
          /\ Goto(t, next)
       \/ /\ Return(t)
          /\ UNCHANGED ledgerDisk
    /\ UNCHANGED <<now, hostVars, ledgerMem, apprVars, rcptVars, historyVars>>

PersistAccept(t) == PersistLedger(t, "acceptPersist", "reserving")

Reserve(t) ==
    /\ pc[t] = "reserving"
    /\ ledgerMem' = [ledgerMem EXCEPT ![job[t].inst][job[t].plan] = "reserved"]
    /\ Goto(t, "reservePersist")
    /\ UNCHANGED <<now, hostVars, ledgerDisk, apprVars, rcptVars, historyVars>>

PersistReserve(t) ==
    PersistLedger(t, "reservePersist",
                  IF job[t].plan \in Guarded THEN "consuming" ELSE "inserting")

\* Trusts the verification made before the plan was accepted.
Consume_Bug(t) ==
    /\ pc[t] = "consuming"
    /\ apprMem' = [apprMem EXCEPT ![job[t].inst][job[t].appr] = WithStatus(@, "consumed")]
    /\ Goto(t, "consumePersist")
    /\ UNCHANGED <<now, hostVars, ledgerVars, apprDisk, rcptVars, historyVars>>

\* consume_if_granted: status and expiry are checked again, at this instant.
Consume(t) ==
    LET i == job[t].inst
        a == job[t].appr
    IN  /\ pc[t] = "consuming"
        /\ IF apprMem[i][a].status = "granted" /\ now < apprMem[i][a].expires
           THEN /\ apprMem' = [apprMem EXCEPT ![i][a] = WithStatus(@, "consumed")]
                /\ Goto(t, "consumePersist")
           ELSE /\ Return(t)
                /\ UNCHANGED apprMem
        /\ UNCHANGED <<now, hostVars, ledgerVars, apprDisk, rcptVars, historyVars>>

\* Spawns although the consumption is not on disk.
PersistConsume_Bug(t) ==
    /\ pc[t] = "consumePersist"
    /\ Goto(t, "inserting")
    /\ \/ apprDisk' = apprMem[job[t].inst]
       \/ UNCHANGED apprDisk
    /\ UNCHANGED <<now, hostVars, ledgerVars, apprMem, rcptVars, historyVars>>

PersistConsume(t) ==
    /\ pc[t] = "consumePersist"
    /\ \/ /\ apprDisk' = apprMem[job[t].inst]
          /\ Goto(t, "inserting")
       \/ /\ Return(t)
          /\ UNCHANGED apprDisk
    /\ UNCHANGED <<now, hostVars, ledgerVars, apprMem, rcptVars, historyVars>>

-----------------------------------------------------------------------------
(* The execution receipt *)

TransitionAllowed(from, to) ==
    <<from, to>> \in {<<"none", "accepted">>,   \* insert_accepted
                      <<"accepted", "spawn_started">>, <<"accepted", "spawn_failed">>,
                      <<"accepted", "unknown_after_crash">>,
                      <<"spawn_started", "completed">>,
                      <<"spawn_started", "unknown_after_crash">>}

\* Change the receipt in memory and go on to persist it; on a degraded store or
\* an illegal transition the call gives up with an error.
MarkReceipt(t, to, then) ==
    LET i == job[t].inst
        p == job[t].plan
    IN  IF "receipts" \notin degraded[i] /\ TransitionAllowed(rcptMem[i][p], to)
        THEN /\ rcptMem' = [rcptMem EXCEPT ![i][p] = to]
             /\ pc' = [pc EXCEPT ![t] = "receiptSnapshot"]
             /\ job' = [job EXCEPT ![t].then = then]
             /\ UNCHANGED snap
        ELSE /\ Return(t)
             /\ UNCHANGED rcptMem

ReceiptUnchanged ==
    UNCHANGED <<now, hostVars, ledgerVars, apprVars, rcptDisk, historyVars>>

InsertAccepted(t) ==
    /\ pc[t] = "inserting"
    /\ MarkReceipt(t, "accepted", "spawning")
    /\ ReceiptUnchanged

\* Takes the failed start for a started process.
SpawnFails_Bug(t) ==
    /\ pc[t] \in {"spawning", "aborting"}
    /\ MarkReceipt(t, "spawn_started", "idle")
    /\ ReceiptUnchanged

\* prepare_run or the creation fails, or ProcessTree::spawn has killed the process
\* it created: on_spawn_failed is called either way.
SpawnFails(t) ==
    /\ pc[t] \in {"spawning", "aborting"}
    /\ MarkReceipt(t, "spawn_failed", "idle")
    /\ ReceiptUnchanged

\* The process is created.  On Windows it may then not be put in its job object, or
\* not be resumed: it is killed, and the spawn is reported to have failed.
SpawnProcess(t) ==
    LET p == job[t].plan
    IN  /\ pc[t] = "spawning"
        /\ spawns' = [spawns EXCEPT ![p] = @ + 1]
        /\ spawnedWith' = [spawnedWith EXCEPT ![p] = job[t].appr]
        /\ \E l \in {"marking", "aborting"} : Goto(t, l)
        /\ UNCHANGED <<now, hostVars, ledgerVars, apprVars, rcptVars, withdrawn>>

\* Starts the process again when the marker could not be recorded.
Respawn_Bug(t) ==
    /\ pc[t] = "marking"
    /\ \/ MarkReceipt(t, "spawn_started", "waiting")
       \/ Goto(t, "spawning") /\ UNCHANGED rcptMem
    /\ ReceiptUnchanged

\* Reports the spawn as failed and goes on to wait for the process.
MarkSpawnStarted_Bug(t) ==
    /\ pc[t] = "marking"
    /\ MarkReceipt(t, "spawn_failed", "waiting")
    /\ ReceiptUnchanged

\* A spawn marker that cannot be recorded terminates the process tree.
MarkSpawnStarted(t) ==
    /\ pc[t] = "marking"
    /\ MarkReceipt(t, "spawn_started", "waiting")
    /\ ReceiptUnchanged

\* The tree exits, is cancelled or is killed at the deadline; the approval of a
\* guarded plan then gets its execution id.
MarkCompleted(t) ==
    /\ pc[t] = "waiting"
    /\ MarkReceipt(t, "completed", IF job[t].plan \in Guarded THEN "auditing" ELSE "idle")
    /\ ReceiptUnchanged

\* Returns the error of a failed wait without settling the receipt.
MarkUnknown_Bug(t) ==
    /\ pc[t] = "waiting"
    /\ Return(t)
    /\ UNCHANGED rcptMem
    /\ ReceiptUnchanged

\* Waiting for the process fails: the tree is killed and the outcome is unknown.
MarkUnknown(t) ==
    /\ pc[t] = "waiting"
    /\ MarkReceipt(t, "unknown_after_crash", "idle")
    /\ ReceiptUnchanged

SnapshotReceipts(t) ==
    /\ pc[t] = "receiptSnapshot"
    /\ snap' = [snap EXCEPT ![t] = rcptMem[job[t].inst]]
    /\ pc' = [pc EXCEPT ![t] = "receiptWrite"]
    /\ UNCHANGED <<now, hostVars, ledgerVars, apprVars, rcptVars, job, historyVars>>

\* Retries a failed write instead of degrading.
WriteReceipts_Bug(t) ==
    /\ pc[t] = "receiptWrite"
    /\ \/ /\ rcptDisk' = snap[t]
          /\ pc' = [pc EXCEPT ![t] = job[t].then]
          /\ job' = [job EXCEPT ![t] = IF job[t].then = "idle" THEN NoJob ELSE @]
          /\ snap' = [snap EXCEPT ![t] = NoReceipts]
       \/ /\ pc' = [pc EXCEPT ![t] = "receiptSnapshot"]
          /\ UNCHANGED <<rcptDisk, job, snap>>
    /\ UNCHANGED <<now, hostVars, ledgerVars, apprVars, rcptMem, historyVars>>

\* persist_or_degrade: a failed write degrades the store for good.
WriteReceipts(t) ==
    /\ pc[t] = "receiptWrite"
    /\ \/ /\ rcptDisk' = snap[t]
          /\ pc' = [pc EXCEPT ![t] = job[t].then]
          /\ job' = [job EXCEPT ![t] = IF job[t].then = "idle" THEN NoJob ELSE @]
          /\ snap' = [snap EXCEPT ![t] = NoReceipts]
          /\ UNCHANGED degraded
       \/ /\ degraded' = [degraded EXCEPT ![job[t].inst] = @ \cup {"receipts"}]
          /\ Return(t)
          /\ UNCHANGED rcptDisk
    /\ UNCHANGED <<now, startup, lock, ledgerVars, apprVars, rcptMem, historyVars>>

\* record_execution_id: audit only, its failure is ignored.
RecordExecutionId(t) ==
    /\ pc[t] = "auditing"
    /\ Return(t)
    /\ \/ apprDisk' = apprMem[job[t].inst]
       \/ UNCHANGED apprDisk
    /\ UNCHANGED <<now, hostVars, ledgerVars, apprMem, rcptVars, historyVars>>

-----------------------------------------------------------------------------

\* What a call does on its own once it has begun.
Progress(t) ==
    \/ PersistGrant(t) \/ PersistWithdraw(t)
    \/ Accept(t) \/ PersistAccept(t) \/ Reserve(t) \/ PersistReserve(t)
    \/ Consume(t) \/ PersistConsume(t) \/ InsertAccepted(t)
    \/ SpawnFails(t) \/ SpawnProcess(t) \/ MarkSpawnStarted(t)
    \/ MarkCompleted(t) \/ MarkUnknown(t)
    \/ SnapshotReceipts(t) \/ WriteReceipts(t) \/ RecordExecutionId(t)

Call(t) ==
    \E i \in Instances :
        \/ \E p \in Plans, a \in Approvals, e \in 1..MaxTime : Grant(t, i, p, a, e)
        \/ \E a \in Approvals, s \in {"denied", "revoked"} : Withdraw(t, i, a, s)
        \/ \E p \in Plans, a \in Approvals \cup {None} : Execute(t, i, p, a)

Host(i) == OpenApprovals(i) \/ OpenLedger(i) \/ OpenReceipts(i) \/ Crash(i)

Next ==
    \/ Tick
    \/ \E i \in Instances : Host(i)
    \/ \E t \in Threads : Call(t) \/ Progress(t)

Spec == Init /\ [][Next]_vars

\* A thread that is running keeps running: no step of a call waits for another
\* caller, and the wait for the child process ends at the plan's timeout.
FairSpec == Spec /\ \A t \in Threads : WF_vars(Progress(t))
-----------------------------------------------------------------------------
(* Properties *)

\* A plan's process is created at most once, whatever threads race for the plan,
\* whatever writes fail and however often and wherever brokers crash and restart
\* (mod.rs: "a duplicate effect is not" acceptable).
AtMostOneSpawn == \A p \in Plans : spawns[p] <= 1

\* A process only ever exists for a plan that is durably reserved and, when the
\* plan is guarded, under one approval of that very plan that is durably consumed:
\* what a restart reads can neither run the plan again nor reuse its approval.
SpawnIsAccounted ==
    \A p \in Plans : spawns[p] > 0 =>
        /\ ledgerDisk[p] = "reserved"
        /\ p \in Guarded =>
              \E a \in Approvals :
                  /\ spawnedWith[p] = a
                  /\ apprDisk[a].plan = p
                  /\ apprDisk[a].status = "consumed"

\* Once deny or revoke of a live approval has returned Ok, the withdrawal is on
\* disk for good and no process is ever created under that approval, however the
\* withdrawal raced an execution of its plan.
WithdrawalHolds ==
    \A a \in withdrawn :
        /\ apprDisk[a].status \in {"denied", "revoked"}
        /\ \A p \in Plans : spawnedWith[p] # a

\* No file ever holds two live grants for one plan, also after a consumption or
\* a withdrawal that reached memory only.
OneLiveGrantPerPlan ==
    \A a, b \in Approvals :
        /\ apprDisk[a].status = "granted" /\ apprDisk[b].status = "granted"
        /\ apprDisk[a].plan = apprDisk[b].plan
        => a = b

Claims(p) == {rcptDisk[p]} \cup {rcptMem[i][p] : i \in Instances}

\* What receipts claim, in any memory and on disk, agrees with the process of their
\* plan: one that says started or completed is of a plan that had a process, and none
\* says that the spawn failed while a call has a contained process in its care.  That
\* it had none, as runner.rs says of "spawn_failed", does not follow: SpawnProcess.
ReceiptsKnowTheProcess ==
    \A p \in Plans :
        /\ Claims(p) \cap {"spawn_started", "completed"} # {} => spawns[p] > 0
        /\ "spawn_failed" \in Claims(p) =>
              \A t \in Threads : pc[t] \in {"marking", "waiting"} => job[t].plan # p

\* A receipt that says its execution is in flight has a thread behind it, unless
\* the store has failed closed: every error path settles its receipt, and a
\* restart settles what it finds.
InFlightHasAThread ==
    \A i \in Instances, p \in Plans :
        /\ rcptMem[i][p] \in {"accepted", "spawn_started"}
        /\ "receipts" \notin degraded[i]
        => \E t \in Threads : job[t].inst = i /\ job[t].plan = p

\* Every call comes to an end, also when writes fail, stores degrade under it or
\* other calls keep coming.
CallsReturn == \A t \in Threads : pc[t] # "idle" ~> pc[t] = "idle"

\* The broker implements single-use execution: the plan is committed by what the
\* ledger file says and executed by its first process.
Phase == [p \in Plans |-> IF spawns[p] > 0 THEN "executed"
                          ELSE IF ledgerDisk[p] # "absent" THEN "committed"
                          ELSE "fresh"]

SingleUse == INSTANCE SingleUseExecution WITH phase <- Phase

SingleUseSpec == SingleUse!Spec
=============================================================================
