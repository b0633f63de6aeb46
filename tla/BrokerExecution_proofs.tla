----------------------- MODULE BrokerExecution_proofs -----------------------
(***************************************************************************)
(* Proofs about BrokerExecution, for any number of plans, approvals,       *)
(* threads and broker processes and any length of the clock: type          *)
(* correctness, that a plan is spawned at most once, and that the broker   *)
(* implements SingleUseExecution.                                          *)
(***************************************************************************)
EXTENDS BrokerExecution, TLAPS

\* Where a call that passed the gate of execute can be, and where one that
\* holds the acceptance of its plan can be.
ExecutePC  == PC \ {"idle", "grantPersist", "withdrawPersist"}
AcceptedPC == ExecutePC \ {"accepting"}

\* The call may still create the process of its plan.
BeforeSpawn(t) ==
    \/ pc[t] \in {"acceptPersist", "reserving", "reservePersist", "consuming",
                  "consumePersist", "inserting", "spawning"}
    \/ pc[t] \in {"receiptSnapshot", "receiptWrite"} /\ job[t].then = "spawning"

\* The fields a call uses are there when it uses them.
JobOK ==
    \A t \in Threads :
        /\ pc[t] # "idle" => job[t].inst \in Instances
        /\ pc[t] \in ExecutePC => job[t].plan \in Plans
        /\ pc[t] = "withdrawPersist" => job[t].appr \in Approvals
        /\ job[t].then \in {"idle", "spawning", "waiting", "auditing"}

\* A process whose ledger is healthy holds the ledger's file lock, and so does
\* the process of every call that passed the gate.
OwnerOK ==
    /\ \A i \in Instances :
          startup[i] \in {"receipts", "up"} /\ "ledger" \notin degraded[i]
          => lock["ledger"] = i
    /\ \A t \in Threads : pc[t] \in ExecutePC => lock["ledger"] = job[t].inst

\* The owner's memory knows every plan the file knows.
MemoryCoversDisk ==
    \A i \in Instances, p \in Plans :
        lock["ledger"] = i /\ ledgerDisk[p] # "absent" => ledgerMem[i][p] # "absent"

\* An accepted plan belongs to one call, which is on disk before the call goes on.
AcceptanceOK ==
    /\ \A t \in Threads : pc[t] \in AcceptedPC =>
          /\ ledgerMem[job[t].inst][job[t].plan] # "absent"
          /\ pc[t] # "acceptPersist" => ledgerDisk[job[t].plan] # "absent"
    /\ \A t, u \in Threads :
          /\ pc[t] \in AcceptedPC /\ pc[u] \in AcceptedPC
          /\ job[t].plan = job[u].plan
          => t = u

SpawnOK ==
    /\ \A t \in Threads : BeforeSpawn(t) => spawns[job[t].plan] = 0
    /\ \A p \in Plans : spawns[p] > 0 => ledgerDisk[p] # "absent"
    /\ AtMostOneSpawn

IInv == TypeOK /\ JobOK /\ OwnerOK /\ MemoryCoversDisk /\ AcceptanceOK /\ SpawnOK

-----------------------------------------------------------------------------
USE BrokerAssumption

LEMMA InitIInv == Init => IInv
  BY DEF Init, IInv, TypeOK, JobOK, OwnerOK, MemoryCoversDisk, AcceptanceOK, SpawnOK,
         AtMostOneSpawn, BeforeSpawn, ExecutePC, AcceptedPC, Stores, LedgerPhase, EmptyLedger,
         ApprovalStatus, ApprovalRecord, NoRecord, EmptyApprovals, ReceiptState,
         NoReceipts, PC, Job, NoJob


\* TypeOK in the parts that one action changes or leaves alone together.
HostType ==
    /\ now \in 0..MaxTime
    /\ startup \in [Instances -> {"down", "ledger", "receipts", "up"}]
    /\ lock \in [Stores -> Instances \cup {None}]
    /\ degraded \in [Instances -> SUBSET Stores]
LedgerType ==
    /\ ledgerMem \in [Instances -> [Plans -> LedgerPhase]]
    /\ ledgerDisk \in [Plans -> LedgerPhase]
ApprType ==
    /\ apprMem \in [Instances -> [Approvals -> ApprovalRecord]]
    /\ apprDisk \in [Approvals -> ApprovalRecord]
RcptType ==
    /\ rcptMem \in [Instances -> [Plans -> ReceiptState]]
    /\ rcptDisk \in [Plans -> ReceiptState]
CallType ==
    /\ pc \in [Threads -> PC]
    /\ job \in [Threads -> Job]
    /\ snap \in [Threads -> [Plans -> ReceiptState]]
HistoryType ==
    /\ spawns \in [Plans -> Nat]
    /\ spawnedWith \in [Plans -> Approvals \cup {None}]
    /\ withdrawn \in SUBSET Approvals

LEMMA TypeParts ==
    TypeOK <=> HostType /\ LedgerType /\ ApprType /\ RcptType /\ CallType /\ HistoryType
  BY DEF TypeOK, HostType, LedgerType, ApprType, RcptType, CallType, HistoryType

LEMMA TypePartsNext ==
    TypeOK' <=> HostType' /\ LedgerType' /\ ApprType' /\ RcptType' /\ CallType' /\ HistoryType'
  BY DEF TypeOK, HostType, LedgerType, ApprType, RcptType, CallType, HistoryType

\* Parts a step leaves alone keep their type.
LEMMA Frame ==
    /\ HostType /\ UNCHANGED <<now, hostVars>> => HostType'
    /\ LedgerType /\ UNCHANGED ledgerVars => LedgerType'
    /\ ApprType /\ UNCHANGED apprVars => ApprType'
    /\ RcptType /\ UNCHANGED rcptVars => RcptType'
    /\ CallType /\ UNCHANGED callVars => CallType'
    /\ HistoryType /\ UNCHANGED historyVars => HistoryType'
  BY DEF HostType, LedgerType, ApprType, RcptType, CallType, HistoryType,
         hostVars, ledgerVars, apprVars, rcptVars, callVars, historyVars

LEMMA StatusChangeType ==
    ASSUME NEW r \in ApprovalRecord, r.status # "absent", NEW s \in ApprovalStatus
    PROVE  WithStatus(r, s) \in ApprovalRecord
  BY DEF ApprovalRecord, NoRecord, WithStatus

LEMMA ThenChangeType ==
    ASSUME NEW j \in Job, NEW l \in PC
    PROVE  [j EXCEPT !.then = l] \in Job
  BY DEF Job

LEMMA NoJobType == NoJob \in Job /\ NoReceipts \in [Plans -> ReceiptState] /\ "idle" \in PC
  BY DEF NoJob, Job, PC, NoReceipts, ReceiptState

LEMMA GotoType ==
    ASSUME CallType, NEW t \in Threads, NEW l \in PC, Goto(t, l)
    PROVE  CallType'
  BY DEF CallType, Goto

LEMMA ReturnType ==
    ASSUME CallType, NEW t \in Threads, Return(t)
    PROVE  CallType'
  BY NoJobType DEF CallType, Return

LEMMA BeginType ==
    ASSUME CallType, NEW t \in Threads, NEW i \in Instances, NEW p \in Plans \cup {None},
           NEW a \in Approvals \cup {None}, NEW l \in PC, Begin(t, i, p, a, l)
    PROVE  CallType'
<1>1. [inst |-> i, plan |-> p, appr |-> a, then |-> "idle"] \in Job
  BY DEF Job, PC
<1>2. QED
  BY <1>1 DEF CallType, Begin

LEMMA MarkReceiptType ==
    ASSUME CallType, RcptType, JobOK, NEW t \in Threads, pc[t] \in ExecutePC,
           NEW to \in ReceiptState, NEW l \in PC, MarkReceipt(t, to, l), UNCHANGED rcptDisk
    PROVE  CallType' /\ RcptType'
<1>1. CASE Return(t) /\ UNCHANGED rcptMem
  BY <1>1, ReturnType DEF RcptType
<1>2. CASE /\ rcptMem' = [rcptMem EXCEPT ![job[t].inst][job[t].plan] = to]
           /\ pc' = [pc EXCEPT ![t] = "receiptSnapshot"]
           /\ job' = [job EXCEPT ![t].then = l]
           /\ UNCHANGED snap
  <2>1. job' \in [Threads -> Job]
    <3>1. [job[t] EXCEPT !.then = l] \in Job
      BY ThenChangeType DEF CallType
    <3>2. QED
      BY <1>2, <3>1 DEF CallType
  <2>2. pc' \in [Threads -> PC]
    BY <1>2 DEF CallType, PC
  <2>3. rcptMem' \in [Instances -> [Plans -> ReceiptState]]
    BY <1>2 DEF RcptType
  <2>4. QED
    BY <1>2, <2>1, <2>2, <2>3 DEF CallType, RcptType
<1>3. QED
  BY <1>1, <1>2 DEF MarkReceipt

LEMMA TypeStep == TypeOK /\ JobOK /\ [Next]_vars => TypeOK'
<1> DEFINE G == HostType' /\ LedgerType' /\ ApprType' /\ RcptType' /\ CallType' /\ HistoryType'
<1> SUFFICES ASSUME HostType, LedgerType, ApprType, RcptType, CallType, HistoryType,
                    JobOK, [Next]_vars
             PROVE  G
  BY TypeParts, TypePartsNext
<1>1. CASE UNCHANGED vars
  BY <1>1, Frame DEF vars
<1>2. CASE Tick
  BY <1>2, Frame DEF Tick, HostType, hostVars
<1>3. ASSUME NEW i \in Instances, OpenApprovals(i) PROVE G
  <2>1. HostType'
    BY <1>3 DEF OpenApprovals, Acquire, OpensDegraded, HostType, Stores
  <2>2. ApprType'
    BY <1>3 DEF OpenApprovals, ApprType
  <2>3. QED
    BY <1>3, <2>1, <2>2, Frame DEF OpenApprovals
<1>4. ASSUME NEW i \in Instances, OpenLedger(i) PROVE G
  <2>1. HostType'
    BY <1>4 DEF OpenLedger, Acquire, OpensDegraded, HostType, Stores
  <2>2. LedgerType'
    BY <1>4 DEF OpenLedger, LedgerType
  <2>3. QED
    BY <1>4, <2>1, <2>2, Frame DEF OpenLedger
<1>5. ASSUME NEW i \in Instances, OpenReceipts(i) PROVE G
  <2>1. Recovered(rcptDisk) \in [Plans -> ReceiptState]
    BY DEF RcptType, Recovered, ReceiptState
  <2>2. HostType'
    BY <1>5 DEF OpenReceipts, Acquire, OpensDegraded, HostType, Stores
  <2>3. RcptType'
    BY <1>5, <2>1 DEF OpenReceipts, RcptType, rcptVars
  <2>4. QED
    BY <1>5, <2>2, <2>3, Frame DEF OpenReceipts
<1>6. ASSUME NEW i \in Instances, Crash(i) PROVE G
  <2>1. HostType' /\ LedgerType' /\ ApprType' /\ RcptType'
    BY <1>6 DEF Crash, HostType, LedgerType, ApprType, RcptType, EmptyLedger, LedgerPhase,
           EmptyApprovals, ApprovalRecord, ApprovalStatus, NoRecord, NoReceipts, ReceiptState
  <2>2. CallType'
    BY <1>6, NoJobType DEF Crash, CallType
  <2>3. QED
    BY <1>6, <2>1, <2>2, Frame DEF Crash
<1>7. ASSUME NEW t \in Threads, NEW i \in Instances, NEW p \in Plans, NEW a \in Approvals,
             NEW e \in 1..MaxTime, Grant(t, i, p, a, e) PROVE G
  <2>1. CallType'
    BY <1>7, BeginType DEF Grant, PC
  <2>2. [status |-> "granted", plan |-> p, expires |-> e] \in ApprovalRecord
    BY DEF ApprovalRecord, ApprovalStatus
  <2>3. ApprType'
    BY <1>7, <2>2 DEF Grant, ApprType
  <2>4. QED
    BY <1>7, <2>1, <2>3, Frame DEF Grant
<1>8. ASSUME NEW t \in Threads, NEW i \in Instances, NEW a \in Approvals,
             NEW s \in {"denied", "revoked"}, Withdraw(t, i, a, s) PROVE G
  <2>1. CallType'
    BY <1>8, BeginType DEF Withdraw, PC
  <2>2. WithStatus(apprMem[i][a], s) \in ApprovalRecord
    <3>1. apprMem[i][a] \in ApprovalRecord /\ apprMem[i][a].status # "absent"
      BY <1>8 DEF ApprType, Withdraw
    <3> QED  BY <3>1, StatusChangeType DEF ApprovalStatus
  <2>3. ApprType'
    BY <1>8, <2>2 DEF Withdraw, ApprType
  <2>4. QED
    BY <1>8, <2>1, <2>3, Frame DEF Withdraw
<1>9. ASSUME NEW t \in Threads, NEW i \in Instances, NEW p \in Plans,
             NEW a \in Approvals \cup {None}, Execute(t, i, p, a) PROVE G
  <2>1. CallType'
    BY <1>9, BeginType DEF Execute, PC
  <2>2. QED
    BY <1>9, <2>1, Frame DEF Execute
<1>10. ASSUME NEW t \in Threads, PersistGrant(t) PROVE G
  <2>1. CallType'
    BY <1>10, ReturnType DEF PersistGrant
  <2>2. ApprType'
    BY <1>10 DEF PersistGrant, ApprType, JobOK
  <2>3. QED
    BY <1>10, <2>1, <2>2, Frame DEF PersistGrant
<1>11. ASSUME NEW t \in Threads, PersistWithdraw(t) PROVE G
  <2>1. CallType'
    BY <1>11, ReturnType DEF PersistWithdraw
  <2>2. ApprType' /\ HistoryType'
    BY <1>11 DEF PersistWithdraw, ApprType, HistoryType, JobOK
  <2>3. QED
    BY <1>11, <2>1, <2>2, Frame DEF PersistWithdraw
<1>12. ASSUME NEW t \in Threads, Accept(t) PROVE G
  <2>1. CallType'
    BY <1>12, ReturnType, GotoType DEF Accept, PC
  <2>2. LedgerType'
    BY <1>12 DEF Accept, LedgerType, LedgerPhase
  <2>3. QED
    BY <1>12, <2>1, <2>2, Frame DEF Accept
<1>13. ASSUME NEW t \in Threads, PersistAccept(t) PROVE G
  <2> DEFINE n == "reserving"
  <2>1. n \in PC /\ job[t].inst \in Instances
    BY <1>13 DEF PersistAccept, PersistLedger, PC, JobOK
  <2>2. CallType'
    BY <1>13, <2>1, ReturnType, GotoType DEF PersistAccept, PersistLedger
  <2>3. LedgerType'
    BY <1>13, <2>1 DEF PersistAccept, PersistLedger, LedgerType
  <2>4. QED
    BY <1>13, <2>2, <2>3, Frame DEF PersistAccept, PersistLedger
<1>14. ASSUME NEW t \in Threads, PersistReserve(t) PROVE G
  <2> DEFINE n == IF job[t].plan \in Guarded THEN "consuming" ELSE "inserting"
  <2>1. n \in PC /\ job[t].inst \in Instances
    BY <1>14 DEF PersistReserve, PersistLedger, PC, JobOK
  <2>2. CallType'
    BY <1>14, <2>1, ReturnType, GotoType DEF PersistReserve, PersistLedger
  <2>3. LedgerType'
    BY <1>14, <2>1 DEF PersistReserve, PersistLedger, LedgerType
  <2>4. QED
    BY <1>14, <2>2, <2>3, Frame DEF PersistReserve, PersistLedger
<1>15. ASSUME NEW t \in Threads, Reserve(t) PROVE G
  <2>1. CallType'
    BY <1>15, GotoType DEF Reserve, PC
  <2>2. LedgerType'
    BY <1>15 DEF Reserve, LedgerType, LedgerPhase
  <2>3. QED
    BY <1>15, <2>1, <2>2, Frame DEF Reserve
<1>16. ASSUME NEW t \in Threads, Consume(t) PROVE G
  <2>1. CallType'
    BY <1>16, ReturnType, GotoType DEF Consume, PC
  <2>2. job[t].inst \in Instances
    BY <1>16 DEF Consume, JobOK
  <2>3. job[t].appr \in Approvals /\ apprMem[job[t].inst][job[t].appr].status = "granted" =>
          WithStatus(apprMem[job[t].inst][job[t].appr], "consumed") \in ApprovalRecord
    BY <2>2, StatusChangeType DEF ApprType, ApprovalStatus
  <2>4. ApprType'
    BY <1>16, <2>2, <2>3 DEF Consume, ApprType
  <2>5. QED
    BY <1>16, <2>1, <2>4, Frame DEF Consume
<1>17. ASSUME NEW t \in Threads, PersistConsume(t) PROVE G
  <2>1. CallType'
    BY <1>17, ReturnType, GotoType DEF PersistConsume, PC
  <2>2. ApprType'
    BY <1>17 DEF PersistConsume, ApprType, JobOK
  <2>3. QED
    BY <1>17, <2>1, <2>2, Frame DEF PersistConsume
<1>18. ASSUME NEW t \in Threads, InsertAccepted(t) PROVE G
  <2>1. pc[t] \in ExecutePC /\ UNCHANGED rcptDisk /\ "accepted" \in ReceiptState
        /\ ("spawning") \in PC
    BY <1>18 DEF InsertAccepted, ReceiptUnchanged, ExecutePC, PC, ReceiptState
  <2>2. CallType' /\ RcptType'
    BY <1>18, <2>1, MarkReceiptType DEF InsertAccepted
  <2>3. QED
    BY <1>18, <2>2, Frame DEF InsertAccepted, ReceiptUnchanged
<1>19. ASSUME NEW t \in Threads, SpawnFails(t) PROVE G
  <2>1. pc[t] \in ExecutePC /\ UNCHANGED rcptDisk /\ "spawn_failed" \in ReceiptState
        /\ ("idle") \in PC
    BY <1>19 DEF SpawnFails, ReceiptUnchanged, ExecutePC, PC, ReceiptState
  <2>2. CallType' /\ RcptType'
    BY <1>19, <2>1, MarkReceiptType DEF SpawnFails
  <2>3. QED
    BY <1>19, <2>2, Frame DEF SpawnFails, ReceiptUnchanged
<1>20. ASSUME NEW t \in Threads, MarkSpawnStarted(t) PROVE G
  <2>1. pc[t] \in ExecutePC /\ UNCHANGED rcptDisk /\ "spawn_started" \in ReceiptState
        /\ ("waiting") \in PC
    BY <1>20 DEF MarkSpawnStarted, ReceiptUnchanged, ExecutePC, PC, ReceiptState
  <2>2. CallType' /\ RcptType'
    BY <1>20, <2>1, MarkReceiptType DEF MarkSpawnStarted
  <2>3. QED
    BY <1>20, <2>2, Frame DEF MarkSpawnStarted, ReceiptUnchanged
<1>21. ASSUME NEW t \in Threads, MarkUnknown(t) PROVE G
  <2>1. pc[t] \in ExecutePC /\ UNCHANGED rcptDisk /\ "unknown_after_crash" \in ReceiptState
        /\ ("idle") \in PC
    BY <1>21 DEF MarkUnknown, ReceiptUnchanged, ExecutePC, PC, ReceiptState
  <2>2. CallType' /\ RcptType'
    BY <1>21, <2>1, MarkReceiptType DEF MarkUnknown
  <2>3. QED
    BY <1>21, <2>2, Frame DEF MarkUnknown, ReceiptUnchanged
<1>22. ASSUME NEW t \in Threads, MarkCompleted(t) PROVE G
  <2>1. pc[t] \in ExecutePC /\ UNCHANGED rcptDisk /\ "completed" \in ReceiptState
        /\ (IF job[t].plan \in Guarded THEN "auditing" ELSE "idle") \in PC
    BY <1>22 DEF MarkCompleted, ReceiptUnchanged, ExecutePC, PC, ReceiptState
  <2>2. CallType' /\ RcptType'
    BY <1>22, <2>1, MarkReceiptType DEF MarkCompleted
  <2>3. QED
    BY <1>22, <2>2, Frame DEF MarkCompleted, ReceiptUnchanged
<1>23. ASSUME NEW t \in Threads, SpawnProcess(t) PROVE G
  <2>1. CallType'
    BY <1>23, GotoType DEF SpawnProcess, PC
  <2>2. job[t] \in Job /\ job[t].appr \in Approvals \cup {None} /\ job[t].plan \in Plans
    BY <1>23 DEF SpawnProcess, CallType, Job, JobOK, ExecutePC, PC
  <2>3. spawns' \in [Plans -> Nat]
    <3>1. spawns[job[t].plan] + 1 \in Nat
      BY <2>2 DEF HistoryType
    <3>2. spawns' = [spawns EXCEPT ![job[t].plan] = spawns[job[t].plan] + 1]
      BY <1>23 DEF SpawnProcess
    <3>3. QED
      BY <3>1, <3>2 DEF HistoryType
  <2>4. spawnedWith' \in [Plans -> Approvals \cup {None}] /\ withdrawn' = withdrawn
    BY <1>23, <2>2 DEF SpawnProcess, HistoryType
  <2>5. HistoryType'
    BY <2>3, <2>4 DEF HistoryType
  <2>6. QED
    BY <1>23, <2>1, <2>5, Frame DEF SpawnProcess
<1>24. ASSUME NEW t \in Threads, SnapshotReceipts(t) PROVE G
  <2>1. job[t].inst \in Instances
    BY <1>24 DEF SnapshotReceipts, JobOK
  <2>2. CallType'
    BY <1>24, <2>1 DEF SnapshotReceipts, CallType, RcptType, PC
  <2>3. QED
    BY <1>24, <2>2, Frame DEF SnapshotReceipts
<1>25. ASSUME NEW t \in Threads, WriteReceipts(t) PROVE G
  <2>1. CASE /\ rcptDisk' = snap[t]
             /\ pc' = [pc EXCEPT ![t] = job[t].then]
             /\ job' = [job EXCEPT ![t] = IF job[t].then = "idle" THEN NoJob ELSE @]
             /\ snap' = [snap EXCEPT ![t] = NoReceipts]
             /\ UNCHANGED degraded
    <3>1. job[t].then \in PC
      BY DEF JobOK, PC
    <3>2. (IF job[t].then = "idle" THEN NoJob ELSE job[t]) \in Job
      BY NoJobType DEF CallType
    <3>3. job' \in [Threads -> Job]
      BY <2>1, <3>2 DEF CallType
    <3>4. CallType'
      BY <2>1, <3>1, <3>3, NoJobType DEF CallType
    <3>5. HostType' /\ RcptType'
      BY <1>25, <2>1 DEF WriteReceipts, HostType, RcptType, CallType
    <3>6. QED
      BY <1>25, <3>4, <3>5, Frame DEF WriteReceipts
  <2>2. CASE /\ degraded' = [degraded EXCEPT ![job[t].inst] = @ \cup {"receipts"}]
             /\ Return(t)
             /\ UNCHANGED rcptDisk
    <3>1. CallType'
      BY <2>2, ReturnType
    <3>2. HostType' /\ RcptType'
      BY <1>25, <2>2 DEF WriteReceipts, HostType, RcptType, Stores
    <3>3. QED
      BY <1>25, <3>1, <3>2, Frame DEF WriteReceipts
  <2>3. QED
    BY <1>25, <2>1, <2>2 DEF WriteReceipts
<1>26. ASSUME NEW t \in Threads, RecordExecutionId(t) PROVE G
  <2>1. CallType'
    BY <1>26, ReturnType DEF RecordExecutionId
  <2>2. ApprType'
    BY <1>26 DEF RecordExecutionId, ApprType, JobOK
  <2>3. QED
    BY <1>26, <2>1, <2>2, Frame DEF RecordExecutionId
<1>27. QED
  BY <1>1, <1>2, <1>3, <1>4, <1>5, <1>6, <1>7, <1>8, <1>9, <1>10, <1>11, <1>12, <1>13, <1>14, <1>15, <1>16, <1>17, <1>18, <1>19, <1>20, <1>21, <1>22, <1>23, <1>24, <1>25, <1>26
     DEF Next, Host, Call, Progress

-----------------------------------------------------------------------------
(* The inductive invariant.  Most steps of a call touch neither the ledger nor *)
(* the locks: what they do to the invariant depends only on where the call     *)
(* goes, and three lemmas (a call ends, begins, advances) cover them.          *)

CallInv == JobOK /\ OwnerOK /\ MemoryCoversDisk /\ AcceptanceOK /\ SpawnOK

\* The step leaves the hosts, the ledger and the processes alone; a store may
\* degrade.
SameWorld ==
    /\ UNCHANGED <<startup, lock, ledgerVars, spawns>>
    /\ \A i \in Instances : degraded[i] \subseteq degraded'[i]

LEMMA EndCall ==
    ASSUME TypeOK, CallInv, NEW t \in Threads, Return(t), SameWorld
    PROVE  CallInv'
<1>1. pc' = [pc EXCEPT ![t] = "idle"] /\ job' = [job EXCEPT ![t] = NoJob]
  BY DEF Return
<1>2. pc'[t] = "idle" /\ job'[t] = NoJob
      /\ \A u \in Threads : u # t => pc'[u] = pc[u] /\ job'[u] = job[u]
  BY <1>1 DEF TypeOK
<1>3. JobOK'
  BY <1>2 DEF CallInv, JobOK, ExecutePC, NoJob
<1>4. OwnerOK'
  BY <1>2 DEF CallInv, OwnerOK, SameWorld, ExecutePC
<1>5. MemoryCoversDisk'
  BY DEF CallInv, MemoryCoversDisk, SameWorld, ledgerVars
<1>6. AcceptanceOK'
  BY <1>2 DEF CallInv, AcceptanceOK, SameWorld, ledgerVars, AcceptedPC, ExecutePC
<1>7. SpawnOK'
  BY <1>2 DEF CallInv, SpawnOK, SameWorld, ledgerVars, BeforeSpawn, AtMostOneSpawn
<1>8. QED
  BY <1>3, <1>4, <1>5, <1>6, <1>7 DEF CallInv

LEMMA BeginCall ==
    ASSUME TypeOK, CallInv, NEW t \in Threads, NEW i \in Instances,
           NEW p \in Plans \cup {None}, NEW a \in Approvals \cup {None},
           NEW l \in {"accepting", "grantPersist", "withdrawPersist"},
           l = "accepting" => p \in Plans /\ lock["ledger"] = i,
           l = "withdrawPersist" => a \in Approvals,
           Begin(t, i, p, a, l), SameWorld
    PROVE  CallInv'
<1> DEFINE j == [inst |-> i, plan |-> p, appr |-> a, then |-> "idle"]
<1>1. pc'[t] = l /\ job'[t] = j
      /\ \A u \in Threads : u # t => pc'[u] = pc[u] /\ job'[u] = job[u]
  BY DEF Begin, TypeOK
<1>2. j.inst = i /\ j.plan = p /\ j.appr = a /\ j.then = "idle"
  OBVIOUS
<1> HIDE DEF j
<1>3. JobOK'
  BY <1>1, <1>2 DEF CallInv, JobOK, ExecutePC
<1>4. OwnerOK'
  BY <1>1, <1>2 DEF CallInv, OwnerOK, SameWorld, ExecutePC
<1>5. MemoryCoversDisk'
  BY DEF CallInv, MemoryCoversDisk, SameWorld, ledgerVars
<1>6. AcceptanceOK'
  BY <1>1 DEF CallInv, AcceptanceOK, SameWorld, ledgerVars, AcceptedPC, ExecutePC
<1>7. SpawnOK'
  BY <1>1, <1>2 DEF CallInv, SpawnOK, SameWorld, ledgerVars, BeforeSpawn, AtMostOneSpawn
<1>8. QED
  BY <1>3, <1>4, <1>5, <1>6, <1>7 DEF CallInv

\* A call past its acceptance that goes on with the same plan and does not come
\* back to a point before the process is created.
LEMMA AdvanceCall ==
    ASSUME TypeOK, CallInv, NEW t \in Threads, SameWorld,
           NEW l \in AcceptedPC \ {"acceptPersist"}, NEW j,
           pc[t] \in AcceptedPC \ {"acceptPersist"},
           pc' = [pc EXCEPT ![t] = l], job' = [job EXCEPT ![t] = j],
           j.inst = job[t].inst, j.plan = job[t].plan,
           j.then \in {"idle", "spawning", "waiting", "auditing"},
           BeforeSpawn(t)' => BeforeSpawn(t)
    PROVE  CallInv'
<1>1. pc'[t] = l /\ job'[t] = j
      /\ \A u \in Threads : u # t => pc'[u] = pc[u] /\ job'[u] = job[u]
  BY DEF TypeOK
<1>2. JobOK'
  BY <1>1 DEF CallInv, JobOK, AcceptedPC, ExecutePC, PC
<1>3. OwnerOK'
  BY <1>1 DEF CallInv, OwnerOK, SameWorld, AcceptedPC
<1>4. MemoryCoversDisk'
  BY DEF CallInv, MemoryCoversDisk, SameWorld, ledgerVars
<1>5. AcceptanceOK'
  BY <1>1 DEF CallInv, AcceptanceOK, SameWorld, ledgerVars
<1>6. SpawnOK'
  <2>1. \A u \in Threads : BeforeSpawn(u)' => BeforeSpawn(u) /\ job'[u].plan = job[u].plan
    BY <1>1 DEF BeforeSpawn
  <2>2. QED
    BY <2>1 DEF CallInv, SpawnOK, SameWorld, ledgerVars, AtMostOneSpawn
<1>7. QED
  BY <1>2, <1>3, <1>4, <1>5, <1>6 DEF CallInv

LEMMA MarkReceiptInv ==
    ASSUME TypeOK, CallInv, NEW t \in Threads, NEW to,
           NEW l \in {"idle", "spawning", "waiting", "auditing"},
           pc[t] \in {"inserting", "spawning", "aborting", "marking", "waiting"},
           l = "spawning" => BeforeSpawn(t),
           MarkReceipt(t, to, l), ReceiptUnchanged
    PROVE  CallInv'
<1>1. SameWorld
  BY DEF ReceiptUnchanged, SameWorld, hostVars, historyVars
<1>2. CASE Return(t)
  BY <1>1, <1>2, EndCall
<1>3. CASE /\ pc' = [pc EXCEPT ![t] = "receiptSnapshot"]
           /\ job' = [job EXCEPT ![t].then = l]
  <2> DEFINE j == [job[t] EXCEPT !.then = l]
  <2>1. job[t] \in Job
    BY DEF TypeOK
  <2>2. j.inst = job[t].inst /\ j.plan = job[t].plan /\ j.then = l
    BY <2>1 DEF Job
  <2>3. job' = [job EXCEPT ![t] = j]
    BY <1>3
  <2> HIDE DEF j
  <2>4. BeforeSpawn(t)' => BeforeSpawn(t)
    BY <1>3, <2>2, <2>3 DEF BeforeSpawn, TypeOK
  <2>5. /\ pc[t] \in AcceptedPC \ {"acceptPersist"}
        /\ "receiptSnapshot" \in AcceptedPC \ {"acceptPersist"}
    BY DEF AcceptedPC, ExecutePC, PC
  <2>6. QED
    BY <1>1, <1>3, <2>2, <2>3, <2>4, <2>5, AdvanceCall
<1>4. QED
  BY <1>2, <1>3 DEF MarkReceipt

LEMMA GotoInv ==
    ASSUME TypeOK, CallInv, NEW t \in Threads, SameWorld,
           NEW l \in AcceptedPC \ {"acceptPersist"},
           pc[t] \in AcceptedPC \ {"acceptPersist"},
           l \in {"consuming", "consumePersist", "inserting"} => BeforeSpawn(t),
           l \notin {"reserving", "reservePersist", "spawning", "receiptSnapshot", "receiptWrite"},
           Goto(t, l)
    PROVE  CallInv'
<1>1. pc' = [pc EXCEPT ![t] = l] /\ job' = [job EXCEPT ![t] = job[t]]
  BY DEF Goto, TypeOK
<1>2. job[t].then \in {"idle", "spawning", "waiting", "auditing"}
  BY DEF CallInv, JobOK
<1>3. BeforeSpawn(t)' => BeforeSpawn(t)
  BY <1>1 DEF BeforeSpawn, TypeOK
<1>4. QED
  BY <1>1, <1>2, <1>3, AdvanceCall

LEMMA OtherStore ==
    ASSUME TypeOK, NEW i \in Instances, NEW s \in Stores \ {"ledger"},
           Acquire(i, s) \/ OpensDegraded(i, s)
    PROVE  /\ lock'["ledger"] = lock["ledger"]
           /\ \A j \in Instances : degraded[j] \subseteq degraded'[j]
<1>1. CASE Acquire(i, s)
  BY <1>1 DEF Acquire, TypeOK, Stores
<1>2. CASE OpensDegraded(i, s)
  BY <1>2 DEF OpensDegraded, TypeOK
<1>3. QED
  BY <1>1, <1>2

\* Steps of the host: opening a store needs its lock, so nobody executes while
\* the ledger is opened; a crash takes the calls of the process with it.
LEMMA HostInv ==
    ASSUME TypeOK, CallInv, NEW i \in Instances, Host(i)
    PROVE  CallInv'
<1>1. CASE OpenApprovals(i)
  <2>0. "approvals" \in Stores \ {"ledger"}
    BY DEF Stores
  <2>1. /\ UNCHANGED <<pc, job, ledgerMem, ledgerDisk, spawns>>
        /\ lock'["ledger"] = lock["ledger"]
        /\ startup' = [startup EXCEPT ![i] = "ledger"]
        /\ \A j \in Instances : degraded[j] \subseteq degraded'[j]
    BY <1>1, <2>0, OtherStore DEF OpenApprovals, ledgerVars, callVars, historyVars
  <2>2. OwnerOK'
    BY <2>1 DEF CallInv, OwnerOK, TypeOK
  <2>3. QED
    BY <2>1, <2>2 DEF CallInv, JobOK, MemoryCoversDisk, AcceptanceOK, SpawnOK, BeforeSpawn,
           AtMostOneSpawn
<1>2. CASE OpenLedger(i)
  <2>1. CASE OpensDegraded(i, "ledger") /\ UNCHANGED ledgerMem
    <3>1. /\ UNCHANGED <<pc, job, ledgerMem, ledgerDisk, spawns, lock>>
          /\ startup' = [startup EXCEPT ![i] = "receipts"]
          /\ degraded' = [degraded EXCEPT ![i] = @ \cup {"ledger"}]
      BY <1>2, <2>1 DEF OpenLedger, OpensDegraded, callVars, historyVars
    <3>2. OwnerOK'
      BY <3>1 DEF CallInv, OwnerOK, TypeOK
    <3>3. QED
      BY <3>1, <3>2 DEF CallInv, JobOK, MemoryCoversDisk, AcceptanceOK, SpawnOK, BeforeSpawn,
             AtMostOneSpawn
  <2>2. CASE Acquire(i, "ledger") /\ ledgerMem' = [ledgerMem EXCEPT ![i] = ledgerDisk]
    <3>1. /\ UNCHANGED <<pc, job, ledgerDisk, spawns, degraded>>
          /\ startup' = [startup EXCEPT ![i] = "receipts"]
          /\ lock["ledger"] = None
          /\ lock' = [lock EXCEPT !["ledger"] = i]
      BY <1>2, <2>2 DEF OpenLedger, Acquire, callVars, historyVars
    <3>2. "ledger" \in Stores
      BY DEF Stores
    <3>3. \A t \in Threads : pc[t] \notin ExecutePC
      BY <3>1 DEF CallInv, OwnerOK, JobOK, ExecutePC
    <3>4. OwnerOK'
      BY <3>1, <3>2, <3>3 DEF CallInv, OwnerOK, TypeOK
    <3>5. MemoryCoversDisk'
      BY <2>2, <3>1, <3>2 DEF CallInv, MemoryCoversDisk, TypeOK
    <3>6. AcceptanceOK'
      BY <3>1, <3>3 DEF AcceptanceOK, AcceptedPC
    <3>7. QED
      BY <3>1, <3>4, <3>5, <3>6 DEF CallInv, JobOK, SpawnOK, BeforeSpawn, AtMostOneSpawn
  <2>3. QED
    BY <1>2, <2>1, <2>2 DEF OpenLedger
<1>3. CASE OpenReceipts(i)
  <2>0. "receipts" \in Stores \ {"ledger"}
    BY DEF Stores
  <2>1. /\ UNCHANGED <<pc, job, ledgerMem, ledgerDisk, spawns>>
        /\ lock'["ledger"] = lock["ledger"]
        /\ startup[i] = "receipts"
        /\ startup' = [startup EXCEPT ![i] = "up"]
        /\ \A j \in Instances : degraded[j] \subseteq degraded'[j]
    BY <1>3, <2>0, OtherStore DEF OpenReceipts, ledgerVars, callVars, historyVars
  <2>2. OwnerOK'
    BY <2>1 DEF CallInv, OwnerOK, TypeOK
  <2>3. QED
    BY <2>1, <2>2 DEF CallInv, JobOK, MemoryCoversDisk, AcceptanceOK, SpawnOK, BeforeSpawn,
           AtMostOneSpawn
<1>4. CASE Crash(i)
  <2>1. \A t \in Threads :
           IF job[t].inst = i THEN pc'[t] = "idle" /\ job'[t] = NoJob
                              ELSE pc'[t] = pc[t] /\ job'[t] = job[t]
    BY <1>4 DEF Crash
  <2>2. /\ UNCHANGED <<ledgerDisk, spawns>>
        /\ startup' = [startup EXCEPT ![i] = "down"]
        /\ degraded' = [degraded EXCEPT ![i] = {}]
        /\ ledgerMem' = [ledgerMem EXCEPT ![i] = EmptyLedger]
    BY <1>4 DEF Crash, historyVars
  <2>3. lock'["ledger"] = IF lock["ledger"] = i THEN None ELSE lock["ledger"]
    BY <1>4 DEF Crash, Stores
  <2>4. JobOK'
    BY <2>1 DEF CallInv, JobOK, NoJob, ExecutePC
  <2>5. OwnerOK'
    BY <2>1, <2>2, <2>3 DEF CallInv, OwnerOK, TypeOK, ExecutePC
  <2>6. MemoryCoversDisk'
    BY <2>2, <2>3 DEF CallInv, MemoryCoversDisk, TypeOK
  <2>7. \A t \in Threads : pc'[t] \in AcceptedPC =>
            /\ pc'[t] = pc[t] /\ job'[t] = job[t]
            /\ ledgerMem'[job[t].inst] = ledgerMem[job[t].inst]
    BY <2>1, <2>2 DEF AcceptedPC, ExecutePC, TypeOK
  <2>8. AcceptanceOK'
    BY <2>2, <2>7 DEF CallInv, AcceptanceOK
  <2>9. \A t \in Threads : BeforeSpawn(t)' => BeforeSpawn(t) /\ job'[t] = job[t]
    BY <2>1 DEF BeforeSpawn
  <2>10. SpawnOK'
    BY <2>2, <2>9 DEF CallInv, SpawnOK, AtMostOneSpawn
  <2>11. QED
    BY <2>4, <2>5, <2>6, <2>8, <2>10 DEF CallInv
<1>5. QED
  BY <1>1, <1>2, <1>3, <1>4 DEF Host

\* Steps of a call that may disturb the ledger.
LEMMA AcceptInv ==
    ASSUME TypeOK, CallInv, NEW t \in Threads, Accept(t)
    PROVE  CallInv'
<1> DEFINE i == job[t].inst
           p == job[t].plan
<1>1. i \in Instances /\ p \in Plans /\ lock["ledger"] = i /\ pc[t] = "accepting"
  BY DEF Accept, CallInv, JobOK, OwnerOK, ExecutePC, PC
<1>2. CASE Return(t) /\ UNCHANGED ledgerMem
  <2>1. SameWorld
    BY <1>2 DEF Accept, SameWorld, hostVars, ledgerVars, historyVars
  <2>2. QED
    BY <1>2, <2>1, EndCall
<1>3. CASE /\ ledgerMem[i][p] = "absent"
           /\ ledgerMem' = [ledgerMem EXCEPT ![i][p] = "accepted"]
           /\ Goto(t, "acceptPersist")
  <2>1. /\ UNCHANGED <<startup, lock, degraded, ledgerDisk, spawns, job>>
        /\ pc' = [pc EXCEPT ![t] = "acceptPersist"]
    BY <1>3 DEF Accept, Goto, hostVars, historyVars
  <2>2. /\ ledgerMem'[i][p] = "accepted"
        /\ \A j \in Instances, q \in Plans :
              ledgerMem[j][q] # "absent" => ledgerMem'[j][q] # "absent"
    BY <1>1, <1>3 DEF TypeOK
  <2>3. pc'[t] = "acceptPersist" /\ \A u \in Threads : u # t => pc'[u] = pc[u]
    BY <2>1 DEF TypeOK
  <2>4. JobOK'
    BY <1>1, <2>1, <2>3 DEF CallInv, JobOK
  <2>5. OwnerOK'
    BY <1>1, <2>1, <2>3 DEF CallInv, OwnerOK
  <2>6. MemoryCoversDisk'
    BY <2>1, <2>2 DEF CallInv, MemoryCoversDisk
  <2>7. \A u \in Threads : pc[u] \in AcceptedPC =>
           job[u].inst = i /\ job[u].plan \in Plans /\ job[u].plan # p
    BY <1>1, <1>3 DEF CallInv, JobOK, OwnerOK, AcceptanceOK, AcceptedPC
  <2>8. AcceptanceOK'
    <3>1. \A u \in Threads : pc'[u] \in AcceptedPC =>
             /\ ledgerMem'[job'[u].inst][job'[u].plan] # "absent"
             /\ pc'[u] # "acceptPersist" => ledgerDisk'[job'[u].plan] # "absent"
      BY <1>1, <2>1, <2>2, <2>3, <2>7 DEF CallInv, AcceptanceOK
    <3>2. \A u, v \in Threads :
             pc'[u] \in AcceptedPC /\ pc'[v] \in AcceptedPC /\ job'[u].plan = job'[v].plan
             => u = v
      BY <2>1, <2>3, <2>7 DEF CallInv, AcceptanceOK
    <3>3. QED
      BY <3>1, <3>2 DEF AcceptanceOK
  <2>9. ledgerDisk[p] = "absent"
    BY <1>1, <1>3 DEF CallInv, MemoryCoversDisk
  <2>10. spawns[p] = 0
    BY <1>1, <2>9 DEF CallInv, SpawnOK, TypeOK
  <2>11. SpawnOK'
    BY <2>1, <2>3, <2>10 DEF CallInv, SpawnOK, BeforeSpawn, AtMostOneSpawn
  <2>12. QED
    BY <2>4, <2>5, <2>6, <2>8, <2>11 DEF CallInv
<1>4. QED
  BY <1>2, <1>3 DEF Accept

LEMMA PersistLedgerInv ==
    ASSUME TypeOK, CallInv, NEW t \in Threads,
           NEW from \in {"acceptPersist", "reservePersist"},
           NEW next \in {"reserving", "consuming", "inserting"},
           PersistLedger(t, from, next)
    PROVE  CallInv'
<1> DEFINE i == job[t].inst
           p == job[t].plan
<1>1. i \in Instances /\ p \in Plans /\ lock["ledger"] = i /\ pc[t] \in AcceptedPC
      /\ next \in AcceptedPC /\ next # "acceptPersist" /\ BeforeSpawn(t)
  BY DEF PersistLedger, CallInv, JobOK, OwnerOK, AcceptedPC, ExecutePC, PC, BeforeSpawn
<1>2. CASE Return(t) /\ UNCHANGED ledgerDisk
  <2>1. SameWorld
    BY <1>2 DEF PersistLedger, SameWorld, hostVars, ledgerVars, historyVars
  <2>2. QED
    BY <1>2, <2>1, EndCall
<1>3. CASE ledgerDisk' = ledgerMem[i] /\ Goto(t, next)
  <2>1. /\ UNCHANGED <<startup, lock, degraded, ledgerMem, spawns, job>>
        /\ pc' = [pc EXCEPT ![t] = next]
    BY <1>3 DEF PersistLedger, Goto, hostVars, historyVars
  <2>2. \A q \in Plans : ledgerDisk[q] # "absent" => ledgerDisk'[q] # "absent"
    BY <1>1, <1>3 DEF CallInv, MemoryCoversDisk
  <2>3. pc'[t] = next /\ \A u \in Threads : u # t => pc'[u] = pc[u]
    BY <2>1 DEF TypeOK
  <2>4. JobOK'
    BY <1>1, <2>1, <2>3 DEF CallInv, JobOK, AcceptedPC, ExecutePC
  <2>5. OwnerOK'
    BY <1>1, <2>1, <2>3 DEF CallInv, OwnerOK
  <2>6. MemoryCoversDisk'
    BY <1>1, <1>3, <2>1 DEF MemoryCoversDisk
  <2>7. AcceptanceOK'
    <3>1. \A u \in Threads : pc'[u] \in AcceptedPC => pc[u] \in AcceptedPC
      BY <1>1, <2>3
    <3>2. \A u \in Threads : pc[u] \in AcceptedPC => job[u].plan \in Plans
      BY DEF CallInv, JobOK, AcceptedPC
    <3>3. \A u \in Threads : pc'[u] \in AcceptedPC /\ pc'[u] # "acceptPersist"
             => ledgerDisk'[job[u].plan] # "absent"
      BY <1>1, <1>3, <2>2, <2>3, <3>1, <3>2 DEF CallInv, AcceptanceOK
    <3>4. QED
      BY <2>1, <3>1, <3>3 DEF CallInv, AcceptanceOK
  <2>8. \A u \in Threads : BeforeSpawn(u)' => BeforeSpawn(u)
    BY <1>1, <2>1, <2>3 DEF BeforeSpawn
  <2>9. SpawnOK'
    BY <2>1, <2>2, <2>8 DEF CallInv, SpawnOK, AtMostOneSpawn
  <2>10. QED
    BY <2>4, <2>5, <2>6, <2>7, <2>9 DEF CallInv
<1>4. QED
  BY <1>2, <1>3 DEF PersistLedger

LEMMA ReserveInv ==
    ASSUME TypeOK, CallInv, NEW t \in Threads, Reserve(t)
    PROVE  CallInv'
<1> DEFINE i == job[t].inst
           p == job[t].plan
<1>1. i \in Instances /\ p \in Plans /\ lock["ledger"] = i /\ pc[t] = "reserving"
  BY DEF Reserve, CallInv, JobOK, OwnerOK, ExecutePC, PC
<1>2. /\ UNCHANGED <<startup, lock, degraded, ledgerDisk, spawns, job>>
      /\ pc' = [pc EXCEPT ![t] = "reservePersist"]
      /\ ledgerMem' = [ledgerMem EXCEPT ![i][p] = "reserved"]
  BY DEF Reserve, Goto, hostVars, historyVars
<1>3. \A j \in Instances, q \in Plans :
         ledgerMem[j][q] # "absent" => ledgerMem'[j][q] # "absent"
  BY <1>1, <1>2 DEF TypeOK
<1>4. pc'[t] = "reservePersist" /\ \A u \in Threads : u # t => pc'[u] = pc[u]
  BY <1>2 DEF TypeOK
<1>5. JobOK'
  BY <1>1, <1>2, <1>4 DEF CallInv, JobOK, ExecutePC
<1>6. OwnerOK'
  BY <1>1, <1>2, <1>4 DEF CallInv, OwnerOK
<1>7. MemoryCoversDisk'
  BY <1>2, <1>3 DEF CallInv, MemoryCoversDisk
<1>8. AcceptanceOK'
  <2>1. \A u \in Threads : pc'[u] \in AcceptedPC =>
           /\ pc[u] \in AcceptedPC /\ (pc'[u] # "acceptPersist" => pc[u] # "acceptPersist")
           /\ job[u].inst \in Instances /\ job[u].plan \in Plans
    BY <1>1, <1>4 DEF CallInv, JobOK, AcceptedPC, ExecutePC, PC
  <2>2. QED
    BY <1>2, <1>3, <2>1 DEF CallInv, AcceptanceOK
<1>9. SpawnOK'
  <2>1. \A u \in Threads : BeforeSpawn(u)' => BeforeSpawn(u)
    BY <1>1, <1>2, <1>4 DEF BeforeSpawn
  <2>2. QED
    BY <1>2, <2>1 DEF CallInv, SpawnOK, AtMostOneSpawn
<1>10. QED
  BY <1>5, <1>6, <1>7, <1>8, <1>9 DEF CallInv

\* The plan had no process, and no other call is past its acceptance.
LEMMA SpawnProcessInv ==
    ASSUME TypeOK, CallInv, NEW t \in Threads, SpawnProcess(t)
    PROVE  CallInv'
<1> DEFINE p == job[t].plan
<1>1. p \in Plans /\ pc[t] = "spawning" /\ pc[t] \in AcceptedPC /\ BeforeSpawn(t)
  BY DEF SpawnProcess, CallInv, JobOK, AcceptedPC, ExecutePC, PC, BeforeSpawn
<1>2. /\ UNCHANGED <<startup, lock, degraded, ledgerMem, ledgerDisk, job>>
      /\ \E l \in {"marking", "aborting"} : pc' = [pc EXCEPT ![t] = l]
      /\ spawns' = [spawns EXCEPT ![p] = spawns[p] + 1]
  BY DEF SpawnProcess, Goto, hostVars, ledgerVars
<1>3. pc'[t] \in {"marking", "aborting"} /\ \A u \in Threads : u # t => pc'[u] = pc[u]
  BY <1>2 DEF TypeOK
<1>4. spawns[p] = 0 /\ ledgerDisk[p] # "absent"
  BY <1>1 DEF CallInv, SpawnOK, AcceptanceOK
<1>5. spawns'[p] = 1 /\ \A q \in Plans : q # p => spawns'[q] = spawns[q]
  BY <1>1, <1>2, <1>4 DEF TypeOK
<1>6. JobOK'
  BY <1>1, <1>2, <1>3 DEF CallInv, JobOK, ExecutePC
<1>7. OwnerOK'
  BY <1>1, <1>2, <1>3 DEF CallInv, OwnerOK, AcceptedPC
<1>8. MemoryCoversDisk'
  BY <1>2 DEF CallInv, MemoryCoversDisk
<1>9. AcceptanceOK'
  BY <1>1, <1>2, <1>3 DEF CallInv, AcceptanceOK
<1>10. SpawnOK'
  <2>1. \A u \in Threads : BeforeSpawn(u)' =>
           BeforeSpawn(u) /\ pc[u] \in AcceptedPC /\ u # t /\ job[u].plan \in Plans
    BY <1>2, <1>3 DEF BeforeSpawn, CallInv, JobOK, AcceptedPC, ExecutePC, PC
  <2>2. \A u \in Threads : BeforeSpawn(u)' => job[u].plan # p
    BY <1>1, <2>1 DEF CallInv, AcceptanceOK
  <2>3. \A u \in Threads : BeforeSpawn(u)' => spawns'[job'[u].plan] = 0
    BY <1>2, <1>5, <2>1, <2>2 DEF CallInv, SpawnOK
  <2>4. \A q \in Plans : spawns'[q] <= 1 /\ (spawns'[q] > 0 => ledgerDisk'[q] # "absent")
    BY <1>2, <1>4, <1>5 DEF CallInv, SpawnOK, AtMostOneSpawn
  <2>5. QED
    BY <2>3, <2>4 DEF SpawnOK, AtMostOneSpawn
<1>11. QED
  BY <1>6, <1>7, <1>8, <1>9, <1>10 DEF CallInv

LEMMA CallStep == TypeOK /\ CallInv /\ [Next]_vars => CallInv'
<1> SUFFICES ASSUME TypeOK, CallInv, [Next]_vars PROVE CallInv'
  OBVIOUS
<1>1. CASE UNCHANGED vars
  BY <1>1 DEF vars, hostVars, ledgerVars, callVars, historyVars, CallInv, JobOK, OwnerOK,
         MemoryCoversDisk, AcceptanceOK, SpawnOK, BeforeSpawn, AtMostOneSpawn
<1>2. CASE Tick
  BY <1>2 DEF Tick, hostVars, ledgerVars, callVars, historyVars, CallInv, JobOK, OwnerOK,
         MemoryCoversDisk, AcceptanceOK, SpawnOK, BeforeSpawn, AtMostOneSpawn
<1>3. ASSUME NEW i \in Instances, Host(i) PROVE CallInv'
  BY <1>3, HostInv
<1>4. ASSUME NEW t \in Threads, NEW i \in Instances, NEW p \in Plans, NEW a \in Approvals,
             NEW e \in 1..MaxTime, Grant(t, i, p, a, e) PROVE CallInv'
  <2>1. SameWorld
    BY <1>4 DEF Grant, SameWorld, hostVars, historyVars
  <2>2. QED
    BY <1>4, <2>1, BeginCall DEF Grant
<1>5. ASSUME NEW t \in Threads, NEW i \in Instances, NEW a \in Approvals,
             NEW s \in {"denied", "revoked"}, Withdraw(t, i, a, s) PROVE CallInv'
  <2>1. SameWorld
    BY <1>5 DEF Withdraw, SameWorld, hostVars, historyVars
  <2>2. QED
    BY <1>5, <2>1, BeginCall DEF Withdraw
<1>6. ASSUME NEW t \in Threads, NEW i \in Instances, NEW p \in Plans,
             NEW a \in Approvals \cup {None}, Execute(t, i, p, a) PROVE CallInv'
  <2>1. SameWorld
    BY <1>6 DEF Execute, SameWorld, hostVars, historyVars
  <2>2. lock["ledger"] = i
    BY <1>6 DEF Execute, Begin, CallInv, OwnerOK
  <2>3. QED
    BY <1>6, <2>1, <2>2, BeginCall DEF Execute
<1>7. ASSUME NEW t \in Threads, PersistGrant(t) PROVE CallInv'
  <2>1. SameWorld /\ Return(t)
    BY <1>7 DEF PersistGrant, SameWorld, hostVars, historyVars
  <2>2. QED
    BY <2>1, EndCall
<1>8. ASSUME NEW t \in Threads, PersistWithdraw(t) PROVE CallInv'
  <2>1. SameWorld /\ Return(t)
    BY <1>8 DEF PersistWithdraw, SameWorld, hostVars, historyVars
  <2>2. QED
    BY <2>1, EndCall
<1>9. ASSUME NEW t \in Threads, RecordExecutionId(t) PROVE CallInv'
  <2>1. SameWorld /\ Return(t)
    BY <1>9 DEF RecordExecutionId, SameWorld, hostVars, historyVars
  <2>2. QED
    BY <2>1, EndCall
<1>10. ASSUME NEW t \in Threads, Accept(t) \/ Reserve(t) \/ SpawnProcess(t) PROVE CallInv'
  BY <1>10, AcceptInv, ReserveInv, SpawnProcessInv
<1>11. ASSUME NEW t \in Threads, PersistAccept(t) PROVE CallInv'
  BY <1>11, PersistLedgerInv DEF PersistAccept
<1>12. ASSUME NEW t \in Threads, PersistReserve(t) PROVE CallInv'
  BY <1>12, PersistLedgerInv DEF PersistReserve
<1>13. ASSUME NEW t \in Threads, Consume(t) PROVE CallInv'
  <2>1. SameWorld
    BY <1>13 DEF Consume, SameWorld, hostVars, historyVars
  <2>2. CASE Return(t)
    BY <2>1, <2>2, EndCall
  <2>3. CASE Goto(t, "consumePersist")
    <3>1. BeforeSpawn(t) /\ pc[t] \in AcceptedPC \ {"acceptPersist"}
          /\ "consumePersist" \in AcceptedPC \ {"acceptPersist"}
      BY <1>13 DEF Consume, BeforeSpawn, AcceptedPC, ExecutePC, PC
    <3>2. QED
      BY <2>1, <2>3, <3>1, GotoInv
  <2>4. QED
    BY <1>13, <2>2, <2>3 DEF Consume
<1>14. ASSUME NEW t \in Threads, PersistConsume(t) PROVE CallInv'
  <2>1. SameWorld
    BY <1>14 DEF PersistConsume, SameWorld, hostVars, historyVars
  <2>2. CASE Return(t)
    BY <2>1, <2>2, EndCall
  <2>3. CASE Goto(t, "inserting")
    <3>1. BeforeSpawn(t) /\ pc[t] \in AcceptedPC \ {"acceptPersist"}
          /\ "inserting" \in AcceptedPC \ {"acceptPersist"}
      BY <1>14 DEF PersistConsume, BeforeSpawn, AcceptedPC, ExecutePC, PC
    <3>2. QED
      BY <2>1, <2>3, <3>1, GotoInv
  <2>4. QED
    BY <1>14, <2>2, <2>3 DEF PersistConsume
<1>15. ASSUME NEW t \in Threads, InsertAccepted(t) PROVE CallInv'
  BY <1>15, MarkReceiptInv DEF InsertAccepted, BeforeSpawn
<1>16. ASSUME NEW t \in Threads, SpawnFails(t) PROVE CallInv'
  BY <1>16, MarkReceiptInv DEF SpawnFails, BeforeSpawn
<1>17. ASSUME NEW t \in Threads, MarkSpawnStarted(t) PROVE CallInv'
  BY <1>17, MarkReceiptInv DEF MarkSpawnStarted, BeforeSpawn
<1>18. ASSUME NEW t \in Threads, MarkUnknown(t) PROVE CallInv'
  BY <1>18, MarkReceiptInv DEF MarkUnknown, BeforeSpawn
<1>19. ASSUME NEW t \in Threads, MarkCompleted(t) PROVE CallInv'
  <2>1. (IF job[t].plan \in Guarded THEN "auditing" ELSE "idle") \in {"idle", "auditing"}
    OBVIOUS
  <2>2. QED
    BY <1>19, <2>1, MarkReceiptInv DEF MarkCompleted
<1>20. ASSUME NEW t \in Threads, SnapshotReceipts(t) PROVE CallInv'
  <2>1. SameWorld /\ job' = [job EXCEPT ![t] = job[t]]
    BY <1>20 DEF SnapshotReceipts, SameWorld, hostVars, historyVars, TypeOK
  <2>2. /\ pc[t] \in AcceptedPC \ {"acceptPersist"}
        /\ "receiptWrite" \in AcceptedPC \ {"acceptPersist"}
        /\ pc' = [pc EXCEPT ![t] = "receiptWrite"]
    BY <1>20 DEF SnapshotReceipts, AcceptedPC, ExecutePC, PC
  <2>3. BeforeSpawn(t)' => BeforeSpawn(t)
    BY <1>20, <2>1, <2>2 DEF SnapshotReceipts, BeforeSpawn, TypeOK
  <2>4. job[t].then \in {"idle", "spawning", "waiting", "auditing"}
    BY DEF CallInv, JobOK
  <2>5. QED
    BY <2>1, <2>2, <2>3, <2>4, AdvanceCall
<1>21. ASSUME NEW t \in Threads, WriteReceipts(t) PROVE CallInv'
  <2>1. SameWorld
    <3>1. \/ UNCHANGED degraded
          \/ degraded' = [degraded EXCEPT ![job[t].inst] = @ \cup {"receipts"}]
      BY <1>21 DEF WriteReceipts
    <3>2. \A i \in Instances : degraded[i] \subseteq degraded'[i]
      <4>1. CASE UNCHANGED degraded
        BY <4>1
      <4>2. CASE degraded' = [degraded EXCEPT ![job[t].inst] = @ \cup {"receipts"}]
        <5>1. \A i \in Instances :
                 degraded'[i] = IF i = job[t].inst THEN degraded[i] \cup {"receipts"}
                                                   ELSE degraded[i]
          BY <4>2 DEF TypeOK
        <5>2. QED
          BY <5>1
      <4>3. QED
        BY <3>1, <4>1, <4>2
    <3>3. QED
      BY <1>21, <3>2 DEF WriteReceipts, SameWorld, historyVars
  <2>2. CASE Return(t)
    BY <2>1, <2>2, EndCall
  <2>3. CASE /\ pc' = [pc EXCEPT ![t] = job[t].then]
             /\ job' = [job EXCEPT ![t] = IF job[t].then = "idle" THEN NoJob ELSE @]
             /\ snap' = [snap EXCEPT ![t] = NoReceipts]
    <3>1. CASE job[t].then = "idle"
      BY <2>1, <2>3, <3>1, EndCall DEF Return
    <3>2. CASE job[t].then # "idle"
      <4>1. job[t].then \in {"spawning", "waiting", "auditing"}
        BY <3>2 DEF CallInv, JobOK
      <4>2. pc[t] \in AcceptedPC \ {"acceptPersist"}
            /\ job[t].then \in AcceptedPC \ {"acceptPersist"}
        BY <1>21, <4>1 DEF WriteReceipts, AcceptedPC, ExecutePC, PC
      <4>3. pc' = [pc EXCEPT ![t] = job[t].then] /\ job' = [job EXCEPT ![t] = job[t]]
        BY <2>3, <3>2
      <4>4. BeforeSpawn(t)' => BeforeSpawn(t)
        BY <1>21, <4>1, <4>3 DEF WriteReceipts, BeforeSpawn, TypeOK
      <4>5. QED
        BY <2>1, <4>1, <4>2, <4>3, <4>4, AdvanceCall
    <3>3. QED
      BY <3>1, <3>2
  <2>4. QED
    BY <1>21, <2>2, <2>3 DEF WriteReceipts
<1>22. QED
  BY <1>1, <1>2, <1>3, <1>4, <1>5, <1>6, <1>7, <1>8, <1>9, <1>10, <1>11, <1>12, <1>13, <1>14, <1>15, <1>16, <1>17, <1>18, <1>19, <1>20, <1>21
     DEF Next, Call, Progress

\* Together: IInv is inductive.
LEMMA InvStep == IInv /\ [Next]_vars => IInv'
<1> SUFFICES ASSUME IInv, [Next]_vars PROVE IInv'
  OBVIOUS
<1>1. TypeOK /\ CallInv
  BY DEF IInv, CallInv
<1>2. TypeOK'
  BY <1>1, TypeStep DEF CallInv
<1>3. CallInv'
  BY <1>1, CallStep
<1>4. QED
  BY <1>2, <1>3 DEF IInv, CallInv

-----------------------------------------------------------------------------
(* The theorems *)

\* The inductive invariant holds of every state of the broker.
THEOREM Inductive == Spec => []IInv
<1>1. QED
  BY InitIInv, InvStep, PTL DEF Spec

\* Every variable has its type in every state, for any plans, approvals, threads
\* and broker processes.
THEOREM TypeCorrect == Spec => []TypeOK
<1>1. IInv => TypeOK
  BY DEF IInv
<1>2. QED
  BY <1>1, Inductive, PTL

\* A plan's process is created at most once (Broker::execute): for any number of
\* threads and broker processes, under crashes, restarts and failed writes.
THEOREM SingleSpawn == Spec => []AtMostOneSpawn
<1>1. IInv => AtMostOneSpawn
  BY DEF IInv, SpawnOK
<1>2. QED
  BY <1>1, Inductive, PTL

-----------------------------------------------------------------------------
(* The broker implements SingleUseExecution: writing the ledger file commits  *)
(* plans, creating a process executes one, every other step stutters.          *)

LEMMA PhaseInit == Init => SingleUse!Init
  BY DEF Init, SingleUse!Init, Phase, EmptyLedger

LEMMA PhaseStep == IInv /\ IInv' /\ [Next]_vars => [SingleUse!Next]_Phase
<1> SUFFICES ASSUME IInv, IInv', [Next]_vars PROVE [SingleUse!Next]_Phase
  OBVIOUS
<1>0. TypeOK /\ CallInv
  BY DEF IInv, CallInv
<1>1. CASE UNCHANGED <<spawns, ledgerDisk>>
  BY <1>1 DEF Phase
<1>2. ASSUME NEW t \in Threads, ledgerDisk' = ledgerMem[job[t].inst], pc[t] \in AcceptedPC,
             UNCHANGED spawns
      PROVE  SingleUse!Next
  <2> DEFINE S == {p \in Plans : ledgerDisk[p] = "absent" /\ ledgerDisk'[p] # "absent"}
  <2>1. lock["ledger"] = job[t].inst /\ job[t].inst \in Instances
    BY <1>0, <1>2 DEF CallInv, OwnerOK, JobOK, AcceptedPC, ExecutePC
  <2>2. \A p \in Plans : ledgerDisk[p] # "absent" => ledgerDisk'[p] # "absent"
    BY <1>0, <1>2, <2>1 DEF CallInv, MemoryCoversDisk
  <2>3. \A p \in S : spawns[p] = 0
    BY <1>0 DEF CallInv, SpawnOK, TypeOK
  <2>4. \A p \in S : Phase[p] = "fresh"
    BY <2>3 DEF Phase
  <2>5. Phase' = [p \in Plans |-> IF p \in S THEN "committed" ELSE Phase[p]]
    BY <1>2, <2>2, <2>3 DEF Phase
  <2>6. S \in SUBSET Plans /\ SingleUse!Commit(S)
    BY <2>4, <2>5 DEF SingleUse!Commit
  <2>7. QED
    BY <2>6 DEF SingleUse!Next
<1>3. ASSUME NEW t \in Threads, SpawnProcess(t) PROVE SingleUse!Next
  <2> DEFINE p == job[t].plan
  <2>1. p \in Plans /\ pc[t] \in AcceptedPC \ {"acceptPersist"} /\ BeforeSpawn(t)
    BY <1>0, <1>3 DEF SpawnProcess, CallInv, JobOK, AcceptedPC, ExecutePC, PC, BeforeSpawn
  <2>2. spawns[p] = 0 /\ ledgerDisk[p] # "absent"
    BY <1>0, <2>1 DEF CallInv, SpawnOK, AcceptanceOK
  <2>3. ledgerDisk' = ledgerDisk /\ spawns'[p] = 1
        /\ \A q \in Plans : q # p => spawns'[q] = spawns[q]
    BY <1>0, <1>3, <2>1, <2>2 DEF SpawnProcess, ledgerVars, TypeOK
  <2>4. Phase[p] = "committed"
    BY <2>1, <2>2 DEF Phase
  <2>5. Phase' = [Phase EXCEPT ![p] = "executed"]
    <3>1. \A q \in Plans : Phase'[q] = IF q = p THEN "executed" ELSE Phase[q]
      <4>1. Phase'[p] = "executed"
        BY <2>1, <2>3 DEF Phase
      <4>2. \A q \in Plans : q # p => Phase'[q] = Phase[q]
        BY <2>3 DEF Phase
      <4>3. QED
        BY <4>1, <4>2
    <3>2. Phase' = [q \in Plans |-> Phase'[q]] /\ Phase = [q \in Plans |-> Phase[q]]
      BY DEF Phase
    <3> HIDE DEF p
    <3>3. QED
      BY <3>1, <3>2
  <2>6. QED
    BY <2>1, <2>4, <2>5 DEF SingleUse!Execute, SingleUse!Next
<1>4. ASSUME NEW t \in Threads,
             PersistLedger(t, "acceptPersist", "reserving")
             \/ PersistLedger(t, "reservePersist",
                              IF job[t].plan \in Guarded THEN "consuming" ELSE "inserting")
      PROVE  [SingleUse!Next]_Phase
  <2>1. pc[t] \in AcceptedPC /\ UNCHANGED spawns
    BY <1>4 DEF PersistLedger, AcceptedPC, ExecutePC, PC, historyVars
  <2>2. ledgerDisk' = ledgerMem[job[t].inst] \/ UNCHANGED ledgerDisk
    BY <1>4 DEF PersistLedger
  <2>3. QED
    BY <1>1, <1>2, <2>1, <2>2
<1>5. ASSUME NEW i \in Instances, Host(i) PROVE UNCHANGED <<spawns, ledgerDisk>>
  BY <1>5 DEF Host, OpenApprovals, OpenLedger, OpenReceipts, Crash, ledgerVars, historyVars
<1>6. ASSUME NEW t \in Threads, Call(t) PROVE UNCHANGED <<spawns, ledgerDisk>>
  BY <1>6 DEF Call, Grant, Withdraw, Execute, ledgerVars, historyVars
<1>7. ASSUME NEW t \in Threads, Progress(t), ~SpawnProcess(t), ~PersistAccept(t),
             ~PersistReserve(t)
      PROVE  UNCHANGED <<spawns, ledgerDisk>>
  BY <1>7 DEF Progress, PersistGrant, PersistWithdraw, Accept, Reserve, Consume,
         PersistConsume, InsertAccepted, SpawnFails, MarkSpawnStarted, MarkCompleted,
         MarkUnknown, ReceiptUnchanged, SnapshotReceipts, WriteReceipts, RecordExecutionId,
         ledgerVars, historyVars
<1>8. CASE Tick
  BY <1>1, <1>8 DEF Tick, ledgerVars, historyVars
<1>9. CASE UNCHANGED vars
  BY <1>1, <1>9 DEF vars, ledgerVars, historyVars
<1>10. QED
  BY <1>1, <1>3, <1>4, <1>5, <1>6, <1>7, <1>8, <1>9 DEF Next, PersistAccept, PersistReserve

\* Every behaviour of the broker is one of single-use execution: a plan that the
\* ledger file knows is never taken up again, whatever crashes and restarts.
THEOREM ImplementsSingleUse == Spec => SingleUseSpec
<1>1. QED
  BY PhaseInit, PhaseStep, Inductive, PTL DEF Spec, SingleUseSpec, SingleUse!Spec
=============================================================================
