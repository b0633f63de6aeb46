---------------------- MODULE BrokerAccounting_proofs -----------------------
(***************************************************************************)
(* What BrokerExecution keeps account of, proved for any number of plans,  *)
(* approvals, threads and broker processes on top of the invariant of      *)
(* BrokerExecution_proofs: a process is accounted for by the ledger and    *)
(* by a consumed approval, a withdrawal holds, a plan has one live grant,  *)
(* receipts agree with the processes, and one in flight has a thread.      *)
(***************************************************************************)
EXTENDS BrokerExecution_proofs

(* Approvals *)

Refused == {"denied", "revoked"}

\* Where a call is once the approval of its plan is consumed on disk, and once
\* the plan is reserved on disk.
ConsumedPC == {"inserting", "spawning", "aborting", "marking", "waiting", "auditing",
               "receiptSnapshot", "receiptWrite"}
ReservedPC == ConsumedPC \cup {"consuming", "consumePersist"}

\* A process whose approval store is healthy holds its file lock, and so does the
\* process of every call.
ApprovalOwnerOK ==
    /\ \A i \in Instances :
          startup[i] \in {"ledger", "receipts", "up"} /\ "approvals" \notin degraded[i]
          => lock["approvals"] = i
    /\ \A t \in Threads : pc[t] # "idle" => lock["approvals"] = job[t].inst

\* The owner's memory has what its file has, or what came after it.
ApprovalsCovered ==
    \A i \in Instances, a \in Approvals : lock["approvals"] = i =>
        /\ apprDisk[a].status # "absent" =>
              apprMem[i][a].status # "absent" /\ apprMem[i][a].plan = apprDisk[a].plan
        /\ apprDisk[a].status = "consumed" => apprMem[i][a].status = "consumed"
        /\ apprDisk[a].status \in Refused => apprMem[i][a].status \in Refused

ReservationsCovered ==
    \A i \in Instances, p \in Plans :
        lock["ledger"] = i /\ ledgerDisk[p] = "reserved" => ledgerMem[i][p] = "reserved"

OneLiveGrant(records) ==
    \A a, b \in Approvals :
        /\ records[a].status = "granted" /\ records[b].status = "granted"
        /\ records[a].plan = records[b].plan
        => a = b

GrantsOK == OneLiveGrantPerPlan /\ \A i \in Instances : OneLiveGrant(apprMem[i])

\* What each call may rely on, whatever the others do meanwhile.
CallOK(t) ==
    LET i == job[t].inst
        p == job[t].plan
        a == job[t].appr
    IN  /\ pc[t] = "withdrawPersist" => apprMem[i][a].status \in Refused
        /\ pc[t] \in ExecutePC /\ p \in Guarded =>
              a \in Approvals /\ apprMem[i][a].plan = p /\ apprMem[i][a].status # "absent"
        /\ pc[t] \in ExecutePC /\ p \notin Guarded =>
              a = None /\ pc[t] \notin {"consuming", "consumePersist"}
        /\ pc[t] = "reservePersist" => ledgerMem[i][p] = "reserved"
        /\ pc[t] \in ReservedPC => ledgerDisk[p] = "reserved"
        /\ pc[t] = "consumePersist" => apprMem[i][a].status = "consumed"
        /\ pc[t] \in ConsumedPC /\ p \in Guarded =>
              apprDisk[a].status = "consumed" /\ apprDisk[a].plan = p

CallsOK == \A t \in Threads : CallOK(t)

SpawnsOK ==
    \A p \in Plans :
        /\ spawns[p] > 0 => ledgerDisk[p] = "reserved"
        /\ spawns[p] > 0 /\ p \in Guarded =>
              spawnedWith[p] # None /\ apprDisk[spawnedWith[p]].plan = p
        /\ spawnedWith[p] # None => apprDisk[spawnedWith[p]].status = "consumed"

ApprovalInv ==
    /\ ApprovalOwnerOK /\ ApprovalsCovered /\ ReservationsCovered /\ GrantsOK
    /\ CallsOK /\ SpawnsOK /\ WithdrawalHolds

(* Receipts *)

Persisting(t) == pc[t] \in {"receiptSnapshot", "receiptWrite"}

\* The call has the receipt of its plan in flight: accepted, or spawn_started.
HoldsAccepted(t) ==
    \/ pc[t] \in {"spawning", "aborting", "marking"}
    \/ Persisting(t) /\ job[t].then = "spawning"
HoldsStarted(t) ==
    pc[t] = "waiting" \/ (Persisting(t) /\ job[t].then = "waiting")
Holding(t) == HoldsAccepted(t) \/ HoldsStarted(t)

\* A receipt of the plan claims one of these states, wherever it is.
Claimed(p, states) ==
    \/ rcptDisk[p] \in states
    \/ \E i \in Instances : rcptMem[i][p] \in states
    \/ \E t \in Threads : snap[t][p] \in states
Failed(p)  == Claimed(p, {"spawn_failed"})
Started(p) == Claimed(p, {"spawn_started", "completed"})

\* The call may still create the process of its plan, or has it in its care.
MayRun(t) ==
    \/ BeforeSpawn(t)
    \/ pc[t] \in {"marking", "waiting"}
    \/ Persisting(t) /\ job[t].then = "waiting"

FailedOK ==
    \A p \in Plans : Failed(p) =>
        /\ ledgerDisk[p] # "absent"
        /\ \A t \in Threads : MayRun(t) => job[t].plan # p

StartedOK ==
    /\ \A p \in Plans : Started(p) => spawns[p] > 0
    /\ \A t \in Threads : pc[t] = "marking" => spawns[job[t].plan] > 0

UpOK == \A t \in Threads : pc[t] # "idle" => startup[job[t].inst] = "up"

\* What the receipt of a call in flight says.
ReceiptOK ==
    \A t \in Threads :
        /\ HoldsAccepted(t) => rcptMem[job[t].inst][job[t].plan] = "accepted"
        /\ HoldsStarted(t) => rcptMem[job[t].inst][job[t].plan] = "spawn_started"

InFlightOK ==
    \A i \in Instances, p \in Plans :
        /\ rcptMem[i][p] \in {"accepted", "spawn_started"}
        /\ "receipts" \notin degraded[i]
        => \E t \in Threads : job[t].inst = i /\ job[t].plan = p /\ Holding(t)

ReceiptInv == FailedOK /\ StartedOK /\ UpOK /\ ReceiptOK /\ InFlightOK
-----------------------------------------------------------------------------
USE BrokerAssumption

(* Approvals: what every step leaves in place *)

\* Records of a process that exist keep their plan and their end, and its plans
\* stay reserved.
RecordsGrow(i) ==
    \A a \in Approvals :
        /\ apprMem[i][a].status # "absent" =>
              apprMem'[i][a].status # "absent" /\ apprMem'[i][a].plan = apprMem[i][a].plan
        /\ apprMem[i][a].status = "consumed" => apprMem'[i][a].status = "consumed"
        /\ apprMem[i][a].status \in Refused => apprMem'[i][a].status \in Refused

PlansGrow(i) == \A p \in Plans : ledgerMem[i][p] = "reserved" => ledgerMem'[i][p] = "reserved"

\* So do the files.
FilesGrow ==
    /\ \A a \in Approvals :
          /\ apprDisk[a].status = "consumed" =>
                apprDisk'[a].status = "consumed" /\ apprDisk'[a].plan = apprDisk[a].plan
          /\ apprDisk[a].status \in Refused => apprDisk'[a].status \in Refused
    /\ \A p \in Plans : ledgerDisk[p] = "reserved" => ledgerDisk'[p] = "reserved"

\* A call that does not move keeps what it relies on.
LEMMA KeepCall ==
    ASSUME CallInv, NEW u \in Threads, CallOK(u), FilesGrow,
           pc'[u] = pc[u], job'[u] = job[u],
           pc[u] # "idle" => RecordsGrow(job[u].inst),
           pc[u] \in ExecutePC => PlansGrow(job[u].inst)
    PROVE  CallOK(u)'
<1> DEFINE i == job[u].inst
           p == job[u].plan
           a == job[u].appr
<1>1. /\ pc[u] \in ExecutePC => p \in Plans
      /\ pc[u] = "withdrawPersist" => a \in Approvals
      /\ ReservedPC \subseteq ExecutePC /\ ConsumedPC \subseteq ReservedPC
      /\ "withdrawPersist" # "idle" /\ "idle" \notin ExecutePC
      /\ "reservePersist" \in ExecutePC /\ "consumePersist" \in ExecutePC
  BY DEF CallInv, JobOK, ReservedPC, ConsumedPC, ExecutePC, PC
<1>2. pc[u] = "withdrawPersist" => apprMem'[i][a].status \in Refused
  BY <1>1 DEF CallOK, RecordsGrow
<1>3. pc[u] \in ExecutePC /\ p \in Guarded =>
          a \in Approvals /\ apprMem'[i][a].plan = p /\ apprMem'[i][a].status # "absent"
  BY <1>1 DEF CallOK, RecordsGrow
<1>4. pc[u] \in ExecutePC /\ p \notin Guarded =>
          a = None /\ pc[u] \notin {"consuming", "consumePersist"}
  BY DEF CallOK
<1>5. pc[u] = "reservePersist" => ledgerMem'[i][p] = "reserved"
  BY <1>1 DEF CallOK, PlansGrow
<1>6. pc[u] \in ReservedPC => ledgerDisk'[p] = "reserved"
  BY <1>1 DEF CallOK, FilesGrow
<1>7. pc[u] = "consumePersist" => apprMem'[i][a].status = "consumed"
  BY <1>1, <1>4 DEF CallOK, RecordsGrow
<1>8. pc[u] \in ConsumedPC /\ p \in Guarded =>
          apprDisk'[a].status = "consumed" /\ apprDisk'[a].plan = p
  BY <1>1 DEF CallOK, FilesGrow
<1> QED  BY <1>2, <1>3, <1>4, <1>5, <1>6, <1>7, <1>8 DEF CallOK

LEMMA KeepSpawns ==
    ASSUME TypeOK, SpawnsOK, FilesGrow, UNCHANGED <<spawns, spawnedWith>>
    PROVE  SpawnsOK'
<1> SUFFICES ASSUME NEW p \in Plans
             PROVE  /\ spawns[p] > 0 => ledgerDisk'[p] = "reserved"
                    /\ spawns[p] > 0 /\ p \in Guarded =>
                          spawnedWith[p] # None /\ apprDisk'[spawnedWith[p]].plan = p
                    /\ spawnedWith[p] # None => apprDisk'[spawnedWith[p]].status = "consumed"
  BY DEF SpawnsOK
<1> DEFINE a == spawnedWith[p]
<1>1. a # None => a \in Approvals
  BY DEF TypeOK
<1>2. spawns[p] > 0 => ledgerDisk'[p] = "reserved"
  BY DEF SpawnsOK, FilesGrow
<1>3. a # None => apprDisk[a].status = "consumed"
  BY DEF SpawnsOK
<1>4. a # None => apprDisk'[a].status = "consumed" /\ apprDisk'[a].plan = apprDisk[a].plan
  BY <1>1, <1>3 DEF FilesGrow
<1>5. spawns[p] > 0 /\ p \in Guarded => a # None /\ apprDisk[a].plan = p
  BY DEF SpawnsOK
<1> QED  BY <1>2, <1>4, <1>5

LEMMA KeepWithdrawals ==
    ASSUME TypeOK, WithdrawalHolds, FilesGrow, UNCHANGED <<spawnedWith, withdrawn>>
    PROVE  WithdrawalHolds'
  BY DEF TypeOK, WithdrawalHolds, FilesGrow, Refused

\* One call moves, and nothing shrinks.
LEMMA OneCall ==
    ASSUME TypeOK, CallInv, ApprovalInv, NEW t \in Threads, NEW l, NEW j,
           pc' = [pc EXCEPT ![t] = l], job' = [job EXCEPT ![t] = j],
           UNCHANGED <<startup, lock>>,
           \A i \in Instances : "approvals" \in degraded[i] => "approvals" \in degraded'[i],
           \A i \in Instances : RecordsGrow(i) /\ PlansGrow(i),
           FilesGrow,
           l # "idle" => lock["approvals"] = j.inst,
           CallOK(t)'
    PROVE  ApprovalOwnerOK' /\ CallsOK'
<1>1. pc'[t] = l /\ job'[t] = j /\ \A u \in Threads : u # t => pc'[u] = pc[u] /\ job'[u] = job[u]
  BY DEF TypeOK
<1>2. ApprovalOwnerOK'
  BY <1>1 DEF ApprovalInv, ApprovalOwnerOK
<1>3. ASSUME NEW u \in Threads, u # t PROVE CallOK(u)'
  <2>1. (pc[u] # "idle" => job[u].inst \in Instances) /\ "idle" \notin ExecutePC
    BY DEF CallInv, JobOK, ExecutePC
  <2> QED  BY <1>1, <1>3, <2>1, KeepCall DEF ApprovalInv, CallsOK
<1>4. CallsOK'
  BY <1>3 DEF CallsOK
<1> QED  BY <1>2, <1>4

\* The records and the ledger stay as they are.
LEMMA NothingStored ==
    ASSUME ApprovalInv, UNCHANGED <<lock, ledgerVars, apprVars>>
    PROVE  /\ \A i \in Instances : RecordsGrow(i) /\ PlansGrow(i)
           /\ FilesGrow /\ ApprovalsCovered' /\ ReservationsCovered' /\ GrantsOK'
<1> USE DEF ledgerVars, apprVars
<1>1. \A i \in Instances : RecordsGrow(i) /\ PlansGrow(i)
  BY DEF RecordsGrow, PlansGrow
<1>2. FilesGrow
  BY DEF FilesGrow
<1>3. ApprovalsCovered' /\ ReservationsCovered'
  BY DEF ApprovalInv, ApprovalsCovered, ReservationsCovered
<1>4. GrantsOK'
  BY DEF ApprovalInv, GrantsOK, OneLiveGrantPerPlan, OneLiveGrant
<1> QED  BY <1>1, <1>2, <1>3, <1>4

\* The owner of the approval store writes its file.
LEMMA RecordsWritten ==
    ASSUME ApprovalInv, NEW i \in Instances, lock["approvals"] = i, apprDisk' = apprMem[i],
           UNCHANGED <<lock, ledgerVars, apprMem>>
    PROVE  /\ \A k \in Instances : RecordsGrow(k) /\ PlansGrow(k)
           /\ FilesGrow /\ ApprovalsCovered' /\ ReservationsCovered' /\ GrantsOK'
<1> USE DEF ledgerVars, apprVars
<1>1. \A k \in Instances : RecordsGrow(k) /\ PlansGrow(k)
  BY DEF RecordsGrow, PlansGrow
<1>2. FilesGrow
  BY DEF FilesGrow, ApprovalInv, ApprovalsCovered, Refused
<1>3. ApprovalsCovered' /\ ReservationsCovered'
  BY DEF ApprovalInv, ApprovalsCovered, ReservationsCovered
<1>4. GrantsOK'
  BY DEF ApprovalInv, GrantsOK, OneLiveGrantPerPlan, OneLiveGrant
<1> QED  BY <1>1, <1>2, <1>3, <1>4

\* The owner of the approval store changes one record in memory.
LEMMA RecordChanged ==
    ASSUME TypeOK, ApprovalInv, NEW i \in Instances, NEW a \in Approvals, NEW r \in ApprovalRecord,
           apprMem' = [apprMem EXCEPT ![i][a] = r],
           UNCHANGED <<lock, ledgerVars, apprDisk>>,
           apprMem[i][a].status # "absent" => r.status # "absent" /\ r.plan = apprMem[i][a].plan,
           apprMem[i][a].status = "consumed" => r.status = "consumed",
           apprMem[i][a].status \in Refused => r.status \in Refused,
           r.status = "granted" => \A b \in Approvals :
              ~(apprMem[i][b].plan = r.plan /\ apprMem[i][b].status = "granted")
    PROVE  /\ \A k \in Instances : RecordsGrow(k) /\ PlansGrow(k)
           /\ FilesGrow /\ ApprovalsCovered' /\ ReservationsCovered' /\ GrantsOK'
<1> USE DEF ledgerVars, apprVars
<1>0. \A k \in Instances, b \in Approvals :
          apprMem'[k][b] = IF k = i /\ b = a THEN r ELSE apprMem[k][b]
  BY DEF TypeOK
<1>1. \A k \in Instances : RecordsGrow(k) /\ PlansGrow(k)
  BY <1>0 DEF RecordsGrow, PlansGrow
<1>2. FilesGrow
  BY DEF FilesGrow
<1>3. ApprovalsCovered' /\ ReservationsCovered'
  BY <1>0 DEF ApprovalInv, ApprovalsCovered, ReservationsCovered, Refused
<1>4. GrantsOK'
  <2>1. ASSUME NEW k \in Instances PROVE OneLiveGrant(apprMem'[k])
    BY <1>0 DEF ApprovalInv, GrantsOK, OneLiveGrant
  <2> QED  BY <2>1 DEF ApprovalInv, GrantsOK, OneLiveGrantPerPlan
<1> QED  BY <1>1, <1>2, <1>3, <1>4

\* The owner of the ledger writes its file.
LEMMA LedgerWritten ==
    ASSUME CallInv, ApprovalInv, NEW t \in Threads, pc[t] \in ExecutePC,
           ledgerDisk' = ledgerMem[job[t].inst], UNCHANGED <<lock, ledgerMem, apprVars>>
    PROVE  /\ \A i \in Instances : RecordsGrow(i) /\ PlansGrow(i)
           /\ FilesGrow /\ ApprovalsCovered' /\ ReservationsCovered' /\ GrantsOK'
<1> USE DEF ledgerVars, apprVars
<1>0. lock["ledger"] = job[t].inst /\ job[t].inst \in Instances
  BY DEF CallInv, OwnerOK, JobOK, ExecutePC
<1>1. \A i \in Instances : RecordsGrow(i) /\ PlansGrow(i)
  BY DEF RecordsGrow, PlansGrow
<1>2. FilesGrow
  BY <1>0 DEF FilesGrow, ApprovalInv, ReservationsCovered
<1>3. ApprovalsCovered' /\ ReservationsCovered'
  BY <1>0 DEF ApprovalInv, ApprovalsCovered, ReservationsCovered
<1>4. GrantsOK'
  BY DEF ApprovalInv, GrantsOK, OneLiveGrantPerPlan, OneLiveGrant
<1> QED  BY <1>1, <1>2, <1>3, <1>4

\* The owner of the ledger moves one plan in memory.
LEMMA PlanMoved ==
    ASSUME TypeOK, ApprovalInv, NEW i \in Instances, NEW p \in Plans, NEW phase,
           ledgerMem' = [ledgerMem EXCEPT ![i][p] = phase],
           UNCHANGED <<lock, ledgerDisk, apprVars>>,
           ledgerMem[i][p] = "reserved" => phase = "reserved"
    PROVE  /\ \A k \in Instances : RecordsGrow(k) /\ PlansGrow(k)
           /\ FilesGrow /\ ApprovalsCovered' /\ ReservationsCovered' /\ GrantsOK'
<1> USE DEF ledgerVars, apprVars
<1>0. \A k \in Instances, q \in Plans :
          ledgerMem'[k][q] = IF k = i /\ q = p THEN phase ELSE ledgerMem[k][q]
  BY DEF TypeOK
<1>1. \A k \in Instances : RecordsGrow(k) /\ PlansGrow(k)
  BY <1>0 DEF RecordsGrow, PlansGrow
<1>2. FilesGrow
  BY DEF FilesGrow
<1>3. ApprovalsCovered' /\ ReservationsCovered'
  BY <1>0 DEF ApprovalInv, ApprovalsCovered, ReservationsCovered
<1>4. GrantsOK'
  BY DEF ApprovalInv, GrantsOK, OneLiveGrantPerPlan, OneLiveGrant
<1> QED  BY <1>1, <1>2, <1>3, <1>4

(* Approvals: one lemma per shape of step *)

\* What a step of call t to l, with job j, has to establish when it neither creates a
\* process nor completes a withdrawal.
LEMMA CallMoves ==
    ASSUME TypeOK, CallInv, ApprovalInv, NEW t \in Threads, NEW l, NEW j,
           pc' = [pc EXCEPT ![t] = l], job' = [job EXCEPT ![t] = j],
           UNCHANGED <<startup, lock, spawns, spawnedWith, withdrawn>>,
           \A i \in Instances : "approvals" \in degraded[i] => "approvals" \in degraded'[i],
           /\ \A i \in Instances : RecordsGrow(i) /\ PlansGrow(i)
           /\ FilesGrow /\ ApprovalsCovered' /\ ReservationsCovered' /\ GrantsOK',
           l # "idle" => lock["approvals"] = j.inst,
           CallOK(t)'
    PROVE  ApprovalInv'
<1>1. ApprovalOwnerOK' /\ CallsOK'
  BY OneCall
<1>2. SpawnsOK'
  BY KeepSpawns DEF ApprovalInv
<1>3. WithdrawalHolds'
  BY KeepWithdrawals DEF ApprovalInv
<1> QED  BY <1>1, <1>2, <1>3 DEF ApprovalInv

\* A call that is over, or only has a grant to write, relies on nothing.
LEMMA NoReliance ==
    ASSUME NEW t \in Threads, pc'[t] \in {"idle", "grantPersist"}
    PROVE  CallOK(t)'
  BY DEF CallOK, ExecutePC, ReservedPC, ConsumedPC, PC

\* Past the consumption a call relies on files only, wherever it goes.
LEMMA PastConsumption ==
    ASSUME NEW t \in Threads, CallOK(t), pc[t] \in ConsumedPC, pc'[t] \in ConsumedPC,
           UNCHANGED <<ledgerVars, apprVars>>,
           job'[t].inst = job[t].inst, job'[t].plan = job[t].plan, job'[t].appr = job[t].appr
    PROVE  CallOK(t)'
<1>1. pc[t] \in ReservedPC /\ pc'[t] \in ReservedPC /\ pc[t] \in ExecutePC
      /\ pc'[t] \in ExecutePC
      /\ pc'[t] \notin {"withdrawPersist", "reservePersist", "consumePersist", "consuming"}
  BY DEF ConsumedPC, ReservedPC, ExecutePC, PC
<1> QED  BY <1>1 DEF CallOK, ledgerVars, apprVars

\* Opening the approval store: whoever finds the lock free finds no call running.
LEMMA OpenApprovalsAccount ==
    ASSUME TypeOK, CallInv, ApprovalInv, NEW i \in Instances, OpenApprovals(i)
    PROVE  ApprovalInv'
<1>0. /\ startup[i] = "down" /\ startup' = [startup EXCEPT ![i] = "ledger"]
      /\ UNCHANGED <<ledgerMem, ledgerDisk, apprDisk, pc, job, spawns, spawnedWith, withdrawn>>
  BY DEF OpenApprovals, ledgerVars, callVars, historyVars
<1>1. \A k \in Instances : startup'[k] = IF k = i THEN "ledger" ELSE startup[k]
  BY <1>0 DEF TypeOK
<1>2. FilesGrow /\ \A k \in Instances : PlansGrow(k)
  BY <1>0 DEF FilesGrow, PlansGrow
<1>3. SpawnsOK' /\ WithdrawalHolds'
  BY <1>0, <1>2, KeepSpawns, KeepWithdrawals DEF ApprovalInv
<1>4. CASE Acquire(i, "approvals") /\ apprMem' = [apprMem EXCEPT ![i] = apprDisk]
  <2>1. /\ lock["approvals"] = None /\ lock'["approvals"] = i /\ lock'["ledger"] = lock["ledger"]
        /\ UNCHANGED degraded
    BY <1>4 DEF Acquire, TypeOK, Stores
  <2>2. \A k \in Instances : apprMem'[k] = IF k = i THEN apprDisk ELSE apprMem[k]
    BY <1>4 DEF TypeOK
  <2>3. \A u \in Threads : pc[u] = "idle"
    BY <2>1 DEF CallInv, JobOK, ApprovalInv, ApprovalOwnerOK
  <2>4. CallsOK'
    BY <1>0, <2>3, NoReliance DEF CallsOK
  <2>5. \A k \in Instances : startup[k] \in {"ledger", "receipts", "up"} => "approvals" \in degraded[k]
    BY <2>1 DEF ApprovalInv, ApprovalOwnerOK
  <2>6. ApprovalOwnerOK'
    BY <1>0, <1>1, <2>1, <2>3, <2>5 DEF ApprovalOwnerOK
  <2>7. ApprovalsCovered' /\ ReservationsCovered'
    BY <1>0, <2>1, <2>2 DEF ApprovalInv, ApprovalsCovered, ReservationsCovered
  <2>8. GrantsOK'
    <3>1. OneLiveGrant(apprDisk)
      BY DEF ApprovalInv, GrantsOK, OneLiveGrantPerPlan, OneLiveGrant
    <3>2. ASSUME NEW k \in Instances PROVE OneLiveGrant(apprMem'[k])
      BY <2>2, <3>1 DEF ApprovalInv, GrantsOK
    <3> QED  BY <1>0, <3>2 DEF ApprovalInv, GrantsOK, OneLiveGrantPerPlan
  <2> QED  BY <1>3, <2>4, <2>6, <2>7, <2>8 DEF ApprovalInv
<1>5. CASE OpensDegraded(i, "approvals") /\ UNCHANGED apprMem
  <2>1. UNCHANGED lock /\ \A k \in Instances :
            degraded'[k] = IF k = i THEN degraded[k] \cup {"approvals"} ELSE degraded[k]
    BY <1>5 DEF OpensDegraded, TypeOK
  <2>2. /\ \A k \in Instances : RecordsGrow(k)
        /\ ApprovalsCovered' /\ ReservationsCovered' /\ GrantsOK'
    BY <1>0, <1>5, <2>1, NothingStored DEF ledgerVars, apprVars
  <2>3. CallsOK'
    BY <1>0, <1>2, <2>2, KeepCall DEF ApprovalInv, CallsOK, CallInv, JobOK, ExecutePC
  <2>4. ApprovalOwnerOK'
    BY <1>0, <1>1, <2>1 DEF ApprovalInv, ApprovalOwnerOK
  <2> QED  BY <1>3, <2>2, <2>3, <2>4 DEF ApprovalInv
<1> QED  BY <1>4, <1>5 DEF OpenApprovals

\* Opening the ledger: whoever finds its lock free finds no execution running.
LEMMA OpenLedgerAccount ==
    ASSUME TypeOK, CallInv, ApprovalInv, NEW i \in Instances, OpenLedger(i)
    PROVE  ApprovalInv'
<1>0. /\ startup[i] = "ledger" /\ startup' = [startup EXCEPT ![i] = "receipts"]
      /\ UNCHANGED <<ledgerDisk, apprMem, apprDisk, pc, job, spawns, spawnedWith, withdrawn>>
  BY DEF OpenLedger, apprVars, callVars, historyVars
<1>1. \A k \in Instances : startup'[k] = IF k = i THEN "receipts" ELSE startup[k]
  BY <1>0 DEF TypeOK
<1>2. FilesGrow /\ \A k \in Instances : RecordsGrow(k)
  BY <1>0 DEF FilesGrow, RecordsGrow
<1>3. SpawnsOK' /\ WithdrawalHolds' /\ GrantsOK'
  BY <1>0, <1>2, KeepSpawns, KeepWithdrawals DEF ApprovalInv, GrantsOK, OneLiveGrantPerPlan, OneLiveGrant
<1>4. lock'["approvals"] = lock["approvals"]
      /\ \A k \in Instances : "approvals" \in degraded'[k] <=> "approvals" \in degraded[k]
  <2>1. CASE Acquire(i, "ledger")
    BY <2>1 DEF Acquire, TypeOK, Stores
  <2>2. CASE OpensDegraded(i, "ledger")
    <3>1. \A k \in Instances :
              degraded'[k] = IF k = i THEN degraded[k] \cup {"ledger"} ELSE degraded[k]
      BY <2>2 DEF OpensDegraded, TypeOK
    <3> QED  BY <2>2, <3>1 DEF OpensDegraded
  <2> QED  BY <2>1, <2>2 DEF OpenLedger
<1>5. ApprovalOwnerOK' /\ ApprovalsCovered'
  BY <1>0, <1>1, <1>4 DEF ApprovalInv, ApprovalOwnerOK, ApprovalsCovered
<1>6. CASE Acquire(i, "ledger") /\ ledgerMem' = [ledgerMem EXCEPT ![i] = ledgerDisk]
  <2>1. lock["ledger"] = None /\ lock'["ledger"] = i
    BY <1>6 DEF Acquire, TypeOK, Stores
  <2>2. \A k \in Instances : ledgerMem'[k] = IF k = i THEN ledgerDisk ELSE ledgerMem[k]
    BY <1>6 DEF TypeOK
  <2>3. \A u \in Threads : pc[u] \notin ExecutePC
    BY <2>1 DEF CallInv, OwnerOK, JobOK, ExecutePC
  <2>4. CallsOK'
    BY <1>0, <1>2, <2>3, KeepCall DEF ApprovalInv, CallsOK, CallInv, JobOK
  <2>5. ReservationsCovered'
    BY <1>0, <2>1, <2>2 DEF ReservationsCovered
  <2> QED  BY <1>3, <1>5, <2>4, <2>5 DEF ApprovalInv
<1>7. CASE OpensDegraded(i, "ledger") /\ UNCHANGED ledgerMem
  <2>1. (\A k \in Instances : PlansGrow(k)) /\ ReservationsCovered'
    BY <1>0, <1>7 DEF OpensDegraded, PlansGrow, ApprovalInv, ReservationsCovered
  <2>2. CallsOK'
    BY <1>0, <1>2, <2>1, KeepCall DEF ApprovalInv, CallsOK, CallInv, JobOK, ExecutePC
  <2> QED  BY <1>3, <1>5, <2>1, <2>2 DEF ApprovalInv
<1> QED  BY <1>6, <1>7 DEF OpenLedger

LEMMA OpenReceiptsAccount ==
    ASSUME TypeOK, CallInv, ApprovalInv, NEW i \in Instances, OpenReceipts(i)
    PROVE  ApprovalInv'
<1>0. /\ startup[i] = "receipts" /\ startup' = [startup EXCEPT ![i] = "up"]
      /\ UNCHANGED <<ledgerMem, ledgerDisk, apprMem, apprDisk, pc, job, spawns, spawnedWith, withdrawn>>
  BY DEF OpenReceipts, ledgerVars, apprVars, callVars, historyVars
<1>1. \A k \in Instances : startup'[k] = IF k = i THEN "up" ELSE startup[k]
  BY <1>0 DEF TypeOK
<1>2. FilesGrow /\ \A k \in Instances : RecordsGrow(k) /\ PlansGrow(k)
  BY <1>0 DEF FilesGrow, RecordsGrow, PlansGrow
<1>3. SpawnsOK' /\ WithdrawalHolds' /\ GrantsOK'
  BY <1>0, <1>2, KeepSpawns, KeepWithdrawals DEF ApprovalInv, GrantsOK, OneLiveGrantPerPlan, OneLiveGrant
<1>4. /\ lock'["approvals"] = lock["approvals"] /\ lock'["ledger"] = lock["ledger"]
      /\ \A k \in Instances : "approvals" \in degraded'[k] <=> "approvals" \in degraded[k]
  <2>1. CASE Acquire(i, "receipts")
    BY <2>1 DEF Acquire, TypeOK, Stores
  <2>2. CASE OpensDegraded(i, "receipts")
    <3>1. \A k \in Instances :
              degraded'[k] = IF k = i THEN degraded[k] \cup {"receipts"} ELSE degraded[k]
      BY <2>2 DEF OpensDegraded, TypeOK
    <3> QED  BY <2>2, <3>1 DEF OpensDegraded
  <2> QED  BY <2>1, <2>2 DEF OpenReceipts
<1>5. ApprovalOwnerOK' /\ ApprovalsCovered' /\ ReservationsCovered'
  BY <1>0, <1>1, <1>4 DEF ApprovalInv, ApprovalOwnerOK, ApprovalsCovered, ReservationsCovered
<1>6. CallsOK'
  BY <1>0, <1>2, KeepCall DEF ApprovalInv, CallsOK, CallInv, JobOK, ExecutePC
<1> QED  BY <1>3, <1>5, <1>6 DEF ApprovalInv

\* A crash takes the calls and the memory of its process and leaves the files.
LEMMA CrashAccount ==
    ASSUME TypeOK, CallInv, ApprovalInv, NEW i \in Instances, Crash(i)
    PROVE  ApprovalInv'
<1>0. /\ startup' = [startup EXCEPT ![i] = "down"]
      /\ UNCHANGED <<ledgerDisk, apprDisk, spawns, spawnedWith, withdrawn>>
  BY DEF Crash, historyVars
<1>1. \A s \in Stores : lock'[s] = IF lock[s] = i THEN None ELSE lock[s]
  BY DEF Crash
<1>2. \A k \in Instances :
          /\ startup'[k] = IF k = i THEN "down" ELSE startup[k]
          /\ k # i => apprMem'[k] = apprMem[k] /\ ledgerMem'[k] = ledgerMem[k]
                      /\ degraded'[k] = degraded[k]
          /\ k = i => apprMem'[k] = EmptyApprovals
  BY DEF Crash, TypeOK
<1>3. \A u \in Threads :
          /\ job[u].inst = i => pc'[u] = "idle"
          /\ job[u].inst # i => pc'[u] = pc[u] /\ job'[u] = job[u]
  BY DEF Crash
<1>4. FilesGrow /\ \A k \in Instances : k # i => RecordsGrow(k) /\ PlansGrow(k)
  BY <1>0, <1>2 DEF FilesGrow, RecordsGrow, PlansGrow
<1>5. SpawnsOK' /\ WithdrawalHolds'
  BY <1>0, <1>4, KeepSpawns, KeepWithdrawals DEF ApprovalInv
<1>6. GrantsOK'
  <2>1. OneLiveGrant(EmptyApprovals)
    BY DEF OneLiveGrant, EmptyApprovals, NoRecord
  <2>2. ASSUME NEW k \in Instances PROVE OneLiveGrant(apprMem'[k])
    BY <1>2, <2>1 DEF ApprovalInv, GrantsOK
  <2> QED  BY <1>0, <2>2 DEF ApprovalInv, GrantsOK, OneLiveGrantPerPlan
<1>7. "approvals" \in Stores /\ "ledger" \in Stores
  BY DEF Stores
<1>8. ApprovalOwnerOK'
  BY <1>1, <1>2, <1>3, <1>7 DEF ApprovalInv, ApprovalOwnerOK
<1>9. ApprovalsCovered' /\ ReservationsCovered'
  <2>1. \A k \in Instances, s \in Stores : lock'[s] = k => k # i /\ lock[s] = k
    BY <1>1
  <2> QED  BY <1>0, <1>2, <1>7, <2>1 DEF ApprovalInv, ApprovalsCovered, ReservationsCovered
<1>10. ASSUME NEW u \in Threads PROVE CallOK(u)'
  <2>1. CASE job[u].inst = i
    BY <1>3, <2>1, NoReliance
  <2>2. CASE job[u].inst # i
    BY <1>3, <1>4, <2>2, KeepCall DEF ApprovalInv, CallsOK, CallInv, JobOK, ExecutePC
  <2> QED  BY <2>1, <2>2
<1> QED  BY <1>5, <1>6, <1>8, <1>9, <1>10 DEF ApprovalInv, CallsOK

\* The receipt's steps and what follows them: records and ledger stay.
LEMMA ReceiptStepAccount ==
    ASSUME TypeOK, CallInv, ApprovalInv, NEW t \in Threads, NEW l \in ConsumedPC, NEW j,
           pc[t] \in ConsumedPC,
           pc' = [pc EXCEPT ![t] = l], job' = [job EXCEPT ![t] = j],
           j.inst = job[t].inst, j.plan = job[t].plan, j.appr = job[t].appr,
           UNCHANGED <<startup, lock, ledgerVars, apprVars, spawns, spawnedWith, withdrawn>>,
           \A i \in Instances : "approvals" \in degraded[i] => "approvals" \in degraded'[i]
    PROVE  ApprovalInv'
<1>1. pc'[t] = l /\ job'[t] = j
  BY DEF TypeOK
<1>2. CallOK(t)'
  BY <1>1, PastConsumption DEF ApprovalInv, CallsOK
<1>3. lock["approvals"] = j.inst
  BY DEF ApprovalInv, ApprovalOwnerOK, ConsumedPC
<1> QED  BY <1>2, <1>3, NothingStored, CallMoves

\* Every way a call ends without creating a process or completing a withdrawal.
LEMMA ReturnAccount ==
    ASSUME TypeOK, CallInv, ApprovalInv, NEW t \in Threads, Return(t),
           UNCHANGED <<startup, lock, ledgerMem, apprMem, spawns, spawnedWith, withdrawn>>,
           \A i \in Instances : "approvals" \in degraded[i] => "approvals" \in degraded'[i],
           UNCHANGED ledgerDisk,
           UNCHANGED apprDisk \/ (pc[t] # "idle" /\ apprDisk' = apprMem[job[t].inst])
    PROVE  ApprovalInv'
<1>1. pc' = [pc EXCEPT ![t] = "idle"] /\ job' = [job EXCEPT ![t] = NoJob] /\ pc'[t] = "idle"
  BY DEF Return, TypeOK
<1>2. CallOK(t)'
  BY <1>1, NoReliance
<1>3. CASE UNCHANGED apprDisk
  BY <1>1, <1>2, <1>3, NothingStored, CallMoves DEF ledgerVars, apprVars
<1>4. CASE pc[t] # "idle" /\ apprDisk' = apprMem[job[t].inst]
  <2> DEFINE i == job[t].inst
  <2>1. i \in Instances /\ lock["approvals"] = i
    BY <1>4 DEF CallInv, JobOK, ApprovalInv, ApprovalOwnerOK
  <2>2. /\ \A k \in Instances : RecordsGrow(k) /\ PlansGrow(k)
        /\ FilesGrow /\ ApprovalsCovered' /\ ReservationsCovered' /\ GrantsOK'
    BY <1>4, <2>1, RecordsWritten DEF ledgerVars
  <2> QED  BY <1>1, <1>2, <2>2, CallMoves
<1> QED  BY <1>3, <1>4

LEMMA MarkReceiptAccount ==
    ASSUME TypeOK, CallInv, ApprovalInv, NEW t \in Threads, NEW to, NEW then,
           pc[t] \in ConsumedPC, MarkReceipt(t, to, then), ReceiptUnchanged
    PROVE  ApprovalInv'
<1>0. UNCHANGED <<startup, lock, degraded, ledgerMem, ledgerDisk, apprMem, apprDisk, spawns,
                  spawnedWith, withdrawn>>
  BY DEF ReceiptUnchanged, hostVars, ledgerVars, apprVars, historyVars
<1>1. CASE Return(t)
  BY <1>0, <1>1, ReturnAccount
<1>2. CASE /\ pc' = [pc EXCEPT ![t] = "receiptSnapshot"]
           /\ job' = [job EXCEPT ![t].then = then]
  <2> DEFINE j == [job[t] EXCEPT !.then = then]
  <2>1. /\ job' = [job EXCEPT ![t] = j]
        /\ j.inst = job[t].inst /\ j.plan = job[t].plan /\ j.appr = job[t].appr
    BY <1>2 DEF TypeOK, Job
  <2>2. "receiptSnapshot" \in ConsumedPC
    BY DEF ConsumedPC
  <2> HIDE DEF j
  <2> QED  BY <1>0, <1>2, <2>1, <2>2, ReceiptStepAccount DEF ledgerVars, apprVars
<1> QED  BY <1>1, <1>2 DEF MarkReceipt

LEMMA SnapshotAccount ==
    ASSUME TypeOK, CallInv, ApprovalInv, NEW t \in Threads, SnapshotReceipts(t)
    PROVE  ApprovalInv'
<1>1. /\ pc' = [pc EXCEPT ![t] = "receiptWrite"] /\ job' = [job EXCEPT ![t] = job[t]]
      /\ "receiptWrite" \in ConsumedPC /\ pc[t] \in ConsumedPC
  BY DEF SnapshotReceipts, ConsumedPC, TypeOK
<1>2. UNCHANGED <<startup, lock, degraded, ledgerVars, apprVars, spawns, spawnedWith, withdrawn>>
  BY DEF SnapshotReceipts, hostVars, historyVars
<1> QED  BY <1>1, <1>2, ReceiptStepAccount

LEMMA WriteReceiptsAccount ==
    ASSUME TypeOK, CallInv, ApprovalInv, NEW t \in Threads, WriteReceipts(t)
    PROVE  ApprovalInv'
<1>0. /\ pc[t] \in ConsumedPC
      /\ UNCHANGED <<startup, lock, ledgerMem, ledgerDisk, apprMem, apprDisk, spawns, spawnedWith,
                     withdrawn>>
  BY DEF WriteReceipts, ConsumedPC, ledgerVars, apprVars, historyVars
<1>1. CASE /\ pc' = [pc EXCEPT ![t] = job[t].then]
           /\ job' = [job EXCEPT ![t] = IF job[t].then = "idle" THEN NoJob ELSE @]
           /\ snap' = [snap EXCEPT ![t] = NoReceipts]
           /\ UNCHANGED degraded
  <2>1. CASE job[t].then = "idle"
    BY <1>0, <1>1, <2>1, ReturnAccount DEF Return
  <2>2. CASE job[t].then # "idle"
    <3>1. job[t].then \in ConsumedPC
      BY <2>2 DEF CallInv, JobOK, ConsumedPC
    <3>2. job' = [job EXCEPT ![t] = job[t]]
      BY <1>1, <2>2
    <3> QED  BY <1>0, <1>1, <3>1, <3>2, ReceiptStepAccount DEF ledgerVars, apprVars
  <2> QED  BY <2>1, <2>2
<1>2. CASE /\ degraded' = [degraded EXCEPT ![job[t].inst] = @ \cup {"receipts"}]
           /\ Return(t)
  <2>1. \A k \in Instances : degraded'[k] =
            IF k = job[t].inst THEN degraded[k] \cup {"receipts"} ELSE degraded[k]
    BY <1>2 DEF TypeOK
  <2> QED  BY <1>0, <1>2, <2>1, ReturnAccount
<1> QED  BY <1>1, <1>2 DEF WriteReceipts

\* A call that begins: what Begin changes.
LEMMA BeginShape ==
    ASSUME TypeOK, NEW t \in Threads, NEW i \in Instances, NEW p, NEW a, NEW l,
           Begin(t, i, p, a, l)
    PROVE  \E j : /\ j.inst = i /\ j.plan = p /\ j.appr = a
                  /\ pc' = [pc EXCEPT ![t] = l] /\ job' = [job EXCEPT ![t] = j]
                  /\ pc'[t] = l /\ job'[t] = j
<1> DEFINE j == [inst |-> i, plan |-> p, appr |-> a, then |-> "idle"]
<1>1. j.inst = i /\ j.plan = p /\ j.appr = a
  OBVIOUS
<1>2. pc' = [pc EXCEPT ![t] = l] /\ job' = [job EXCEPT ![t] = j]
  BY DEF Begin
<1> HIDE DEF j
<1>3. pc'[t] = l /\ job'[t] = j
  BY <1>2 DEF TypeOK
<1> QED  BY <1>1, <1>2, <1>3

LEMMA GrantAccount ==
    ASSUME TypeOK, CallInv, ApprovalInv, NEW t \in Threads, NEW i \in Instances, NEW p \in Plans,
           NEW a \in Approvals, NEW e \in 1..MaxTime, Grant(t, i, p, a, e)
    PROVE  ApprovalInv'
<1> DEFINE r == [status |-> "granted", plan |-> p, expires |-> e]
<1>1. /\ r \in ApprovalRecord /\ r.plan = p /\ r.status = "granted"
      /\ apprMem' = [apprMem EXCEPT ![i][a] = r]
      /\ \A b \in Approvals : ~(apprMem[i][b].plan = p /\ apprMem[i][b].status = "granted")
      /\ UNCHANGED <<lock, ledgerVars, apprDisk>>
      /\ UNCHANGED <<startup, degraded, spawns, spawnedWith, withdrawn>>
  BY DEF Grant, ApprovalRecord, ApprovalStatus, hostVars, historyVars
<1>2. apprMem[i][a].status = "absent" /\ apprMem[i][a].status \notin Refused
  BY DEF Grant, NoRecord, Refused
<1> HIDE DEF r
<1>3. /\ \A k \in Instances : RecordsGrow(k) /\ PlansGrow(k)
      /\ FilesGrow /\ ApprovalsCovered' /\ ReservationsCovered' /\ GrantsOK'
  <2>1. \A b \in Approvals : ~(apprMem[i][b].plan = r.plan /\ apprMem[i][b].status = "granted")
    BY <1>1
  <2>2. /\ apprMem[i][a].status # "absent" => r.status # "absent" /\ r.plan = apprMem[i][a].plan
        /\ apprMem[i][a].status = "consumed" => r.status = "consumed"
        /\ apprMem[i][a].status \in Refused => r.status \in Refused
    BY <1>2
  <2>3. r \in ApprovalRecord /\ apprMem' = [apprMem EXCEPT ![i][a] = r]
        /\ UNCHANGED <<lock, ledgerVars, apprDisk>>
    BY <1>1
  <2> QED  BY <2>1, <2>2, <2>3, RecordChanged
<1>4. lock["approvals"] = i
  BY DEF Grant, Begin, ApprovalInv, ApprovalOwnerOK
<1>5. PICK j : /\ j.inst = i /\ pc'[t] = "grantPersist"
               /\ pc' = [pc EXCEPT ![t] = "grantPersist"] /\ job' = [job EXCEPT ![t] = j]
  BY BeginShape DEF Grant
<1>6. CallOK(t)'
  BY <1>5, NoReliance
<1> QED  BY <1>1, <1>3, <1>4, <1>5, <1>6, CallMoves

LEMMA WithStatusIs ==
    ASSUME NEW r \in ApprovalRecord, r.status # "absent", NEW s \in ApprovalStatus
    PROVE  /\ WithStatus(r, s) \in ApprovalRecord
           /\ WithStatus(r, s).status = s /\ WithStatus(r, s).plan = r.plan
  BY DEF WithStatus, ApprovalRecord, NoRecord

LEMMA WithdrawAccount ==
    ASSUME TypeOK, CallInv, ApprovalInv, NEW t \in Threads, NEW i \in Instances,
           NEW a \in Approvals, NEW s \in {"denied", "revoked"}, Withdraw(t, i, a, s)
    PROVE  ApprovalInv'
<1> DEFINE r == WithStatus(apprMem[i][a], s)
<1>1. /\ apprMem' = [apprMem EXCEPT ![i][a] = r]
      /\ apprMem[i][a].status \notin {"absent", "consumed"}
      /\ UNCHANGED <<startup, lock, degraded, ledgerVars, apprDisk, spawns, spawnedWith, withdrawn>>
  BY DEF Withdraw, hostVars, historyVars
<1>2. r \in ApprovalRecord /\ r.status = s /\ r.plan = apprMem[i][a].plan
  <2>1. apprMem[i][a] \in ApprovalRecord /\ s \in ApprovalStatus
        /\ apprMem[i][a].status # "absent"
    BY <1>1 DEF TypeOK, ApprovalStatus
  <2> QED  BY <2>1, WithStatusIs
<1> HIDE DEF r
<1>3. /\ \A k \in Instances : RecordsGrow(k) /\ PlansGrow(k)
      /\ FilesGrow /\ ApprovalsCovered' /\ ReservationsCovered' /\ GrantsOK'
  BY <1>1, <1>2, RecordChanged DEF Refused
<1>4. lock["approvals"] = i
  BY DEF Withdraw, Begin, ApprovalInv, ApprovalOwnerOK
<1>5. PICK j : /\ j.inst = i /\ j.appr = a /\ pc'[t] = "withdrawPersist" /\ job'[t] = j
               /\ pc' = [pc EXCEPT ![t] = "withdrawPersist"] /\ job' = [job EXCEPT ![t] = j]
  BY BeginShape DEF Withdraw
<1>6. apprMem'[i][a] = r
  BY <1>1 DEF TypeOK
<1>7. CallOK(t)'
  BY <1>2, <1>5, <1>6 DEF CallOK, Refused, ExecutePC, ReservedPC, ConsumedPC
<1> QED  BY <1>1, <1>3, <1>4, <1>5, <1>7, CallMoves

LEMMA ExecuteAccount ==
    ASSUME TypeOK, CallInv, ApprovalInv, NEW t \in Threads, NEW i \in Instances, NEW p \in Plans,
           NEW a \in Approvals \cup {None}, Execute(t, i, p, a)
    PROVE  ApprovalInv'
<1>1. UNCHANGED <<startup, lock, degraded, ledgerVars, apprVars, spawns, spawnedWith, withdrawn>>
  BY DEF Execute, hostVars, historyVars
<1>2. lock["approvals"] = i
  BY DEF Execute, Begin, ApprovalInv, ApprovalOwnerOK
<1>3. PICK j : /\ j.inst = i /\ j.plan = p /\ j.appr = a /\ pc'[t] = "accepting" /\ job'[t] = j
               /\ pc' = [pc EXCEPT ![t] = "accepting"] /\ job' = [job EXCEPT ![t] = j]
  BY BeginShape DEF Execute
<1>4. /\ p \in Guarded => a \in Approvals /\ apprMem[i][a].plan = p
                          /\ apprMem[i][a].status # "absent"
      /\ p \notin Guarded => a = None
  BY DEF Execute, Verifies
<1>5. CallOK(t)'
  BY <1>1, <1>3, <1>4 DEF CallOK, ReservedPC, ConsumedPC, apprVars
<1> QED  BY <1>1, <1>2, <1>3, <1>5, NothingStored, CallMoves

\* A withdrawal is on disk once its call returned Ok, and nothing was spawned with it:
\* the file would say "consumed", and so would the memory this call changed.
LEMMA PersistWithdrawAccount ==
    ASSUME TypeOK, CallInv, ApprovalInv, NEW t \in Threads, PersistWithdraw(t)
    PROVE  ApprovalInv'
<1> DEFINE i == job[t].inst
           a == job[t].appr
<1>0. /\ pc[t] = "withdrawPersist" /\ Return(t)
      /\ UNCHANGED <<startup, lock, degraded, ledgerMem, ledgerDisk, apprMem, spawns, spawnedWith>>
  BY DEF PersistWithdraw, hostVars, ledgerVars
<1>1. i \in Instances /\ a \in Approvals /\ lock["approvals"] = i
      /\ apprMem[i][a].status \in Refused
  BY <1>0 DEF CallInv, JobOK, ApprovalInv, ApprovalOwnerOK, CallsOK, CallOK
<1>2. CASE UNCHANGED <<apprDisk, withdrawn>>
  BY <1>0, <1>2, ReturnAccount
<1>3. CASE apprDisk' = apprMem[i] /\ withdrawn' = withdrawn \cup {a}
  <2>1. pc' = [pc EXCEPT ![t] = "idle"] /\ job' = [job EXCEPT ![t] = NoJob] /\ pc'[t] = "idle"
    BY <1>0 DEF Return, TypeOK
  <2>2. /\ \A k \in Instances : RecordsGrow(k) /\ PlansGrow(k)
        /\ FilesGrow /\ ApprovalsCovered' /\ ReservationsCovered' /\ GrantsOK'
    BY <1>0, <1>1, <1>3, RecordsWritten DEF ledgerVars
  <2>3. ApprovalOwnerOK' /\ CallsOK'
    BY <1>0, <2>1, <2>2, NoReliance, OneCall
  <2>4. SpawnsOK'
    BY <1>0, <2>2, KeepSpawns DEF ApprovalInv
  <2>5. apprDisk[a].status # "consumed"
    BY <1>1 DEF ApprovalInv, ApprovalsCovered, Refused
  <2>6. \A p \in Plans : spawnedWith[p] # a
    BY <1>1, <2>5 DEF ApprovalInv, SpawnsOK
  <2>7. apprDisk'[a].status \in {"denied", "revoked"}
    BY <1>1, <1>3 DEF Refused
  <2>8. \A b \in withdrawn : apprDisk'[b].status \in {"denied", "revoked"}
    BY <2>2 DEF ApprovalInv, WithdrawalHolds, FilesGrow, Refused, TypeOK
  <2>9. \A b \in withdrawn, p \in Plans : spawnedWith[p] # b
    BY DEF ApprovalInv, WithdrawalHolds
  <2>10. WithdrawalHolds'
    BY <1>0, <1>3, <2>6, <2>7, <2>8, <2>9 DEF WithdrawalHolds
  <2> QED  BY <2>2, <2>3, <2>4, <2>10 DEF ApprovalInv
<1> QED  BY <1>2, <1>3 DEF PersistWithdraw

LEMMA AcceptAccount ==
    ASSUME TypeOK, CallInv, ApprovalInv, NEW t \in Threads, Accept(t)
    PROVE  ApprovalInv'
<1> DEFINE i == job[t].inst
           p == job[t].plan
<1>0. /\ pc[t] = "accepting"
      /\ UNCHANGED <<startup, lock, degraded, ledgerDisk, apprMem, apprDisk, spawns, spawnedWith,
                     withdrawn>>
  BY DEF Accept, hostVars, apprVars, historyVars
<1>1. i \in Instances /\ p \in Plans /\ lock["approvals"] = i /\ pc[t] \in ExecutePC
  BY <1>0 DEF CallInv, JobOK, ExecutePC, PC, ApprovalInv, ApprovalOwnerOK
<1>2. CASE Return(t) /\ UNCHANGED ledgerMem
  BY <1>0, <1>2, ReturnAccount
<1>3. CASE /\ ledgerMem[i][p] = "absent"
           /\ ledgerMem' = [ledgerMem EXCEPT ![i][p] = "accepted"]
           /\ Goto(t, "acceptPersist")
  <2>1. /\ pc' = [pc EXCEPT ![t] = "acceptPersist"] /\ job' = [job EXCEPT ![t] = job[t]]
        /\ pc'[t] = "acceptPersist" /\ job'[t] = job[t]
    BY <1>3 DEF Goto, TypeOK
  <2>2. /\ \A k \in Instances : RecordsGrow(k) /\ PlansGrow(k)
        /\ FilesGrow /\ ApprovalsCovered' /\ ReservationsCovered' /\ GrantsOK'
    BY <1>0, <1>1, <1>3, PlanMoved DEF apprVars
  <2>3. CallOK(t)'
    BY <1>0, <1>1, <2>1 DEF ApprovalInv, CallsOK, CallOK, ReservedPC, ConsumedPC
  <2> QED  BY <1>0, <1>1, <2>1, <2>2, <2>3, CallMoves
<1> QED  BY <1>2, <1>3 DEF Accept

LEMMA ReserveAccount ==
    ASSUME TypeOK, CallInv, ApprovalInv, NEW t \in Threads, Reserve(t)
    PROVE  ApprovalInv'
<1> DEFINE i == job[t].inst
           p == job[t].plan
<1>0. /\ pc[t] = "reserving" /\ Goto(t, "reservePersist")
      /\ ledgerMem' = [ledgerMem EXCEPT ![i][p] = "reserved"]
      /\ UNCHANGED <<startup, lock, degraded, ledgerDisk, apprMem, apprDisk, spawns, spawnedWith,
                     withdrawn>>
  BY DEF Reserve, hostVars, apprVars, historyVars
<1>1. i \in Instances /\ p \in Plans /\ lock["approvals"] = i /\ pc[t] \in ExecutePC
  BY <1>0 DEF CallInv, JobOK, ExecutePC, PC, ApprovalInv, ApprovalOwnerOK
<1>2. /\ pc' = [pc EXCEPT ![t] = "reservePersist"] /\ job' = [job EXCEPT ![t] = job[t]]
      /\ pc'[t] = "reservePersist" /\ job'[t] = job[t] /\ ledgerMem'[i][p] = "reserved"
  BY <1>0, <1>1 DEF Goto, TypeOK
<1>3. /\ \A k \in Instances : RecordsGrow(k) /\ PlansGrow(k)
      /\ FilesGrow /\ ApprovalsCovered' /\ ReservationsCovered' /\ GrantsOK'
  BY <1>0, <1>1, PlanMoved DEF apprVars
<1>4. CallOK(t)'
  BY <1>0, <1>1, <1>2 DEF ApprovalInv, CallsOK, CallOK, ReservedPC, ConsumedPC
<1> QED  BY <1>0, <1>1, <1>2, <1>3, <1>4, CallMoves

LEMMA PersistLedgerAccount ==
    ASSUME TypeOK, CallInv, ApprovalInv, NEW t \in Threads, NEW from, NEW next,
           PersistLedger(t, from, next),
           \/ from = "acceptPersist" /\ next = "reserving"
           \/ /\ from = "reservePersist"
              /\ next = IF job[t].plan \in Guarded THEN "consuming" ELSE "inserting"
    PROVE  ApprovalInv'
<1> DEFINE i == job[t].inst
           p == job[t].plan
<1>0. /\ pc[t] = from
      /\ UNCHANGED <<startup, lock, degraded, ledgerMem, apprMem, apprDisk, spawns, spawnedWith,
                     withdrawn>>
  BY DEF PersistLedger, hostVars, apprVars, historyVars
<1>1. i \in Instances /\ p \in Plans /\ lock["approvals"] = i /\ pc[t] \in ExecutePC
  BY <1>0 DEF CallInv, JobOK, ExecutePC, PC, ApprovalInv, ApprovalOwnerOK
<1>2. CASE Return(t) /\ UNCHANGED ledgerDisk
  BY <1>0, <1>2, ReturnAccount
<1>3. CASE ledgerDisk' = ledgerMem[i] /\ Goto(t, next)
  <2>1. /\ pc' = [pc EXCEPT ![t] = next] /\ job' = [job EXCEPT ![t] = job[t]]
        /\ pc'[t] = next /\ job'[t] = job[t]
    BY <1>3 DEF Goto, TypeOK
  <2>2. /\ \A k \in Instances : RecordsGrow(k) /\ PlansGrow(k)
        /\ FilesGrow /\ ApprovalsCovered' /\ ReservationsCovered' /\ GrantsOK'
    BY <1>0, <1>1, <1>3, LedgerWritten DEF apprVars
  <2>3. CallOK(t)
    BY DEF ApprovalInv, CallsOK
  <2>4. CallOK(t)'
    <3>1. CASE next = "reserving"
      BY <1>0, <1>1, <2>1, <2>3, <3>1 DEF CallOK, ReservedPC, ConsumedPC
    <3>2. CASE next = "consuming" /\ p \in Guarded /\ from = "reservePersist"
      BY <1>0, <1>1, <1>3, <2>1, <2>3, <3>2 DEF CallOK, ReservedPC, ConsumedPC
    <3>3. CASE next = "inserting" /\ p \notin Guarded /\ from = "reservePersist"
      BY <1>0, <1>1, <1>3, <2>1, <2>3, <3>3 DEF CallOK, ReservedPC, ConsumedPC
    <3> QED  BY <3>1, <3>2, <3>3
  <2> QED  BY <1>0, <1>1, <2>1, <2>2, <2>4, CallMoves
<1> QED  BY <1>2, <1>3 DEF PersistLedger

\* consume_if_granted looks at the record itself: what the call verified may be gone.
LEMMA ConsumeAccount ==
    ASSUME TypeOK, CallInv, ApprovalInv, NEW t \in Threads, Consume(t)
    PROVE  ApprovalInv'
<1> DEFINE i == job[t].inst
           p == job[t].plan
           a == job[t].appr
           r == WithStatus(apprMem[i][a], "consumed")
<1>0. /\ pc[t] = "consuming"
      /\ UNCHANGED <<startup, lock, degraded, ledgerMem, ledgerDisk, apprDisk, spawns, spawnedWith,
                     withdrawn>>
  BY DEF Consume, hostVars, ledgerVars, historyVars
<1>1. i \in Instances /\ p \in Plans /\ lock["approvals"] = i /\ pc[t] \in ExecutePC
  BY <1>0 DEF CallInv, JobOK, ExecutePC, PC, ApprovalInv, ApprovalOwnerOK
<1>2. /\ p \in Guarded /\ a \in Approvals /\ apprMem[i][a].plan = p
      /\ ledgerDisk[p] = "reserved"
  BY <1>0, <1>1 DEF ApprovalInv, CallsOK, CallOK, ReservedPC
<1>3. CASE Return(t) /\ UNCHANGED apprMem
  BY <1>0, <1>3, ReturnAccount
<1>4. CASE /\ apprMem[i][a].status = "granted"
           /\ apprMem' = [apprMem EXCEPT ![i][a] = r]
           /\ Goto(t, "consumePersist")
  <2>1. /\ pc' = [pc EXCEPT ![t] = "consumePersist"] /\ job' = [job EXCEPT ![t] = job[t]]
        /\ pc'[t] = "consumePersist" /\ job'[t] = job[t]
    BY <1>4 DEF Goto, TypeOK
  <2>2. r \in ApprovalRecord /\ r.status = "consumed" /\ r.plan = p
    <3>1. apprMem[i][a] \in ApprovalRecord /\ "consumed" \in ApprovalStatus
          /\ apprMem[i][a].status # "absent"
      BY <1>1, <1>2, <1>4 DEF TypeOK, ApprovalStatus
    <3> QED  BY <1>2, <3>1, WithStatusIs
  <2>3. apprMem'[i][a] = r
    BY <1>1, <1>2, <1>4 DEF TypeOK
  <2>4. apprMem' = [apprMem EXCEPT ![i][a] = r] /\ apprMem[i][a].status = "granted"
    BY <1>4
  <2> HIDE DEF r
  <2>5. /\ \A k \in Instances : RecordsGrow(k) /\ PlansGrow(k)
        /\ FilesGrow /\ ApprovalsCovered' /\ ReservationsCovered' /\ GrantsOK'
    BY <1>0, <1>1, <1>2, <2>2, <2>4, RecordChanged DEF ledgerVars, Refused
  <2>6. CallOK(t)'
    BY <1>0, <1>1, <1>2, <2>1, <2>2, <2>3 DEF CallOK, ConsumedPC
  <2> QED  BY <1>0, <1>1, <2>1, <2>5, <2>6, CallMoves
<1> QED  BY <1>3, <1>4 DEF Consume

LEMMA PersistConsumeAccount ==
    ASSUME TypeOK, CallInv, ApprovalInv, NEW t \in Threads, PersistConsume(t)
    PROVE  ApprovalInv'
<1> DEFINE i == job[t].inst
           p == job[t].plan
           a == job[t].appr
<1>0. /\ pc[t] = "consumePersist"
      /\ UNCHANGED <<startup, lock, degraded, ledgerMem, ledgerDisk, apprMem, spawns, spawnedWith,
                     withdrawn>>
  BY DEF PersistConsume, hostVars, ledgerVars, historyVars
<1>1. i \in Instances /\ p \in Plans /\ lock["approvals"] = i /\ pc[t] \in ExecutePC
  BY <1>0 DEF CallInv, JobOK, ExecutePC, PC, ApprovalInv, ApprovalOwnerOK
<1>2. /\ p \in Guarded /\ a \in Approvals /\ apprMem[i][a].plan = p
      /\ apprMem[i][a].status = "consumed" /\ ledgerDisk[p] = "reserved"
  BY <1>0, <1>1 DEF ApprovalInv, CallsOK, CallOK, ReservedPC
<1>3. CASE Return(t) /\ UNCHANGED apprDisk
  BY <1>0, <1>3, ReturnAccount
<1>4. CASE apprDisk' = apprMem[i] /\ Goto(t, "inserting")
  <2>1. /\ pc' = [pc EXCEPT ![t] = "inserting"] /\ job' = [job EXCEPT ![t] = job[t]]
        /\ pc'[t] = "inserting" /\ job'[t] = job[t]
    BY <1>4 DEF Goto, TypeOK
  <2>2. /\ \A k \in Instances : RecordsGrow(k) /\ PlansGrow(k)
        /\ FilesGrow /\ ApprovalsCovered' /\ ReservationsCovered' /\ GrantsOK'
    BY <1>0, <1>1, <1>4, RecordsWritten DEF ledgerVars
  <2>3. CallOK(t)'
    BY <1>0, <1>1, <1>2, <1>4, <2>1 DEF CallOK
  <2> QED  BY <1>0, <1>1, <2>1, <2>2, <2>3, CallMoves
<1> QED  BY <1>3, <1>4 DEF PersistConsume

\* The plan is reserved and its approval consumed, on disk, before its process exists.
LEMMA SpawnProcessAccount ==
    ASSUME TypeOK, CallInv, ApprovalInv, NEW t \in Threads, SpawnProcess(t)
    PROVE  ApprovalInv'
<1> DEFINE p == job[t].plan
           a == job[t].appr
<1>0. /\ pc[t] = "spawning" /\ pc[t] \in ConsumedPC
      /\ {"marking", "aborting"} \subseteq ConsumedPC
      /\ pc[t] \in ReservedPC /\ pc[t] \in ExecutePC
      /\ spawns' = [spawns EXCEPT ![p] = @ + 1]
      /\ spawnedWith' = [spawnedWith EXCEPT ![p] = a]
      /\ UNCHANGED <<startup, lock, degraded, ledgerMem, ledgerDisk, apprMem, apprDisk, withdrawn>>
  BY DEF SpawnProcess, hostVars, ledgerVars, apprVars, ConsumedPC, ReservedPC, ExecutePC, PC
<1>1. PICK l \in {"marking", "aborting"} :
          /\ pc' = [pc EXCEPT ![t] = l] /\ job' = [job EXCEPT ![t] = job[t]]
          /\ pc'[t] = l /\ job'[t] = job[t]
  BY DEF SpawnProcess, Goto, TypeOK
<1>2. p \in Plans /\ lock["approvals"] = job[t].inst
  BY <1>0 DEF CallInv, JobOK, ApprovalInv, ApprovalOwnerOK
<1>3. /\ ledgerDisk[p] = "reserved"
      /\ p \in Guarded => a \in Approvals /\ apprDisk[a].status = "consumed" /\ apprDisk[a].plan = p
      /\ p \notin Guarded => a = None
  BY <1>0, <1>2 DEF ApprovalInv, CallsOK, CallOK
<1>4. /\ \A k \in Instances : RecordsGrow(k) /\ PlansGrow(k)
      /\ FilesGrow /\ ApprovalsCovered' /\ ReservationsCovered' /\ GrantsOK'
  BY <1>0, NothingStored DEF ledgerVars, apprVars
<1>5. CallOK(t)'
  BY <1>0, <1>1, PastConsumption DEF ApprovalInv, CallsOK, ledgerVars, apprVars
<1>6. ApprovalOwnerOK' /\ CallsOK'
  BY <1>0, <1>1, <1>2, <1>4, <1>5, OneCall
<1>7. \A q \in Plans : q # p => spawns'[q] = spawns[q] /\ spawnedWith'[q] = spawnedWith[q]
  BY <1>0 DEF TypeOK
<1>8. spawnedWith'[p] = a
  BY <1>0, <1>2 DEF TypeOK
<1>9. SpawnsOK'
  <2>1. ASSUME NEW q \in Plans
        PROVE  /\ spawns'[q] > 0 => ledgerDisk'[q] = "reserved"
               /\ spawns'[q] > 0 /\ q \in Guarded =>
                     spawnedWith'[q] # None /\ apprDisk'[spawnedWith'[q]].plan = q
               /\ spawnedWith'[q] # None => apprDisk'[spawnedWith'[q]].status = "consumed"
    <3>1. CASE q = p
      BY <1>0, <1>3, <1>8, <3>1
    <3>2. CASE q # p
      BY <1>0, <1>7, <3>2 DEF ApprovalInv, SpawnsOK
    <3> QED  BY <3>1, <3>2
  <2> QED  BY <2>1 DEF SpawnsOK
<1>10. WithdrawalHolds'
  <2>1. \A b \in withdrawn : apprDisk[b].status \in {"denied", "revoked"} /\ b # a
    BY <1>3 DEF ApprovalInv, WithdrawalHolds, TypeOK
  <2>2. \A b \in withdrawn, q \in Plans : spawnedWith'[q] # b
    BY <1>7, <1>8, <2>1 DEF ApprovalInv, WithdrawalHolds
  <2> QED  BY <1>0, <2>1, <2>2 DEF WithdrawalHolds
<1> QED  BY <1>4, <1>6, <1>9, <1>10 DEF ApprovalInv

\* Every step keeps what the approvals and the ledger account for.
LEMMA AccountStep == TypeOK /\ CallInv /\ ApprovalInv /\ [Next]_vars => ApprovalInv'
<1> SUFFICES ASSUME TypeOK, CallInv, ApprovalInv, [Next]_vars PROVE ApprovalInv'
  OBVIOUS
<1>1. CASE UNCHANGED <<hostVars, ledgerVars, apprVars, callVars, historyVars>>
  <2>1. UNCHANGED <<startup, lock, degraded, ledgerMem, ledgerDisk, apprMem, apprDisk, pc, job, spawns,
                    spawnedWith, withdrawn>>
    BY <1>1 DEF hostVars, ledgerVars, apprVars, callVars, historyVars
  <2>2. /\ \A k \in Instances : RecordsGrow(k) /\ PlansGrow(k)
        /\ FilesGrow /\ ApprovalsCovered' /\ ReservationsCovered' /\ GrantsOK'
    BY <2>1, NothingStored DEF ledgerVars, apprVars
  <2>3. CallsOK' /\ ApprovalOwnerOK'
    BY <2>1, <2>2, KeepCall DEF ApprovalInv, ApprovalOwnerOK, CallsOK, CallInv, JobOK, ExecutePC
  <2> QED  BY <2>1, <2>2, <2>3, KeepSpawns, KeepWithdrawals DEF ApprovalInv
<1>2. CASE Tick \/ UNCHANGED vars
  BY <1>1, <1>2 DEF Tick, vars
<1>3. ASSUME NEW i \in Instances, Host(i) PROVE ApprovalInv'
  BY <1>3, OpenApprovalsAccount, OpenLedgerAccount, OpenReceiptsAccount, CrashAccount DEF Host
<1>4. ASSUME NEW t \in Threads, Call(t) PROVE ApprovalInv'
  BY <1>4, GrantAccount, WithdrawAccount, ExecuteAccount DEF Call
<1>5. ASSUME NEW t \in Threads, PersistGrant(t) \/ RecordExecutionId(t) PROVE ApprovalInv'
  <2>1. /\ pc[t] # "idle" /\ Return(t)
        /\ UNCHANGED <<startup, lock, degraded, ledgerMem, ledgerDisk, apprMem, spawns, spawnedWith,
                       withdrawn>>
        /\ UNCHANGED apprDisk \/ apprDisk' = apprMem[job[t].inst]
    BY <1>5 DEF PersistGrant, RecordExecutionId, hostVars, ledgerVars, historyVars
  <2> QED  BY <2>1, ReturnAccount
<1>6. ASSUME NEW t \in Threads, Accept(t) \/ Reserve(t) \/ PersistWithdraw(t) PROVE ApprovalInv'
  BY <1>6, AcceptAccount, ReserveAccount, PersistWithdrawAccount
<1>7. ASSUME NEW t \in Threads, PersistAccept(t) PROVE ApprovalInv'
  <2>1. PersistLedger(t, "acceptPersist", "reserving")
    BY <1>7 DEF PersistAccept
  <2> QED  BY <2>1, PersistLedgerAccount
<1>8. ASSUME NEW t \in Threads, PersistReserve(t) PROVE ApprovalInv'
  <2> DEFINE n == IF job[t].plan \in Guarded THEN "consuming" ELSE "inserting"
  <2>1. PersistLedger(t, "reservePersist", n)
    BY <1>8 DEF PersistReserve
  <2> QED  BY <2>1, PersistLedgerAccount
<1>9. ASSUME NEW t \in Threads, Consume(t) \/ PersistConsume(t) \/ SpawnProcess(t) PROVE ApprovalInv'
  BY <1>9, ConsumeAccount, PersistConsumeAccount, SpawnProcessAccount
<1>10. ASSUME NEW t \in Threads,
              InsertAccepted(t) \/ SpawnFails(t) \/ MarkSpawnStarted(t) \/ MarkCompleted(t)
              \/ MarkUnknown(t)
       PROVE  ApprovalInv'
  <2>1. PICK to, then : MarkReceipt(t, to, then)
    BY <1>10 DEF InsertAccepted, SpawnFails, MarkSpawnStarted, MarkCompleted, MarkUnknown
  <2>2. pc[t] \in ConsumedPC /\ ReceiptUnchanged
    BY <1>10 DEF InsertAccepted, SpawnFails, MarkSpawnStarted, MarkCompleted, MarkUnknown, ConsumedPC
  <2> QED  BY <2>1, <2>2, MarkReceiptAccount
<1>11. ASSUME NEW t \in Threads, SnapshotReceipts(t) \/ WriteReceipts(t) PROVE ApprovalInv'
  BY <1>11, SnapshotAccount, WriteReceiptsAccount
<1> QED  BY <1>2, <1>3, <1>4, <1>5, <1>6, <1>7, <1>8, <1>9, <1>10, <1>11 DEF Next, Progress

-----------------------------------------------------------------------------
(* Receipts *)

\* No receipt claims more than before of how its plan's process began.
NoNewClaim == \A p \in Plans : (Failed(p)' => Failed(p)) /\ (Started(p)' => Started(p))

\* Plans stay in the ledger, and what was spawned stays spawned.
Recorded ==
    \A p \in Plans :
        /\ ledgerDisk[p] # "absent" => ledgerDisk'[p] # "absent"
        /\ spawns[p] > 0 => spawns'[p] > 0

\* Then the receipts keep agreeing with the processes, as long as no call takes up a
\* plan whose spawn failed.
LEMMA KeepClaims ==
    ASSUME CallInv, FailedOK, StartedOK, NoNewClaim, Recorded,
           \A p \in Plans, t \in Threads :
              Failed(p) /\ MayRun(t)' /\ job'[t].plan = p => MayRun(t) /\ job[t].plan = p,
           \A t \in Threads : pc'[t] = "marking" =>
              spawns'[job'[t].plan] > 0 \/ (pc[t] = "marking" /\ job'[t].plan = job[t].plan)
    PROVE  FailedOK' /\ StartedOK'
<1>1. FailedOK'
  BY DEF FailedOK, NoNewClaim, Recorded
<1>2. \A t \in Threads : pc[t] = "marking" => job[t].plan \in Plans
  BY DEF CallInv, JobOK, ExecutePC, PC
<1>3. \A p \in Plans : Started(p)' => spawns'[p] > 0
  BY DEF StartedOK, NoNewClaim, Recorded
<1>4. \A t \in Threads : pc'[t] = "marking" => spawns'[job'[t].plan] > 0
  BY <1>2 DEF StartedOK, Recorded
<1> QED  BY <1>1, <1>3, <1>4 DEF StartedOK

\* The receipts stay; call t keeps what it holds, or gives it up on a failed store.
LEMMA ReceiptsKept ==
    ASSUME TypeOK, ReceiptOK, InFlightOK, NEW t \in Threads, NEW l, NEW j,
           pc' = [pc EXCEPT ![t] = l], job' = [job EXCEPT ![t] = j], UNCHANGED rcptMem,
           \A i \in Instances : "receipts" \in degraded[i] => "receipts" \in degraded'[i],
           \/ /\ HoldsAccepted(t)' <=> HoldsAccepted(t)
              /\ HoldsStarted(t)' <=> HoldsStarted(t)
              /\ Holding(t) => j.inst = job[t].inst /\ j.plan = job[t].plan
           \/ ~Holding(t)' /\ (job[t].inst \in Instances => "receipts" \in degraded'[job[t].inst])
    PROVE  ReceiptOK' /\ InFlightOK'
<1>1. \A u \in Threads : u # t =>
          /\ pc'[u] = pc[u] /\ job'[u] = job[u]
          /\ HoldsAccepted(u)' <=> HoldsAccepted(u)
          /\ HoldsStarted(u)' <=> HoldsStarted(u)
  BY DEF TypeOK, HoldsAccepted, HoldsStarted, Persisting
<1>2. job'[t] = j
  BY DEF TypeOK
<1>3. ReceiptOK'
  BY <1>1, <1>2 DEF ReceiptOK, Holding
<1>4. InFlightOK'
  BY <1>1, <1>2 DEF InFlightOK, Holding
<1> QED  BY <1>3, <1>4

LEMMA HoldersAccepted == \A t \in Threads : Holding(t) \/ MayRun(t) => pc[t] \in AcceptedPC
  BY DEF Holding, MayRun, HoldsAccepted, HoldsStarted, Persisting, BeforeSpawn, AcceptedPC, ExecutePC, PC

\* The receipt of call t moves: no other call holds that plan.
LEMMA ReceiptMoved ==
    ASSUME TypeOK, CallInv, ReceiptOK, InFlightOK, NEW t \in Threads, NEW to, NEW then,
           pc[t] \in AcceptedPC,
           rcptMem' = [rcptMem EXCEPT ![job[t].inst][job[t].plan] = to],
           pc' = [pc EXCEPT ![t] = "receiptSnapshot"], job' = [job EXCEPT ![t].then = then],
           UNCHANGED degraded,
           \/ to = "accepted" /\ then = "spawning"
           \/ to = "spawn_started" /\ then = "waiting"
           \/ to \notin {"accepted", "spawn_started"} /\ then \notin {"spawning", "waiting"}
    PROVE  ReceiptOK' /\ InFlightOK'
<1> DEFINE i == job[t].inst
           p == job[t].plan
<1>0. i \in Instances /\ p \in Plans
  BY DEF CallInv, JobOK, AcceptedPC, ExecutePC
<1>1. \A k \in Instances, q \in Plans :
          rcptMem'[k][q] = IF k = i /\ q = p THEN to ELSE rcptMem[k][q]
  BY <1>0 DEF TypeOK
<1>2. \A u \in Threads : u # t =>
          /\ pc'[u] = pc[u] /\ job'[u] = job[u]
          /\ HoldsAccepted(u)' <=> HoldsAccepted(u)
          /\ HoldsStarted(u)' <=> HoldsStarted(u)
          /\ Holding(u)' <=> Holding(u)
  BY DEF TypeOK, HoldsAccepted, HoldsStarted, Holding, Persisting
<1>3. pc'[t] = "receiptSnapshot" /\ job'[t].inst = i /\ job'[t].plan = p /\ job'[t].then = then
  BY DEF TypeOK, Job
<1>4. /\ HoldsAccepted(t)' <=> then = "spawning"
      /\ HoldsStarted(t)' <=> then = "waiting"
      /\ Holding(t)' <=> then \in {"spawning", "waiting"}
  BY <1>3 DEF HoldsAccepted, HoldsStarted, Holding, Persisting
<1>5. \A u \in Threads : u # t /\ Holding(u) =>
          job[u].plan # p /\ job[u].plan \in Plans /\ job[u].inst \in Instances
  BY HoldersAccepted DEF CallInv, AcceptanceOK, JobOK, AcceptedPC, ExecutePC
<1>6. ASSUME NEW u \in Threads
      PROVE  /\ HoldsAccepted(u)' => rcptMem'[job'[u].inst][job'[u].plan] = "accepted"
             /\ HoldsStarted(u)' => rcptMem'[job'[u].inst][job'[u].plan] = "spawn_started"
  <2>1. CASE u = t
    BY <1>0, <1>1, <1>3, <1>4, <2>1
  <2>2. CASE u # t
    BY <1>1, <1>2, <1>5, <2>2 DEF ReceiptOK, Holding
  <2> QED  BY <2>1, <2>2
<1>7. ASSUME NEW k \in Instances, NEW q \in Plans,
             rcptMem'[k][q] \in {"accepted", "spawn_started"}, "receipts" \notin degraded'[k]
      PROVE  \E u \in Threads : job'[u].inst = k /\ job'[u].plan = q /\ Holding(u)'
  <2>1. CASE k = i /\ q = p
    BY <1>1, <1>3, <1>4, <1>7, <2>1
  <2>2. CASE ~(k = i /\ q = p)
    <3>1. PICK u \in Threads : job[u].inst = k /\ job[u].plan = q /\ Holding(u)
      BY <1>1, <1>7, <2>2 DEF InFlightOK
    <3> QED  BY <1>2, <2>2, <3>1
  <2> QED  BY <2>1, <2>2
<1> QED  BY <1>6, <1>7 DEF ReceiptOK, InFlightOK

\* MarkReceipt as the calls use it: a call whose receipt cannot be moved had none in
\* flight, or the store has failed.
MarkArgs(t, to, then) ==
    \/ pc[t] = "inserting" /\ to = "accepted" /\ then = "spawning"
    \/ pc[t] \in {"spawning", "aborting"} /\ to = "spawn_failed" /\ then = "idle"
    \/ pc[t] = "marking" /\ to = "spawn_started" /\ then = "waiting"
    \/ pc[t] = "waiting" /\ to \in {"completed", "unknown_after_crash"} /\ then \in {"idle", "auditing"}

LEMMA MarkReceiptReceipts ==
    ASSUME TypeOK, CallInv, ReceiptInv, NEW t \in Threads, NEW to, NEW then,
           MarkArgs(t, to, then), MarkReceipt(t, to, then), ReceiptUnchanged
    PROVE  ReceiptInv'
<1> DEFINE i == job[t].inst
           p == job[t].plan
<1>0. /\ pc[t] \in AcceptedPC /\ pc[t] # "idle" /\ pc[t] \in ExecutePC
      /\ UNCHANGED <<startup, degraded, ledgerDisk, spawns, rcptDisk>>
  BY DEF MarkArgs, AcceptedPC, ExecutePC, PC, ReceiptUnchanged, hostVars, ledgerVars, historyVars
<1>1. i \in Instances /\ p \in Plans /\ startup[i] = "up"
  BY <1>0 DEF CallInv, JobOK, ReceiptInv, UpOK
<1>2. CASE Return(t) /\ UNCHANGED rcptMem /\ ~("receipts" \notin degraded[i] /\ TransitionAllowed(rcptMem[i][p], to))
  <2>1. /\ pc' = [pc EXCEPT ![t] = "idle"] /\ job' = [job EXCEPT ![t] = NoJob]
        /\ pc'[t] = "idle"
        /\ \A u \in Threads : u # t => pc'[u] = pc[u] /\ job'[u] = job[u]
        /\ \A u \in Threads, q \in Plans : snap'[u][q] = snap[u][q] \/ snap'[u][q] = "none"
    BY <1>2 DEF Return, TypeOK, NoReceipts
  <2>2. ~Holding(t)' /\ ~MayRun(t)'
    BY <2>1 DEF Holding, HoldsAccepted, HoldsStarted, MayRun, Persisting, BeforeSpawn
  <2>3. pc[t] = "inserting" \/ "receipts" \in degraded[i]
    BY <1>2 DEF MarkArgs, TransitionAllowed, ReceiptInv, ReceiptOK, HoldsAccepted, HoldsStarted
  <2>4. pc[t] = "inserting" => ~HoldsAccepted(t) /\ ~HoldsStarted(t)
    BY DEF HoldsAccepted, HoldsStarted, Persisting
  <2>5. ReceiptOK' /\ InFlightOK'
    BY <1>0, <1>2, <2>1, <2>2, <2>3, <2>4, ReceiptsKept DEF ReceiptInv, Holding
  <2>6. UpOK'
    BY <1>0, <2>1 DEF ReceiptInv, UpOK
  <2>7. NoNewClaim /\ Recorded
    BY <1>0, <1>2, <2>1 DEF NoNewClaim, Failed, Started, Claimed, Recorded
  <2>8. \A u \in Threads : MayRun(u)' => MayRun(u) /\ job'[u] = job[u]
    BY <2>1, <2>2 DEF MayRun, Persisting, BeforeSpawn
  <2>9. FailedOK' /\ StartedOK'
    BY <2>1, <2>7, <2>8, KeepClaims DEF ReceiptInv
  <2> QED  BY <2>5, <2>6, <2>9 DEF ReceiptInv
<1>3. CASE /\ rcptMem' = [rcptMem EXCEPT ![i][p] = to]
           /\ pc' = [pc EXCEPT ![t] = "receiptSnapshot"]
           /\ job' = [job EXCEPT ![t].then = then]
           /\ UNCHANGED snap
  <2>1. ReceiptOK' /\ InFlightOK'
    BY <1>0, <1>3, ReceiptMoved DEF ReceiptInv, MarkArgs
  <2>2. /\ pc'[t] = "receiptSnapshot" /\ job'[t].inst = i /\ job'[t].plan = p /\ job'[t].then = then
        /\ \A u \in Threads : u # t => pc'[u] = pc[u] /\ job'[u] = job[u]
    BY <1>3 DEF TypeOK, Job
  <2>3. UpOK'
    BY <1>0, <1>1, <2>2 DEF ReceiptInv, UpOK
  <2>4. \A k \in Instances, q \in Plans :
            rcptMem'[k][q] = IF k = i /\ q = p THEN to ELSE rcptMem[k][q]
    BY <1>1, <1>3 DEF TypeOK
  <2>5. \A u \in Threads : MayRun(u)' => MayRun(u) /\ job'[u].plan = job[u].plan
    BY <1>0, <2>2 DEF MayRun, Persisting, BeforeSpawn, MarkArgs
  <2>6. \A q \in Plans :
            /\ Failed(q)' => Failed(q) \/ (q = p /\ to = "spawn_failed")
            /\ Started(q)' => Started(q) \/ (q = p /\ to \in {"spawn_started", "completed"})
    BY <1>0, <1>3, <2>4 DEF Failed, Started, Claimed
  <2>7. to \in {"spawn_started", "completed"} => spawns[p] > 0
    <3>1. to = "spawn_started" => pc[t] = "marking"
      BY DEF MarkArgs
    <3>2. to = "completed" => pc[t] = "waiting"
      BY DEF MarkArgs
    <3>3. pc[t] = "marking" => spawns[p] > 0
      BY DEF ReceiptInv, StartedOK
    <3>4. pc[t] = "waiting" => rcptMem[i][p] = "spawn_started"
      BY DEF ReceiptInv, ReceiptOK, HoldsStarted
    <3>5. rcptMem[i][p] = "spawn_started" => spawns[p] > 0
      BY <1>1 DEF ReceiptInv, StartedOK, Started, Claimed
    <3> QED  BY <3>1, <3>2, <3>3, <3>4, <3>5
  <2>8. StartedOK'
    <3>1. \A u \in Threads : pc'[u] = "marking" => pc[u] = "marking" /\ job'[u] = job[u]
      BY <2>2
    <3> QED  BY <1>0, <2>6, <2>7, <3>1 DEF ReceiptInv, StartedOK
  <2>9. FailedOK'
    <3>1. to = "spawn_failed" => /\ ledgerDisk[p] # "absent"
                                 /\ \A u \in Threads : MayRun(u)' => job'[u].plan # p
      <4> SUFFICES ASSUME to = "spawn_failed"
                   PROVE  /\ ledgerDisk[p] # "absent"
                          /\ \A u \in Threads : MayRun(u)' => job'[u].plan # p
        OBVIOUS
      <4>1. pc[t] \in {"spawning", "aborting"} /\ then = "idle"
        BY DEF MarkArgs
      <4>2. ledgerDisk[p] # "absent"
        BY <1>0, <4>1 DEF CallInv, AcceptanceOK
      <4>3. ~MayRun(t)'
        BY <2>2, <4>1 DEF MayRun, Persisting, BeforeSpawn
      <4> QED  BY <1>0, <2>5, <4>2, <4>3, HoldersAccepted DEF CallInv, AcceptanceOK
    <3>2. ASSUME NEW q \in Plans, Failed(q)'
          PROVE  /\ ledgerDisk'[q] # "absent"
                 /\ \A u \in Threads : MayRun(u)' => job'[u].plan # q
      <4>1. CASE q = p /\ to = "spawn_failed"
        BY <1>0, <3>1, <4>1
      <4>2. CASE Failed(q)
        BY <1>0, <2>5, <4>2 DEF ReceiptInv, FailedOK
      <4> QED  BY <2>6, <3>2, <4>1, <4>2
    <3> QED  BY <3>2 DEF FailedOK
  <2> QED  BY <2>1, <2>3, <2>8, <2>9 DEF ReceiptInv
<1> QED  BY <1>2, <1>3 DEF MarkReceipt

\* A step of a call that leaves the receipts in memory alone.
LEMMA ReceiptsCallStep ==
    ASSUME TypeOK, CallInv, ReceiptInv, NEW t \in Threads, NEW l, NEW j,
           pc' = [pc EXCEPT ![t] = l], job' = [job EXCEPT ![t] = j],
           UNCHANGED <<startup, rcptMem>>,
           l # "idle" => startup[j.inst] = "up",
           \A i \in Instances : "receipts" \in degraded[i] => "receipts" \in degraded'[i],
           \/ /\ HoldsAccepted(t)' <=> HoldsAccepted(t)
              /\ HoldsStarted(t)' <=> HoldsStarted(t)
              /\ Holding(t) => j.inst = job[t].inst /\ j.plan = job[t].plan
           \/ ~Holding(t)' /\ (job[t].inst \in Instances => "receipts" \in degraded'[job[t].inst]),
           NoNewClaim, Recorded, l = "marking" => spawns'[j.plan] > 0,
           \A p \in Plans : Failed(p) /\ MayRun(t)' /\ j.plan = p => MayRun(t) /\ job[t].plan = p
    PROVE  ReceiptInv'
<1>1. /\ pc'[t] = l /\ job'[t] = j
      /\ \A u \in Threads : u # t =>
            pc'[u] = pc[u] /\ job'[u] = job[u] /\ (MayRun(u)' <=> MayRun(u))
  BY DEF TypeOK, MayRun, Persisting, BeforeSpawn
<1>2. ReceiptOK' /\ InFlightOK'
  BY ReceiptsKept DEF ReceiptInv
<1>3. UpOK'
  BY <1>1 DEF ReceiptInv, UpOK
<1>4. FailedOK' /\ StartedOK'
  BY <1>1, KeepClaims DEF ReceiptInv
<1> QED  BY <1>2, <1>3, <1>4 DEF ReceiptInv

LEMMA BeginReceipts ==
    ASSUME TypeOK, CallInv, ReceiptInv, NEW t \in Threads, NEW i \in Instances, NEW p, NEW a,
           NEW l \in {"accepting", "grantPersist", "withdrawPersist"}, Begin(t, i, p, a, l),
           UNCHANGED <<startup, degraded, rcptMem, rcptDisk, ledgerDisk, spawns>>
    PROVE  ReceiptInv'
<1>1. PICK j : /\ j.inst = i /\ pc' = [pc EXCEPT ![t] = l] /\ job' = [job EXCEPT ![t] = j]
               /\ pc'[t] = l
  BY BeginShape
<1>2. ~Holding(t) /\ ~Holding(t)' /\ ~MayRun(t)'
  BY <1>1 DEF Begin, Holding, HoldsAccepted, HoldsStarted, MayRun, Persisting, BeforeSpawn
<1>3. NoNewClaim /\ Recorded
  BY DEF NoNewClaim, Failed, Started, Claimed, Recorded, Begin
<1>4. startup[j.inst] = "up"
  BY <1>1 DEF Begin
<1> QED  BY <1>1, <1>2, <1>3, <1>4, ReceiptsCallStep DEF Holding

\* A call ends: it held nothing, or the store has failed.
LEMMA ReturnReceipts ==
    ASSUME TypeOK, CallInv, ReceiptInv, NEW t \in Threads, Return(t),
           UNCHANGED <<startup, rcptMem, rcptDisk, spawns>>,
           \A p \in Plans : ledgerDisk[p] # "absent" => ledgerDisk'[p] # "absent",
           \A i \in Instances : "receipts" \in degraded[i] => "receipts" \in degraded'[i],
           ~Holding(t) \/ (job[t].inst \in Instances => "receipts" \in degraded'[job[t].inst])
    PROVE  ReceiptInv'
<1>1. /\ pc' = [pc EXCEPT ![t] = "idle"] /\ job' = [job EXCEPT ![t] = NoJob] /\ pc'[t] = "idle"
      /\ \A u \in Threads, q \in Plans : snap'[u][q] = snap[u][q] \/ snap'[u][q] = "none"
  BY DEF Return, TypeOK, NoReceipts
<1>2. ~Holding(t)' /\ ~MayRun(t)'
  BY <1>1 DEF Holding, HoldsAccepted, HoldsStarted, MayRun, Persisting, BeforeSpawn
<1>3. NoNewClaim /\ Recorded
  BY <1>1 DEF NoNewClaim, Failed, Started, Claimed, Recorded
<1> QED  BY <1>1, <1>2, <1>3, ReceiptsCallStep DEF Holding

\* From the gate to the receipt: nothing is held, and only Accept takes up a plan.
LEMMA GotoReceipts ==
    ASSUME TypeOK, CallInv, ReceiptInv, NEW t \in Threads, NEW l, Goto(t, l),
           pc[t] # "idle", ~Holding(t), ~Holding(t)', l # "marking",
           UNCHANGED <<startup, degraded, rcptMem, rcptDisk, spawns>>,
           \A p \in Plans : ledgerDisk[p] # "absent" => ledgerDisk'[p] # "absent",
           \A p \in Plans : Failed(p) /\ MayRun(t)' /\ job[t].plan = p => MayRun(t)
    PROVE  ReceiptInv'
<1>1. /\ pc' = [pc EXCEPT ![t] = l] /\ job' = [job EXCEPT ![t] = job[t]]
  BY DEF Goto, TypeOK
<1>2. NoNewClaim /\ Recorded
  BY DEF NoNewClaim, Failed, Started, Claimed, Recorded, Goto
<1>3. startup[job[t].inst] = "up"
  BY DEF ReceiptInv, UpOK
<1> QED  BY <1>1, <1>2, <1>3, ReceiptsCallStep DEF Holding

LEMMA AcceptReceipts ==
    ASSUME TypeOK, CallInv, ReceiptInv, NEW t \in Threads, Accept(t)
    PROVE  ReceiptInv'
<1>0. /\ pc[t] = "accepting" /\ UNCHANGED <<startup, degraded, ledgerDisk, rcptMem, rcptDisk, spawns>>
  BY DEF Accept, hostVars, rcptVars, historyVars
<1>1. ~Holding(t)
  BY <1>0 DEF Holding, HoldsAccepted, HoldsStarted, Persisting
<1>2. CASE Return(t)
  BY <1>0, <1>1, <1>2, ReturnReceipts
<1>3. CASE ledgerMem[job[t].inst][job[t].plan] = "absent" /\ Goto(t, "acceptPersist")
  <2>1. job[t].inst \in Instances /\ job[t].plan \in Plans /\ lock["ledger"] = job[t].inst
    BY <1>0 DEF CallInv, JobOK, OwnerOK, ExecutePC, PC
  <2>2. ledgerDisk[job[t].plan] = "absent"
    BY <1>3, <2>1 DEF CallInv, MemoryCoversDisk
  <2>3. ~Failed(job[t].plan)
    BY <2>1, <2>2 DEF ReceiptInv, FailedOK
  <2>4. ~Holding(t)'
    BY <1>3 DEF Goto, TypeOK, Holding, HoldsAccepted, HoldsStarted, Persisting
  <2> QED  BY <1>0, <1>1, <1>3, <2>3, <2>4, GotoReceipts
<1> QED  BY <1>2, <1>3 DEF Accept

LEMMA PersistLedgerReceipts ==
    ASSUME TypeOK, CallInv, ReceiptInv, NEW t \in Threads, NEW from, NEW next,
           PersistLedger(t, from, next),
           from \in {"acceptPersist", "reservePersist"}, next \in {"reserving", "consuming", "inserting"}
    PROVE  ReceiptInv'
<1>0. /\ pc[t] = from /\ UNCHANGED <<startup, degraded, rcptMem, rcptDisk, spawns>>
      /\ pc[t] # "idle" /\ MayRun(t) /\ pc[t] \in ExecutePC
  BY DEF PersistLedger, hostVars, rcptVars, historyVars, MayRun, BeforeSpawn, ExecutePC, PC
<1>1. ~Holding(t)
  BY <1>0 DEF Holding, HoldsAccepted, HoldsStarted, Persisting
<1>2. CASE Return(t) /\ UNCHANGED ledgerDisk
  BY <1>0, <1>1, <1>2, ReturnReceipts
<1>3. CASE ledgerDisk' = ledgerMem[job[t].inst] /\ Goto(t, next)
  <2>1. job[t].inst \in Instances /\ lock["ledger"] = job[t].inst
    BY <1>0 DEF CallInv, JobOK, OwnerOK, ExecutePC
  <2>2. \A p \in Plans : ledgerDisk[p] # "absent" => ledgerDisk'[p] # "absent"
    BY <1>3, <2>1 DEF CallInv, MemoryCoversDisk
  <2>3. ~Holding(t)'
    BY <1>3 DEF Goto, TypeOK, Holding, HoldsAccepted, HoldsStarted, Persisting
  <2> QED  BY <1>0, <1>1, <1>3, <2>2, <2>3, GotoReceipts
<1> QED  BY <1>2, <1>3 DEF PersistLedger

\* The process is created: this call marks the receipt next, or gives the process up.
LEMMA SpawnProcessReceipts ==
    ASSUME TypeOK, CallInv, ReceiptInv, NEW t \in Threads, SpawnProcess(t)
    PROVE  ReceiptInv'
<1> DEFINE p == job[t].plan
<1>0. /\ pc[t] = "spawning" /\ MayRun(t) /\ pc[t] \in ExecutePC
      /\ spawns' = [spawns EXCEPT ![p] = @ + 1]
      /\ UNCHANGED <<startup, degraded, ledgerDisk, rcptMem, rcptDisk, snap>>
  BY DEF SpawnProcess, Goto, hostVars, ledgerVars, rcptVars, MayRun, BeforeSpawn, ExecutePC, PC
<1>1. PICK l \in {"marking", "aborting"} :
          pc' = [pc EXCEPT ![t] = l] /\ job' = [job EXCEPT ![t] = job[t]] /\ pc'[t] = l
  BY DEF SpawnProcess, Goto, TypeOK
<1>2. p \in Plans
  BY <1>0 DEF CallInv, JobOK
<1>3. \A q \in Plans : spawns[q] \in Nat /\ spawns'[q] = IF q = p THEN spawns[q] + 1 ELSE spawns[q]
  BY <1>0 DEF TypeOK
<1>4. NoNewClaim /\ Recorded /\ spawns'[p] > 0
  BY <1>0, <1>2, <1>3 DEF NoNewClaim, Failed, Started, Claimed, Recorded
<1>5. HoldsAccepted(t)' /\ HoldsAccepted(t) /\ ~HoldsStarted(t)' /\ ~HoldsStarted(t)
  BY <1>0, <1>1 DEF HoldsAccepted, HoldsStarted, Persisting
<1>6. startup[job[t].inst] = "up"
  BY <1>0 DEF ReceiptInv, UpOK
<1> QED  BY <1>0, <1>1, <1>2, <1>4, <1>5, <1>6, ReceiptsCallStep

LEMMA SnapshotReceiptsReceipts ==
    ASSUME TypeOK, CallInv, ReceiptInv, NEW t \in Threads, SnapshotReceipts(t)
    PROVE  ReceiptInv'
<1>0. /\ pc[t] = "receiptSnapshot" /\ pc[t] \in ExecutePC
      /\ UNCHANGED <<startup, degraded, ledgerDisk, rcptMem, rcptDisk, spawns, job>>
      /\ snap' = [snap EXCEPT ![t] = rcptMem[job[t].inst]]
  BY DEF SnapshotReceipts, hostVars, ledgerVars, rcptVars, historyVars, ExecutePC, PC
<1>1. /\ pc' = [pc EXCEPT ![t] = "receiptWrite"] /\ job' = [job EXCEPT ![t] = job[t]]
      /\ pc'[t] = "receiptWrite" /\ job[t].inst \in Instances
  BY <1>0 DEF SnapshotReceipts, TypeOK, CallInv, JobOK
<1>2. /\ HoldsAccepted(t)' <=> HoldsAccepted(t)
      /\ HoldsStarted(t)' <=> HoldsStarted(t)
      /\ MayRun(t)' <=> MayRun(t)
  BY <1>0, <1>1 DEF HoldsAccepted, HoldsStarted, MayRun, Persisting, BeforeSpawn
<1>3. \A u \in Threads : snap'[u] = IF u = t THEN rcptMem[job[t].inst] ELSE snap[u]
  BY <1>0 DEF TypeOK
<1>4. NoNewClaim /\ Recorded
  BY <1>0, <1>1, <1>3 DEF NoNewClaim, Failed, Started, Claimed, Recorded
<1>5. startup[job[t].inst] = "up"
  BY <1>0 DEF ReceiptInv, UpOK
<1> QED  BY <1>0, <1>1, <1>2, <1>4, <1>5, ReceiptsCallStep

LEMMA WriteReceiptsReceipts ==
    ASSUME TypeOK, CallInv, ReceiptInv, NEW t \in Threads, WriteReceipts(t)
    PROVE  ReceiptInv'
<1>0. /\ pc[t] = "receiptWrite" /\ pc[t] \in ExecutePC
      /\ UNCHANGED <<startup, ledgerDisk, rcptMem, spawns>>
  BY DEF WriteReceipts, ledgerVars, historyVars, ExecutePC, PC
<1>1. job[t].inst \in Instances /\ job[t].then \in {"idle", "spawning", "waiting", "auditing"}
  BY <1>0 DEF CallInv, JobOK
<1>2. CASE /\ rcptDisk' = snap[t]
           /\ pc' = [pc EXCEPT ![t] = job[t].then]
           /\ job' = [job EXCEPT ![t] = IF job[t].then = "idle" THEN NoJob ELSE @]
           /\ snap' = [snap EXCEPT ![t] = NoReceipts]
           /\ UNCHANGED degraded
  <2>1. \A u \in Threads, q \in Plans : snap'[u][q] = snap[u][q] \/ snap'[u][q] = "none"
    BY <1>2 DEF TypeOK, NoReceipts
  <2>2. NoNewClaim /\ Recorded
    BY <1>0, <1>2, <2>1 DEF NoNewClaim, Failed, Started, Claimed, Recorded
  <2> DEFINE j == IF job[t].then = "idle" THEN NoJob ELSE job[t]
  <2>3. job' = [job EXCEPT ![t] = j] /\ pc'[t] = job[t].then /\ job'[t] = j
    BY <1>2 DEF TypeOK
  <2>4. job[t].then # "idle" => j = job[t]
    OBVIOUS
  <2> HIDE DEF j
  <2>5. /\ HoldsAccepted(t)' <=> HoldsAccepted(t)
        /\ HoldsStarted(t)' <=> HoldsStarted(t)
        /\ Holding(t) => job[t].then # "idle"
        /\ MayRun(t)' => MayRun(t) /\ job[t].then # "idle"
    BY <1>0, <1>1, <2>3 DEF HoldsAccepted, HoldsStarted, Holding, MayRun, Persisting, BeforeSpawn
  <2>6. job[t].then # "idle" => startup[j.inst] = "up"
    BY <1>0, <2>4 DEF ReceiptInv, UpOK
  <2>7. Holding(t) => j.inst = job[t].inst /\ j.plan = job[t].plan
    BY <2>4, <2>5
  <2>8. \A p \in Plans : MayRun(t)' /\ j.plan = p => MayRun(t) /\ job[t].plan = p
    BY <2>4, <2>5
  <2>9. /\ pc' = [pc EXCEPT ![t] = job[t].then] /\ UNCHANGED <<startup, rcptMem>>
        /\ \A i \in Instances : "receipts" \in degraded[i] => "receipts" \in degraded'[i]
    BY <1>0, <1>2
  <2>10. job[t].then # "marking"
    BY <1>1
  <2> DEFINE l == job[t].then
  <2>11. /\ pc' = [pc EXCEPT ![t] = l] /\ l # "marking"
         /\ l # "idle" => startup[j.inst] = "up"
    BY <2>6, <2>9, <2>10
  <2> HIDE DEF l
  <2>12. \A p \in Plans : Failed(p) /\ MayRun(t)' /\ j.plan = p => MayRun(t) /\ job[t].plan = p
    BY <2>8
  <2>13. Holding(t) => j.inst = job[t].inst /\ j.plan = job[t].plan
    BY <2>7
  <2>14. job' = [job EXCEPT ![t] = j] /\ NoNewClaim /\ Recorded
    BY <2>2, <2>3
  <2>15. (HoldsAccepted(t)' <=> HoldsAccepted(t)) /\ (HoldsStarted(t)' <=> HoldsStarted(t))
    BY <2>5
  <2> QED
    BY ONLY TypeOK, CallInv, ReceiptInv, t \in Threads, <2>9, <2>11, <2>12, <2>13, <2>14, <2>15,
            ReceiptsCallStep
<1>3. CASE /\ degraded' = [degraded EXCEPT ![job[t].inst] = @ \cup {"receipts"}]
           /\ Return(t) /\ UNCHANGED rcptDisk
  <2>1. \A k \in Instances : degraded'[k] =
            IF k = job[t].inst THEN degraded[k] \cup {"receipts"} ELSE degraded[k]
    BY <1>3 DEF TypeOK
  <2> QED  BY <1>0, <1>1, <1>3, <2>1, ReturnReceipts
<1> QED  BY <1>2, <1>3 DEF WriteReceipts

\* A store opened before the receipts, or the clock: calls and receipts stay.
LEMMA OpenBeforeReceipts ==
    ASSUME TypeOK, ReceiptInv, UNCHANGED <<rcptVars, callVars, ledgerDisk, spawns>>,
           \A i \in Instances : "receipts" \in degraded[i] => "receipts" \in degraded'[i],
           \A i \in Instances : startup[i] = "up" => startup'[i] = "up", CallInv
    PROVE  ReceiptInv'
<1> USE DEF rcptVars, callVars
<1>1. \A u \in Threads :
          /\ HoldsAccepted(u)' <=> HoldsAccepted(u)
          /\ HoldsStarted(u)' <=> HoldsStarted(u)
          /\ MayRun(u)' <=> MayRun(u)
  BY DEF HoldsAccepted, HoldsStarted, MayRun, Persisting, BeforeSpawn
<1>2. ReceiptOK' /\ InFlightOK'
  BY <1>1 DEF ReceiptInv, ReceiptOK, InFlightOK, Holding
<1>3. UpOK'
  BY DEF ReceiptInv, UpOK, CallInv, JobOK
<1>4. NoNewClaim /\ Recorded
  BY DEF NoNewClaim, Failed, Started, Claimed, Recorded
<1>5. FailedOK' /\ StartedOK'
  BY <1>1, <1>4, KeepClaims DEF ReceiptInv
<1> QED  BY <1>2, <1>3, <1>5 DEF ReceiptInv

\* Restart recovery settles what it finds; no call of the process runs yet.
LEMMA OpenReceiptsReceipts ==
    ASSUME TypeOK, CallInv, ReceiptInv, NEW i \in Instances, OpenReceipts(i)
    PROVE  ReceiptInv'
<1>0. /\ startup[i] = "receipts" /\ startup' = [startup EXCEPT ![i] = "up"]
      /\ UNCHANGED <<pc, job, snap, ledgerDisk, spawns>>
  BY DEF OpenReceipts, ledgerVars, callVars, historyVars
<1>1. \A k \in Instances : startup[k] = "up" => startup'[k] = "up"
  BY <1>0 DEF TypeOK
<1>2. CASE OpensDegraded(i, "receipts") /\ UNCHANGED rcptVars
  <2>1. \A k \in Instances : degraded'[k] =
            IF k = i THEN degraded[k] \cup {"receipts"} ELSE degraded[k]
    BY <1>2 DEF OpensDegraded, TypeOK
  <2> QED  BY <1>0, <1>1, <1>2, <2>1, OpenBeforeReceipts DEF callVars
<1>3. CASE /\ Acquire(i, "receipts")
           /\ rcptMem' = [rcptMem EXCEPT ![i] = Recovered(rcptDisk)]
           /\ rcptDisk' = Recovered(rcptDisk)
  <2>1. UNCHANGED degraded
    BY <1>3 DEF Acquire
  <2>2. \A q \in Plans :
            /\ rcptDisk'[q] \notin {"accepted", "spawn_started"}
            /\ rcptDisk'[q] = "spawn_failed" => rcptDisk[q] = "spawn_failed"
            /\ rcptDisk'[q] = "completed" => rcptDisk[q] = "completed"
    BY <1>3 DEF Recovered
  <2>3. \A k \in Instances : rcptMem'[k] = IF k = i THEN rcptDisk' ELSE rcptMem[k]
    BY <1>3 DEF TypeOK
  <2>4. \A u \in Threads :
            /\ HoldsAccepted(u)' <=> HoldsAccepted(u)
            /\ HoldsStarted(u)' <=> HoldsStarted(u)
            /\ MayRun(u)' <=> MayRun(u)
    BY <1>0 DEF HoldsAccepted, HoldsStarted, MayRun, Persisting, BeforeSpawn
  <2>5. \A u \in Threads : pc[u] # "idle" => job[u].inst # i /\ job[u].inst \in Instances
    BY <1>0 DEF ReceiptInv, UpOK, CallInv, JobOK
  <2>6. \A u \in Threads : Holding(u) => pc[u] # "idle"
    BY DEF Holding, HoldsAccepted, HoldsStarted, Persisting
  <2>7. ReceiptOK'
    BY <1>0, <2>3, <2>4, <2>5, <2>6 DEF ReceiptInv, ReceiptOK, Holding
  <2>8. InFlightOK'
    BY <1>0, <2>1, <2>2, <2>3, <2>4 DEF ReceiptInv, InFlightOK, Holding
  <2>9. UpOK'
    BY <1>0, <1>1, <2>5 DEF ReceiptInv, UpOK
  <2>10. NoNewClaim /\ Recorded
    BY <1>0, <2>2, <2>3 DEF NoNewClaim, Failed, Started, Claimed, Recorded
  <2>11. FailedOK' /\ StartedOK'
    BY <1>0, <2>4, <2>10, KeepClaims DEF ReceiptInv
  <2> QED  BY <2>7, <2>8, <2>9, <2>11 DEF ReceiptInv
<1> QED  BY <1>2, <1>3 DEF OpenReceipts

LEMMA CrashReceipts ==
    ASSUME TypeOK, CallInv, ReceiptInv, NEW i \in Instances, Crash(i)
    PROVE  ReceiptInv'
<1>0. UNCHANGED <<ledgerDisk, rcptDisk, spawns>>
  BY DEF Crash, historyVars
<1>1. \A k \in Instances :
          /\ k # i => startup'[k] = startup[k] /\ rcptMem'[k] = rcptMem[k] /\ degraded'[k] = degraded[k]
          /\ k = i => \A q \in Plans : rcptMem'[k][q] = "none"
  BY DEF Crash, TypeOK, NoReceipts
<1>2. \A u \in Threads :
          /\ job[u].inst = i => pc'[u] = "idle" /\ \A q \in Plans : snap'[u][q] = "none"
          /\ job[u].inst # i => pc'[u] = pc[u] /\ job'[u] = job[u] /\ snap'[u] = snap[u]
  BY DEF Crash, NoReceipts
<1>3. \A u \in Threads :
          /\ HoldsAccepted(u)' <=> HoldsAccepted(u) /\ job[u].inst # i
          /\ HoldsStarted(u)' <=> HoldsStarted(u) /\ job[u].inst # i
          /\ MayRun(u)' <=> MayRun(u) /\ job[u].inst # i
  BY <1>2 DEF HoldsAccepted, HoldsStarted, MayRun, Persisting, BeforeSpawn
<1>4. \A u \in Threads : Holding(u) => job[u].inst \in Instances
  BY DEF Holding, HoldsAccepted, HoldsStarted, Persisting, CallInv, JobOK
<1>5. ReceiptOK'
  BY <1>1, <1>2, <1>3, <1>4 DEF ReceiptInv, ReceiptOK, Holding
<1>6. InFlightOK'
  BY <1>1, <1>2, <1>3 DEF ReceiptInv, InFlightOK, Holding
<1>7. UpOK'
  BY <1>1, <1>2 DEF ReceiptInv, UpOK, CallInv, JobOK
<1>8. NoNewClaim /\ Recorded
  BY <1>0, <1>1, <1>2 DEF NoNewClaim, Failed, Started, Claimed, Recorded
<1>9. FailedOK' /\ StartedOK'
  BY <1>0, <1>2, <1>3, <1>8, KeepClaims DEF ReceiptInv
<1> QED  BY <1>5, <1>6, <1>7, <1>9 DEF ReceiptInv

\* Every step keeps what the receipts say.
LEMMA ReceiptStep == TypeOK /\ CallInv /\ ReceiptInv /\ [Next]_vars => ReceiptInv'
<1> SUFFICES ASSUME TypeOK, CallInv, ReceiptInv, [Next]_vars PROVE ReceiptInv'
  OBVIOUS
<1>1. CASE Tick \/ UNCHANGED vars
  BY <1>1, OpenBeforeReceipts DEF Tick, vars, hostVars, ledgerVars, historyVars
<1>2. ASSUME NEW i \in Instances, OpenApprovals(i) \/ OpenLedger(i) PROVE ReceiptInv'
  <2>1. UNCHANGED <<rcptVars, callVars, ledgerDisk, spawns>>
    BY <1>2 DEF OpenApprovals, OpenLedger, ledgerVars, historyVars
  <2>2. \A k \in Instances : startup[k] = "up" => startup'[k] = "up"
    BY <1>2 DEF OpenApprovals, OpenLedger, TypeOK
  <2>3. \A k \in Instances : "receipts" \in degraded[k] => "receipts" \in degraded'[k]
    <3>1. PICK s : Acquire(i, s) \/ OpensDegraded(i, s)
      BY <1>2 DEF OpenApprovals, OpenLedger
    <3>2. \A k \in Instances : degraded'[k] = degraded[k] \/ degraded'[k] = degraded[k] \cup {s}
      BY <3>1 DEF Acquire, OpensDegraded, TypeOK
    <3> QED  BY <3>2
  <2> QED  BY <2>1, <2>2, <2>3, OpenBeforeReceipts
<1>3. ASSUME NEW i \in Instances, OpenReceipts(i) \/ Crash(i) PROVE ReceiptInv'
  BY <1>3, OpenReceiptsReceipts, CrashReceipts
<1>4. ASSUME NEW t \in Threads, Call(t) PROVE ReceiptInv'
  <2>1. PICK i \in Instances : \E p, a : \E l \in {"accepting", "grantPersist", "withdrawPersist"} :
            Begin(t, i, p, a, l)
    BY <1>4 DEF Call, Grant, Withdraw, Execute
  <2>2. UNCHANGED <<startup, degraded, rcptMem, rcptDisk, ledgerDisk, spawns>>
    BY <1>4 DEF Call, Grant, Withdraw, Execute, hostVars, rcptVars, ledgerVars, historyVars
  <2> QED  BY <2>1, <2>2, BeginReceipts
<1>5. ASSUME NEW t \in Threads,
             PersistGrant(t) \/ PersistWithdraw(t) \/ RecordExecutionId(t)
      PROVE  ReceiptInv'
  <2>1. /\ pc[t] \in {"grantPersist", "withdrawPersist", "auditing"} /\ Return(t)
        /\ UNCHANGED <<startup, degraded, ledgerDisk, rcptMem, rcptDisk, spawns>>
    BY <1>5 DEF PersistGrant, PersistWithdraw, RecordExecutionId, hostVars, ledgerVars, rcptVars,
           historyVars
  <2>2. ~Holding(t)
    BY <2>1 DEF Holding, HoldsAccepted, HoldsStarted, Persisting
  <2> QED  BY <2>1, <2>2, ReturnReceipts
<1>6. ASSUME NEW t \in Threads, Accept(t) \/ SpawnProcess(t) PROVE ReceiptInv'
  BY <1>6, AcceptReceipts, SpawnProcessReceipts
<1>7. ASSUME NEW t \in Threads, PersistAccept(t) PROVE ReceiptInv'
  <2>1. PersistLedger(t, "acceptPersist", "reserving")
    BY <1>7 DEF PersistAccept
  <2> QED  BY <2>1, PersistLedgerReceipts
<1>8. ASSUME NEW t \in Threads, PersistReserve(t) PROVE ReceiptInv'
  <2> DEFINE n == IF job[t].plan \in Guarded THEN "consuming" ELSE "inserting"
  <2>1. PersistLedger(t, "reservePersist", n) /\ n \in {"reserving", "consuming", "inserting"}
    BY <1>8 DEF PersistReserve
  <2> HIDE DEF n
  <2> QED  BY <2>1, PersistLedgerReceipts
<1>9. ASSUME NEW t \in Threads, Reserve(t) \/ Consume(t) \/ PersistConsume(t) PROVE ReceiptInv'
  <2>1. /\ pc[t] \in {"reserving", "consuming", "consumePersist"} /\ pc[t] # "idle" /\ MayRun(t)
        /\ UNCHANGED <<startup, degraded, ledgerDisk, rcptMem, rcptDisk, spawns>>
    BY <1>9 DEF Reserve, Consume, PersistConsume, hostVars, ledgerVars, rcptVars, historyVars,
           MayRun, BeforeSpawn
  <2>2. ~Holding(t)
    BY <2>1 DEF Holding, HoldsAccepted, HoldsStarted, Persisting
  <2>3. CASE Return(t)
    BY <2>1, <2>2, <2>3, ReturnReceipts
  <2>4. ASSUME NEW l \in {"reservePersist", "consumePersist", "inserting"}, Goto(t, l)
        PROVE  ReceiptInv'
    <3>1. ~Holding(t)'
      BY <2>4 DEF Goto, TypeOK, Holding, HoldsAccepted, HoldsStarted, Persisting
    <3> QED  BY <2>1, <2>2, <2>4, <3>1, GotoReceipts
  <2> QED  BY <1>9, <2>3, <2>4 DEF Reserve, Consume, PersistConsume
<1>10. ASSUME NEW t \in Threads,
              InsertAccepted(t) \/ SpawnFails(t) \/ MarkSpawnStarted(t) \/ MarkCompleted(t)
              \/ MarkUnknown(t)
       PROVE  ReceiptInv'
  <2>1. PICK to, then : MarkArgs(t, to, then) /\ MarkReceipt(t, to, then)
    BY <1>10 DEF InsertAccepted, SpawnFails, MarkSpawnStarted, MarkCompleted, MarkUnknown, MarkArgs
  <2>2. ReceiptUnchanged
    BY <1>10 DEF InsertAccepted, SpawnFails, MarkSpawnStarted, MarkCompleted, MarkUnknown
  <2> QED  BY <2>1, <2>2, MarkReceiptReceipts
<1>11. ASSUME NEW t \in Threads, SnapshotReceipts(t) \/ WriteReceipts(t) PROVE ReceiptInv'
  BY <1>11, SnapshotReceiptsReceipts, WriteReceiptsReceipts
<1> QED  BY <1>1, <1>2, <1>3, <1>4, <1>5, <1>6, <1>7, <1>8, <1>9, <1>10, <1>11
            DEF Next, Host, Progress

-----------------------------------------------------------------------------
(* The theorems *)

AccountInv == IInv /\ ApprovalInv /\ ReceiptInv

LEMMA AccountInit == Init => ApprovalInv /\ ReceiptInv
<1> SUFFICES ASSUME Init PROVE ApprovalInv /\ ReceiptInv
  OBVIOUS
<1> USE DEF Init, EmptyApprovals, NoRecord, EmptyLedger, NoReceipts, NoJob, Stores
<1>1. ApprovalOwnerOK /\ ApprovalsCovered /\ ReservationsCovered /\ SpawnsOK /\ WithdrawalHolds
  BY DEF ApprovalOwnerOK, ApprovalsCovered, ReservationsCovered, SpawnsOK, WithdrawalHolds, Refused
<1>2. GrantsOK
  BY DEF GrantsOK, OneLiveGrantPerPlan, OneLiveGrant
<1>3. CallsOK
  BY DEF CallsOK, CallOK, ExecutePC, ReservedPC, ConsumedPC
<1>4. FailedOK /\ StartedOK
  BY DEF FailedOK, StartedOK, Failed, Started, Claimed
<1>5. \A t \in Threads : ~HoldsAccepted(t) /\ ~HoldsStarted(t)
  BY DEF HoldsAccepted, HoldsStarted, Persisting
<1>6. UpOK /\ ReceiptOK /\ InFlightOK
  BY <1>5 DEF UpOK, ReceiptOK, InFlightOK
<1> QED  BY <1>1, <1>2, <1>3, <1>4, <1>6 DEF ApprovalInv, ReceiptInv

\* What the records, the ledger and the receipts account for holds of every state.
THEOREM Accounts == Spec => []AccountInv
<1>1. Init => AccountInv
  BY InitIInv, AccountInit DEF AccountInv
<1>2. AccountInv /\ [Next]_vars => AccountInv'
  <2> SUFFICES ASSUME AccountInv, [Next]_vars PROVE AccountInv'
    OBVIOUS
  <2>1. TypeOK /\ CallInv /\ ApprovalInv /\ ReceiptInv
    BY DEF AccountInv, IInv, CallInv
  <2>2. IInv'
    BY InvStep DEF AccountInv
  <2>3. ApprovalInv'
    BY <2>1, AccountStep
  <2>4. ReceiptInv'
    BY <2>1, ReceiptStep
  <2> QED  BY <2>2, <2>3, <2>4 DEF AccountInv
<1>3. QED
  BY <1>1, <1>2, PTL DEF Spec

\* A process exists only for a plan that is durably reserved and, when it is guarded,
\* under one durably consumed approval of that plan (Broker::execute's order of persists).
THEOREM EverySpawnAccounted == Spec => []SpawnIsAccounted
<1>1. AccountInv => SpawnIsAccounted
  <2> SUFFICES ASSUME AccountInv, NEW p \in Plans, spawns[p] > 0
               PROVE  /\ ledgerDisk[p] = "reserved"
                      /\ p \in Guarded =>
                            \E a \in Approvals : /\ spawnedWith[p] = a
                                                 /\ apprDisk[a].plan = p
                                                 /\ apprDisk[a].status = "consumed"
    BY DEF SpawnIsAccounted
  <2>1. ledgerDisk[p] = "reserved"
    BY DEF AccountInv, ApprovalInv, SpawnsOK
  <2>2. p \in Guarded => /\ spawnedWith[p] # None /\ apprDisk[spawnedWith[p]].plan = p
                         /\ apprDisk[spawnedWith[p]].status = "consumed"
    BY DEF AccountInv, ApprovalInv, SpawnsOK
  <2>3. spawnedWith[p] # None => spawnedWith[p] \in Approvals
    BY DEF AccountInv, IInv, TypeOK
  <2> QED  BY <2>1, <2>2, <2>3
<1>2. QED
  BY <1>1, Accounts, PTL

\* A denial or revocation that returned Ok is on disk for good and no process is created
\* under it (ApprovalStore deny, revoke and consume_if_granted).
THEOREM WithdrawalsHold == Spec => []WithdrawalHolds
<1>1. AccountInv => WithdrawalHolds
  BY DEF AccountInv, ApprovalInv
<1>2. QED
  BY <1>1, Accounts, PTL

\* The approval file never holds two live grants of one plan (ApprovalStore::grant_at).
THEOREM OneGrant == Spec => []OneLiveGrantPerPlan
<1>1. AccountInv => OneLiveGrantPerPlan
  BY DEF AccountInv, ApprovalInv, GrantsOK
<1>2. QED
  BY <1>1, Accounts, PTL

\* A receipt that says started or completed, in memory or on disk, is of a plan that had
\* a process, and none says that the spawn failed while a call has a contained process in
\* its care (runner.rs on_spawn_failed and on_spawned, readback/store.rs).
THEOREM ReceiptsAreTrue == Spec => []ReceiptsKnowTheProcess
<1>1. AccountInv => ReceiptsKnowTheProcess
  <2> SUFFICES ASSUME AccountInv, NEW p \in Plans
               PROVE  /\ Claims(p) \cap {"spawn_started", "completed"} # {} => spawns[p] > 0
                      /\ "spawn_failed" \in Claims(p) =>
                            \A t \in Threads : pc[t] \in {"marking", "waiting"} => job[t].plan # p
    BY DEF ReceiptsKnowTheProcess
  <2>1. Claims(p) \cap {"spawn_started", "completed"} # {} => Started(p)
    BY DEF Claims, Started, Claimed
  <2>2. "spawn_failed" \in Claims(p) => Failed(p)
    BY DEF Claims, Failed, Claimed
  <2> QED  BY <2>1, <2>2 DEF AccountInv, ReceiptInv, FailedOK, StartedOK, MayRun
<1>2. QED
  BY <1>1, Accounts, PTL

\* A receipt in flight has a thread behind it unless the store failed closed: every error
\* path settles its receipt (mod.rs execute, runner.rs, readback/store.rs).
THEOREM NoOrphanReceipt == Spec => []InFlightHasAThread
<1>1. AccountInv => InFlightHasAThread
  BY DEF AccountInv, ReceiptInv, InFlightOK, InFlightHasAThread
<1>2. QED
  BY <1>1, Accounts, PTL
=============================================================================
