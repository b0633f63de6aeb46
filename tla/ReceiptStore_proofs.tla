------------------------ MODULE ReceiptStore_proofs ------------------------
(***************************************************************************)
(* Proofs about ReceiptStore, for any number of threads, crashes and       *)
(* failed writes: type correctness, that a read-back stays eligible, that  *)
(* attempts are exclusive and bounded, and that the file of a healthy      *)
(* store is never further along than its memory.  That the file can always *)
(* be read and loses nothing is no theorem: two writers break it.          *)
(***************************************************************************)
EXTENDS ReceiptStore, FiniteSetTheorems, TLAPS

(* The invariant *)

Persisting(t) == pc[t] \in {"snapshot", "create", "write", "sync", "rename"}

\* The call holds its attempt; it works on a read-back.
Holding(t) == pc[t] \in {"observing", "settling"} \/ (Persisting(t) /\ job[t].then = "observing")
Reading(t) == pc[t] = "reserving" \/ Holding(t)

Eligible == ReceiptState \ {"none", "accepted", "spawn_failed"}

\* A receipt nobody inserted was never read back, and the bound holds of each.
SoundReceipt(receipt) ==
    /\ receipt.state = "none" => Tried(receipt) = {}
    /\ IsFiniteSet(Tried(receipt))
    /\ Cardinality(Tried(receipt)) <= MaxVerificationAttempts

Sound(receipts) == \A r \in Receipts : SoundReceipt(receipts[r])

SoundOK ==
    /\ Sound(mem)
    /\ \A t \in Threads : Sound(snap[t])
    /\ \A f \in Files : content[f] # Torn => Sound(content[f])

JobOK ==
    \A t \in Threads :
        /\ pc[t] # "idle" => open /\ job[t].receipt \in Receipts
        /\ Reading(t) => job[t].attempt \in Attempts
        /\ job[t].then \in {"idle", "spawning", "waiting", "observing"}

\* A read-back works on an eligible receipt; one that holds its attempt holds it alone.
ReadingOK ==
    /\ \A t \in Threads : Reading(t) => mem[job[t].receipt].state \in Eligible
    /\ \A t \in Threads : Holding(t) => mem[job[t].receipt].attempts[job[t].attempt] = "running"
    /\ \A t, u \in Threads :
          /\ Holding(t) /\ Holding(u)
          /\ job[t].receipt = job[u].receipt /\ job[t].attempt = job[u].attempt
          => t = u

IInv == TypeOK /\ JobOK /\ ReadingOK /\ SoundOK

\* What is on disk, taken to be written or already in the temporary file is no further
\* along than memory; a temporary file that nobody writes is left from an earlier process.
Writing(t) == pc[t] \in {"write", "sync", "rename"}

AheadOK ==
    open /\ ~degraded =>
        /\ Stored # Torn => Behind(Stored, mem)
        /\ \A t \in Threads : pc[t] \in {"create", "write"} => Behind(snap[t], mem)
        /\ temp # None /\ content[temp] # Torn /\ (\E t \in Threads : Writing(t)) =>
              Behind(content[temp], mem)
-----------------------------------------------------------------------------
USE ReceiptStoreAssumption

(* Types *)

\* The fields of a receipt, whatever their number of attempts.
Fields == [state : ReceiptState, attempts : [Attempts -> AttemptStatus]]

LEMMA Constants ==
    /\ NoReceipt \in Receipt /\ Empty \in Snapshot /\ NoJob \in Job
    /\ \A receipt \in Receipt : receipt.state \in ReceiptState
                               /\ receipt.attempts \in [Attempts -> AttemptStatus]
    /\ \A j \in Job : /\ j.receipt \in Receipts \cup {None} /\ j.attempt \in Attempts \cup {None}
                      /\ j.then \in PC
<1>1. Tried(NoReceipt) = {} /\ NoReceipt \in Fields
  BY DEF Tried, NoReceipt, Fields, ReceiptState, AttemptStatus
<1>2. Cardinality({}) = 0
  BY FS_EmptySet
<1>3. NoReceipt \in Receipt
  BY <1>1, <1>2 DEF Receipt, Fields
<1> QED  BY <1>3 DEF Receipt, Empty, Snapshot, NoJob, Job, PC

LEMMA StateChange ==
    ASSUME NEW receipt \in Receipt, NEW to \in ReceiptState
    PROVE  /\ [receipt EXCEPT !.state = to] \in Receipt
           /\ [receipt EXCEPT !.state = to].state = to
           /\ [receipt EXCEPT !.state = to].attempts = receipt.attempts
<1> DEFINE new == [receipt EXCEPT !.state = to]
<1>1. new \in Fields /\ new.state = to /\ new.attempts = receipt.attempts
  BY DEF Receipt, Fields
<1> HIDE DEF new
<1>2. Tried(new) = Tried(receipt)
  BY <1>1 DEF Tried
<1>3. new \in Receipt
  BY <1>1, <1>2 DEF Receipt, Fields
<1> QED  BY <1>1, <1>3 DEF new

LEMMA AttemptChange ==
    ASSUME NEW receipt \in Receipt, NEW a \in Attempts, NEW status \in AttemptStatus
    PROVE  /\ [receipt EXCEPT !.attempts[a] = status] \in Fields
           /\ [receipt EXCEPT !.attempts[a] = status].state = receipt.state
           /\ [receipt EXCEPT !.attempts[a] = status].attempts = [receipt.attempts EXCEPT ![a] = status]
  BY DEF Receipt, Fields

LEMMA ThenChange ==
    ASSUME NEW j \in Job, NEW then \in PC
    PROVE  /\ [j EXCEPT !.then = then] \in Job
           /\ [j EXCEPT !.then = then].receipt = j.receipt
           /\ [j EXCEPT !.then = then].attempt = j.attempt
           /\ [j EXCEPT !.then = then].then = then
  BY DEF Job

\* A restart settles the receipts in flight and keeps everything else.
LEMMA RecoveredIs ==
    ASSUME NEW receipts \in Snapshot
    PROVE  /\ Recovered(receipts) \in Snapshot
           /\ \A r \in Receipts :
                 /\ Recovered(receipts)[r].attempts = receipts[r].attempts
                 /\ Recovered(receipts)[r].state = "none" => receipts[r].state = "none"
                 /\ Follows(receipts[r].state, Recovered(receipts)[r].state)
<1>1. ASSUME NEW r \in Receipts
      PROVE  /\ Recovered(receipts)[r] \in Receipt
             /\ Recovered(receipts)[r].attempts = receipts[r].attempts
             /\ Recovered(receipts)[r].state = "none" => receipts[r].state = "none"
             /\ Follows(receipts[r].state, Recovered(receipts)[r].state)
  <2>1. receipts[r] \in Receipt /\ "unknown_after_crash" \in ReceiptState
    BY DEF Snapshot, ReceiptState
  <2>2. CASE receipts[r].state \in {"accepted", "spawn_started"}
    <3>1. Recovered(receipts)[r] = [receipts[r] EXCEPT !.state = "unknown_after_crash"]
      BY <2>2 DEF Recovered
    <3> QED  BY <2>1, <2>2, <3>1, StateChange DEF Follows, TransitionAllowed
  <2>3. CASE receipts[r].state \notin {"accepted", "spawn_started"}
    <3>1. Recovered(receipts)[r] = receipts[r]
      BY <2>3 DEF Recovered
    <3> QED  BY <2>1, <3>1 DEF Follows
  <2> QED  BY <2>2, <2>3
<1>2. Recovered(receipts) = [r \in Receipts |-> Recovered(receipts)[r]]
  BY DEF Recovered
<1>3. Recovered(receipts) \in Snapshot
  BY <1>1, <1>2 DEF Snapshot
<1> QED  BY <1>1, <1>3

(* The bound on attempts *)

LEMMA NoneTried == Tried(NoReceipt) = {} /\ Sound(Empty)
<1>1. Tried(NoReceipt) = {}
  BY DEF Tried, NoReceipt
<1>2. IsFiniteSet({}) /\ Cardinality({}) = 0
  BY FS_EmptySet
<1>3. SoundReceipt(NoReceipt)
  BY <1>1, <1>2 DEF SoundReceipt
<1> QED  BY <1>1, <1>3 DEF Sound, Empty

LEMMA SameAttempts ==
    ASSUME NEW old, NEW new, SoundReceipt(old), new.attempts = old.attempts,
           new.state = "none" => old.state = "none"
    PROVE  SoundReceipt(new)
  BY DEF SoundReceipt, Tried

LEMMA RecoveredSound ==
    ASSUME NEW receipts \in Snapshot, Sound(receipts)
    PROVE  Sound(Recovered(receipts))
  BY RecoveredIs, SameAttempts DEF Sound

\* Setting an attempt tries at most one more.
LEMMA AttemptTried ==
    ASSUME NEW receipt \in Receipt, NEW a \in Attempts, NEW status \in AttemptStatus \ {"none"}
    PROVE  Tried([receipt EXCEPT !.attempts[a] = status]) = Tried(receipt) \cup {a}
<1> DEFINE new == [receipt EXCEPT !.attempts[a] = status]
<1>1. new.attempts = [receipt.attempts EXCEPT ![a] = status]
  BY AttemptChange
<1> HIDE DEF new
<1>2. \A b \in Attempts : new.attempts[b] = IF b = a THEN status ELSE receipt.attempts[b]
  BY <1>1, Constants
<1>3. Tried(new) = Tried(receipt) \cup {a}
  BY <1>2 DEF Tried
<1> QED  BY <1>3 DEF new

LEMMA ReserveSound ==
    ASSUME NEW receipt \in Receipt, NEW a \in Attempts, SoundReceipt(receipt),
           receipt.state # "none", receipt.attempts[a] = "none",
           Cardinality(Tried(receipt)) < MaxVerificationAttempts
    PROVE  SoundReceipt([receipt EXCEPT !.attempts[a] = "running"])
<1> DEFINE new == [receipt EXCEPT !.attempts[a] = "running"]
           T == Tried(receipt)
<1>1. "running" \in AttemptStatus \ {"none"}
  BY DEF AttemptStatus
<1>2. Tried(new) = T \cup {a} /\ new.state = receipt.state
  BY <1>1, AttemptTried, AttemptChange
<1>3. a \notin T /\ IsFiniteSet(T)
  BY DEF Tried, SoundReceipt
<1>4. IsFiniteSet(T \cup {a}) /\ Cardinality(T \cup {a}) = Cardinality(T) + 1
  BY <1>3, FS_AddElement
<1>5. Cardinality(T) \in Nat
  BY <1>3, FS_CardinalityType
<1> HIDE DEF new, T
<1>6. IsFiniteSet(Tried(new)) /\ Cardinality(Tried(new)) <= MaxVerificationAttempts
  <2>1. Cardinality(T) < MaxVerificationAttempts
    BY DEF T
  <2> QED  BY <1>2, <1>4, <1>5, <2>1
<1>7. SoundReceipt(new)
  BY <1>2, <1>6 DEF SoundReceipt
<1> QED  BY <1>7 DEF new

LEMMA SettleSound ==
    ASSUME NEW receipt \in Receipt, NEW a \in Attempts, SoundReceipt(receipt),
           receipt.state # "none", receipt.attempts[a] # "none",
           NEW status \in AttemptStatus \ {"none"}
    PROVE  SoundReceipt([receipt EXCEPT !.attempts[a] = status])
<1> DEFINE new == [receipt EXCEPT !.attempts[a] = status]
<1>1. Tried(new) = Tried(receipt) \cup {a} /\ new.state = receipt.state
  BY AttemptTried, AttemptChange
<1>2. Tried(new) = Tried(receipt)
  BY <1>1 DEF Tried
<1> HIDE DEF new
<1>3. SoundReceipt(new)
  BY <1>1, <1>2 DEF SoundReceipt
<1> QED  BY <1>3 DEF new

LEMMA StoredIs == TypeOK /\ FileReadable => Stored \in Snapshot
  BY Constants DEF TypeOK, FileReadable, Stored

CallType ==
    /\ pc \in [Threads -> PC]
    /\ job \in [Threads -> Job]
    /\ snap \in [Threads -> Snapshot]
    /\ handle \in [Threads -> Files \cup {None}]

FileType ==
    /\ target \in Files \cup {None}
    /\ temp \in Files \cup {None}
    /\ content \in [Files -> Snapshot \cup {Torn}]

StoreType ==
    /\ open \in BOOLEAN
    /\ degraded \in BOOLEAN
    /\ mem \in Snapshot
    /\ taken \in SUBSET Receipts
    /\ reads \in [Receipts -> SUBSET Attempts]

LEMMA TypeParts ==
    /\ TypeOK <=> CallType /\ FileType /\ StoreType
    /\ TypeOK' <=> CallType' /\ FileType' /\ StoreType'
  BY DEF TypeOK, CallType, FileType, StoreType

LEMMA ReturnType ==
    ASSUME CallType, NEW t \in Threads, Return(t)
    PROVE  CallType'
<1>1. "idle" \in PC
  BY DEF PC
<1> QED  BY <1>1, Constants DEF CallType, Return

LEMMA GotoType ==
    ASSUME CallType, NEW t \in Threads, NEW l \in PC, Goto(t, l)
    PROVE  pc' \in [Threads -> PC]
  BY DEF CallType, Goto

LEMMA UpdateType ==
    ASSUME TypeOK, NEW t \in Threads, NEW r \in Receipts, NEW receipt \in Receipt, NEW then \in PC,
           Update(t, r, receipt, then)
    PROVE  TypeOK'
<1>1. [job[t] EXCEPT !.then = then] \in Job
  BY ThenChange DEF TypeOK
<1>2. job' = [job EXCEPT ![t] = [job[t] EXCEPT !.then = then]]
  BY DEF Update, TypeOK
<1>3. job' \in [Threads -> Job]
  BY <1>1, <1>2 DEF TypeOK
<1>4. mem' \in Snapshot
  BY DEF Update, TypeOK, Snapshot
<1>5. pc' \in [Threads -> PC]
  BY DEF Update, TypeOK, PC
<1> QED  BY <1>3, <1>4, <1>5 DEF Update, TypeOK, fileVars

LEMMA GiveUpType ==
    ASSUME TypeOK, NEW t \in Threads, GiveUp(t)
    PROVE  TypeOK'
<1>1. CallType'
  BY ReturnType, TypeParts DEF GiveUp
<1> QED  BY <1>1, TypeParts DEF GiveUp, FileType, StoreType, fileVars

\* A transition of the table leads to a state.
LEMMA TransitionType ==
    ASSUME TypeOK, NEW t \in Threads, job[t].receipt \in Receipts, NEW to, NEW then \in PC,
           Transition(t, to, then)
    PROVE  TypeOK'
<1> DEFINE r == job[t].receipt
<1>1. CASE GiveUp(t)
  BY <1>1, GiveUpType
<1>2. CASE /\ TransitionAllowed(mem[r].state, to)
           /\ Update(t, r, [mem[r] EXCEPT !.state = to], then)
  <2>1. to \in ReceiptState /\ mem[r] \in Receipt
    BY <1>2 DEF TransitionAllowed, ReceiptState, TypeOK, Snapshot
  <2>2. [mem[r] EXCEPT !.state = to] \in Receipt
    BY <2>1, StateChange
  <2> QED  BY <1>2, <2>2, UpdateType
<1> QED  BY <1>1, <1>2 DEF Transition

LEMMA SetAttemptType ==
    ASSUME TypeOK, NEW t \in Threads, job[t].receipt \in Receipts, job[t].attempt \in Attempts,
           NEW status \in AttemptStatus, NEW then \in PC, SetAttempt(t, status, then),
           SoundReceipt([mem[job[t].receipt] EXCEPT !.attempts[job[t].attempt] = status])
    PROVE  TypeOK'
<1> DEFINE new == [mem[job[t].receipt] EXCEPT !.attempts[job[t].attempt] = status]
<1>1. new \in Fields
  BY AttemptChange DEF TypeOK, Snapshot
<1>2. Update(t, job[t].receipt, new, then)
  BY DEF SetAttempt
<1> HIDE DEF new
<1>3. new \in Receipt
  BY <1>1 DEF new, Receipt, Fields, SoundReceipt
<1> QED  BY <1>2, <1>3, UpdateType

\* Where a call may be taken to is a place of the code.
LEMMA Places == \A then \in {"idle", "spawning", "waiting", "observing"} : then \in PC
  BY DEF PC

LEMMA StageType ==
    ASSUME TypeOK, JobOK, NEW t \in Threads, Persist(t)
    PROVE  TypeOK'
<1>1. CASE TakeSnapshot(t)
  BY <1>1 DEF TakeSnapshot, Goto, TypeOK, PC, fileVars
<1>2. CASE CreateTemp(t)
  <2>1. PICK f \in TempFile : /\ temp' = f /\ content' = [content EXCEPT ![f] = Torn]
                             /\ handle' = [handle EXCEPT ![t] = f]
    BY <1>2 DEF CreateTemp
  <2>2. f \in Files
    BY DEF TempFile, Free, TypeOK
  <2> QED  BY <1>2, <2>1, <2>2 DEF CreateTemp, Goto, TypeOK, PC
<1>3. CASE WriteTemp(t)
  <2>1. PICK bytes \in Snapshot \cup {Torn} : content' = [content EXCEPT ![handle[t]] = bytes]
    <3>1. snap[t] \in Snapshot
      BY DEF TypeOK
    <3> QED  BY <1>3, <3>1 DEF WriteTemp
  <2>2. FileType'
    BY <1>3, <2>1 DEF WriteTemp, TypeOK, FileType
  <2>3. CallType' /\ StoreType'
    BY <1>3 DEF WriteTemp, Goto, TypeOK, PC, CallType, StoreType
  <2> QED  BY <2>2, <2>3, TypeParts
<1>4. CASE SyncTemp(t)
  BY <1>4 DEF SyncTemp, Goto, TypeOK, PC, fileVars
<1>5. CASE RenameTemp(t)
  <2>1. job[t].then \in PC
    BY Places DEF JobOK
  <2>2. job' \in [Threads -> Job]
    BY <1>5, Constants DEF RenameTemp, TypeOK
  <2>3. pc' \in [Threads -> PC] /\ snap' \in [Threads -> Snapshot]
    BY <1>5, <2>1, Constants DEF RenameTemp, TypeOK
  <2> QED  BY <1>5, <2>2, <2>3 DEF RenameTemp, TypeOK
<1>6. CASE PersistFails(t)
  <2>1. CallType'
    BY <1>6, ReturnType, TypeParts DEF PersistFails
  <2> QED  BY <1>6, <2>1, TypeParts DEF PersistFails, FileType, StoreType
<1> QED  BY <1>1, <1>2, <1>3, <1>4, <1>5, <1>6 DEF Persist

LEMMA TypeStep == IInv /\ [Next]_vars => TypeOK'
<1> SUFFICES ASSUME TypeOK, JobOK, ReadingOK, SoundOK, [Next]_vars PROVE TypeOK'
  BY DEF IInv
<1>1. CASE UNCHANGED vars
  BY <1>1 DEF vars, fileVars, callVars, TypeOK
<1>2. CASE OpenStore
  <2>1. CASE degraded' = TRUE /\ UNCHANGED <<mem, fileVars>>
    BY <1>2, <2>1 DEF OpenStore, TypeOK, fileVars, callVars
  <2>2. CASE Stored # Torn /\ mem' = Recovered(Stored) /\ UNCHANGED degraded
             /\ (UNCHANGED fileVars \/ \E f \in TempFile : /\ content' = [content EXCEPT ![f] = mem']
                                                         /\ target' = f /\ temp' = None)
    <3>1. mem' \in Snapshot
      BY <2>2, StoredIs, RecoveredIs DEF FileReadable
    <3>2. FileType'
      <4>1. CASE UNCHANGED fileVars
        BY <4>1 DEF fileVars, TypeOK, FileType
      <4>2. ASSUME NEW f \in TempFile, content' = [content EXCEPT ![f] = mem'], target' = f, temp' = None
            PROVE  FileType'
        BY <3>1, <4>2 DEF TempFile, Free, TypeOK, FileType
      <4> QED  BY <2>2, <4>1, <4>2
    <3>3. CallType' /\ StoreType'
      BY <1>2, <2>2, <3>1 DEF OpenStore, TypeOK, CallType, StoreType, callVars
    <3> QED  BY <3>2, <3>3, TypeParts
  <2> QED  BY <1>2, <2>1, <2>2 DEF OpenStore
<1>3. CASE Crash
  <2>1. "idle" \in PC
    BY DEF PC
  <2> QED  BY <1>3, <2>1, Constants DEF Crash, TypeOK, fileVars
<1>4. ASSUME NEW t \in Threads, NEW r \in Receipts, BeginExecution(t, r) PROVE TypeOK'
  <2>1. [receipt |-> r, attempt |-> None, then |-> "idle"] \in Job /\ "inserting" \in PC
    BY DEF Job, PC
  <2> QED  BY <1>4, <2>1 DEF BeginExecution, Goto, TypeOK, fileVars
<1>5. ASSUME NEW t \in Threads, NEW r \in Receipts, NEW a \in Attempts, BeginReadback(t, r, a)
      PROVE  TypeOK'
  <2>1. [receipt |-> r, attempt |-> a, then |-> "idle"] \in Job /\ "reserving" \in PC
    BY DEF Job, PC
  <2> QED  BY <1>5, <2>1 DEF BeginReadback, Goto, TypeOK, fileVars
<1>6. ASSUME NEW t \in Threads, InsertAccepted(t) PROVE TypeOK'
  <2>1. job[t].receipt \in Receipts /\ "spawning" \in PC /\ "accepted" \in ReceiptState
    BY <1>6 DEF InsertAccepted, JobOK, PC, ReceiptState
  <2>2. [NoReceipt EXCEPT !.state = "accepted"] \in Receipt
    BY <2>1, Constants, StateChange
  <2> QED  BY <1>6, <2>1, <2>2, UpdateType, GiveUpType DEF InsertAccepted
<1>7. ASSUME NEW t \in Threads, Spawn(t) \/ Finish(t) PROVE TypeOK'
  <2>1. job[t].receipt \in Receipts
    BY <1>7 DEF Spawn, Finish, JobOK
  <2>2. PICK to \in ReceiptState, then \in {"idle", "waiting"} : Transition(t, to, then)
    BY <1>7 DEF Spawn, Finish, ReceiptState
  <2>3. then \in PC
    BY Places
  <2> QED  BY <2>1, <2>2, <2>3, TransitionType
<1>8. ASSUME NEW t \in Threads, ReserveAttempt(t) \/ SettleAttempt(t) PROVE TypeOK'
  <2> DEFINE r == job[t].receipt
             a == job[t].attempt
  <2>1. r \in Receipts /\ a \in Attempts /\ mem[r] \in Receipt /\ SoundReceipt(mem[r])
        /\ mem[r].state # "none"
    BY <1>8 DEF ReserveAttempt, SettleAttempt, JobOK, ReadingOK, Reading, Holding, TypeOK, Snapshot,
           SoundOK, Sound, Eligible
  <2>2. CASE GiveUp(t)
    BY <2>2, GiveUpType
  <2>3. CASE /\ a \notin Tried(mem[r])
             /\ Cardinality(Tried(mem[r])) < MaxVerificationAttempts
             /\ SetAttempt(t, "running", "observing")
    <3>1. SoundReceipt([mem[r] EXCEPT !.attempts[a] = "running"])
      BY <2>1, <2>3, ReserveSound DEF Tried
    <3>2. "running" \in AttemptStatus /\ "observing" \in PC
      BY Places DEF AttemptStatus
    <3> QED  BY <2>1, <2>3, <3>1, <3>2, SetAttemptType
  <2>4. ASSUME pc[t] = "settling", NEW status \in {"completed", "failed"}, SetAttempt(t, status, "idle")
        PROVE  TypeOK'
    <3>1. mem[r].attempts[a] # "none"
      BY <2>4 DEF ReadingOK, Holding
    <3>2. status \in AttemptStatus \ {"none"} /\ "idle" \in PC
      BY Places DEF AttemptStatus
    <3>3. SoundReceipt([mem[r] EXCEPT !.attempts[a] = status])
      BY <2>1, <3>1, <3>2, SettleSound
    <3> QED  BY <2>1, <2>4, <3>2, <3>3, SetAttemptType
  <2> QED  BY <1>8, <2>2, <2>3, <2>4 DEF ReserveAttempt, SettleAttempt
<1>9. ASSUME NEW t \in Threads, Observe(t) PROVE TypeOK'
  <2>1. job[t].receipt \in Receipts /\ job[t].attempt \in Attempts
    BY <1>9 DEF Observe, JobOK, Reading, Holding
  <2> QED  BY <1>9, <2>1 DEF Observe, Goto, TypeOK, PC, fileVars
<1>10. ASSUME NEW t \in Threads, Persist(t) PROVE TypeOK'
  BY <1>10, StageType
<1> QED  BY <1>1, <1>2, <1>3, <1>4, <1>5, <1>6, <1>7, <1>8, <1>9, <1>10 DEF Next, Execution, Readback

-----------------------------------------------------------------------------
(* Calls *)

\* What a step of call t leaves of the others.
LEMMA OthersStay ==
    ASSUME TypeOK, NEW t \in Threads, NEW l, NEW j,
           pc' = [pc EXCEPT ![t] = l], job' = [job EXCEPT ![t] = j]
    PROVE  /\ pc'[t] = l /\ job'[t] = j
           /\ \A u \in Threads : u # t =>
                 /\ pc'[u] = pc[u] /\ job'[u] = job[u]
                 /\ Persisting(u)' <=> Persisting(u)
                 /\ Holding(u)' <=> Holding(u)
                 /\ Reading(u)' <=> Reading(u)
  BY DEF TypeOK, Persisting, Holding, Reading

\* A call goes on or ends, and the receipts in memory stay.
LEMMA CallMoves ==
    ASSUME TypeOK, JobOK, ReadingOK, NEW t \in Threads, NEW l, NEW j,
           pc' = [pc EXCEPT ![t] = l], job' = [job EXCEPT ![t] = j],
           UNCHANGED <<open, mem>>,
           l # "idle" => /\ pc[t] # "idle"
                         /\ j.receipt = job[t].receipt /\ j.attempt = job[t].attempt,
           j.then \in {"idle", "spawning", "waiting", "observing"},
           Reading(t)' => Reading(t) /\ l # "idle",
           Holding(t)' => Holding(t)
    PROVE  JobOK' /\ ReadingOK'
<1>1. /\ pc'[t] = l /\ job'[t] = j
      /\ \A u \in Threads : u # t =>
            /\ pc'[u] = pc[u] /\ job'[u] = job[u]
            /\ Holding(u)' <=> Holding(u)
            /\ Reading(u)' <=> Reading(u)
  <2>1. /\ TypeOK /\ pc' = [pc EXCEPT ![t] = l] /\ job' = [job EXCEPT ![t] = j]
    OBVIOUS
  <2> QED  BY ONLY <2>1, t \in Threads, OthersStay
<1>2. Holding(t)' => Reading(t)'
  BY DEF Reading
<1>3. JobOK'
  BY <1>1 DEF JobOK
<1>4. \A u \in Threads : Holding(u)' =>
          Holding(u) /\ job'[u].receipt = job[u].receipt /\ job'[u].attempt = job[u].attempt
  BY <1>1, <1>2
<1>5. \A u \in Threads : Reading(u)' => Reading(u) /\ job'[u].receipt = job[u].receipt
  BY <1>1
<1>6. ReadingOK'
  BY <1>4, <1>5 DEF ReadingOK
<1> QED  BY <1>3, <1>6

LEMMA ReturnShape ==
    ASSUME TypeOK, NEW t \in Threads, Return(t)
    PROVE  /\ pc' = [pc EXCEPT ![t] = "idle"] /\ job' = [job EXCEPT ![t] = NoJob]
           /\ ~Reading(t)' /\ ~Holding(t)' /\ ~Persisting(t)' /\ NoJob.then = "idle"
  BY DEF Return, TypeOK, Reading, Holding, Persisting, NoJob

LEMMA ReturnCalls ==
    ASSUME TypeOK, JobOK, ReadingOK, NEW t \in Threads, Return(t), UNCHANGED <<open, mem>>
    PROVE  JobOK' /\ ReadingOK'
  BY ReturnShape, CallMoves

\* A call changes the receipt it works on and goes on to persist it.
LEMMA UpdateCalls ==
    ASSUME TypeOK, JobOK, ReadingOK, NEW t \in Threads, NEW receipt, NEW then,
           Update(t, job[t].receipt, receipt, then), pc[t] # "idle",
           then \in {"idle", "spawning", "waiting", "observing"},
           mem[job[t].receipt].state \in Eligible =>
              /\ receipt.state \in Eligible
              /\ \A a \in Attempts :
                    receipt.attempts[a] = mem[job[t].receipt].attempts[a]
                    \/ (a = job[t].attempt /\ (Holding(t) \/ then = "observing")),
           then = "observing" =>
              /\ pc[t] = "reserving"
              /\ mem[job[t].receipt].attempts[job[t].attempt] = "none"
              /\ receipt.attempts[job[t].attempt] = "running"
    PROVE  JobOK' /\ ReadingOK'
<1> DEFINE r == job[t].receipt
           j == [job[t] EXCEPT !.then = then]
<1>0. r \in Receipts
  BY DEF JobOK
<1>1. j.receipt = r /\ j.attempt = job[t].attempt /\ j.then = then
  <2>1. job[t] \in Job /\ then \in PC
    BY Places DEF TypeOK
  <2> QED  BY <2>1, ThenChange
<1>2. pc' = [pc EXCEPT ![t] = "snapshot"] /\ job' = [job EXCEPT ![t] = j] /\ UNCHANGED open
  BY DEF Update, TypeOK
<1> HIDE DEF j
<1>3. /\ pc'[t] = "snapshot" /\ job'[t] = j
      /\ \A u \in Threads : u # t =>
            /\ pc'[u] = pc[u] /\ job'[u] = job[u]
            /\ Holding(u)' <=> Holding(u)
            /\ Reading(u)' <=> Reading(u)
  <2>1. /\ TypeOK /\ pc' = [pc EXCEPT ![t] = "snapshot"] /\ job' = [job EXCEPT ![t] = j]
    BY <1>2
  <2> QED  BY ONLY <2>1, t \in Threads, OthersStay
<1>4. /\ Holding(t)' <=> then = "observing"
      /\ Reading(t)' <=> then = "observing"
  BY <1>1, <1>3 DEF Holding, Reading, Persisting
<1>5. \A q \in Receipts : mem'[q] = IF q = r THEN receipt ELSE mem[q]
  BY DEF Update, TypeOK, Snapshot
<1>6. then = "observing" => job[t].attempt \in Attempts /\ mem[r].state \in Eligible
  BY DEF JobOK, ReadingOK, Reading
<1>7. JobOK'
  BY <1>0, <1>1, <1>2, <1>3, <1>4, <1>6 DEF JobOK
<1>8. ASSUME NEW u \in Threads, Reading(u)' PROVE mem'[job'[u].receipt].state \in Eligible
  <2>1. CASE u = t
    BY <1>0, <1>1, <1>3, <1>4, <1>5, <1>6, <1>8, <2>1
  <2>2. CASE u # t
    <3>1. Reading(u) /\ pc[u] # "idle" /\ job'[u] = job[u]
      BY <1>3, <1>8, <2>2 DEF Reading, Holding, Persisting
    <3>2. job[u].receipt \in Receipts /\ mem[job[u].receipt].state \in Eligible
      BY <3>1 DEF JobOK, ReadingOK
    <3> QED  BY <1>5, <3>1, <3>2
  <2> QED  BY <2>1, <2>2
<1>9. ASSUME NEW u \in Threads, Holding(u)'
      PROVE  mem'[job'[u].receipt].attempts[job'[u].attempt] = "running"
  <2>1. CASE u = t
    BY <1>0, <1>1, <1>3, <1>4, <1>5, <1>9, <2>1
  <2>2. CASE u # t
    <3>1. Holding(u) /\ Reading(u) /\ pc[u] # "idle" /\ job'[u] = job[u]
      BY <1>3, <1>9, <2>2 DEF Reading, Holding, Persisting
    <3>2. /\ job[u].receipt \in Receipts /\ job[u].attempt \in Attempts
          /\ mem[job[u].receipt].state \in Eligible
          /\ mem[job[u].receipt].attempts[job[u].attempt] = "running"
      BY <3>1 DEF JobOK, ReadingOK
    <3>3. CASE job[u].receipt = r
      <4>1. job[u].attempt = job[t].attempt => ~Holding(t)
        BY <2>2, <3>1, <3>3 DEF ReadingOK
      <4>2. job[u].attempt = job[t].attempt => then # "observing"
        BY <3>2, <3>3
      <4>3. receipt.attempts[job[u].attempt] = mem[r].attempts[job[u].attempt]
        BY <3>2, <3>3, <4>1, <4>2
      <4> QED  BY <1>0, <1>5, <3>1, <3>2, <3>3, <4>3
    <3>4. CASE job[u].receipt # r
      BY <1>5, <3>1, <3>2, <3>4
    <3> QED  BY <3>3, <3>4
  <2> QED  BY <2>1, <2>2
<1>10. ASSUME NEW u \in Threads, NEW v \in Threads, Holding(u)', Holding(v)',
              job'[u].receipt = job'[v].receipt, job'[u].attempt = job'[v].attempt
       PROVE  u = v
  <2>1. \A w \in Threads : w # t /\ Holding(w) /\ job[w].receipt = r =>
            ~(then = "observing" /\ job[w].attempt = job[t].attempt)
    BY DEF ReadingOK
  <2>2. CASE u = t /\ v # t
    BY <1>1, <1>3, <1>4, <1>10, <2>1, <2>2
  <2>3. CASE v = t /\ u # t
    BY <1>1, <1>3, <1>4, <1>10, <2>1, <2>3
  <2>4. CASE u # t /\ v # t
    BY <1>3, <1>10, <2>4 DEF ReadingOK
  <2> QED  BY <2>2, <2>3, <2>4
<1>11. ReadingOK'
  BY <1>8, <1>9, <1>10 DEF ReadingOK
<1> QED  BY <1>7, <1>11

\* What the calls do to the receipt they work on.
LEMMA StateMoves ==
    ASSUME TypeOK, JobOK, ReadingOK, NEW t \in Threads, NEW to \in ReceiptState,
           NEW then \in {"idle", "waiting"}, Transition(t, to, then), pc[t] # "idle"
    PROVE  JobOK' /\ ReadingOK'
<1> DEFINE r == job[t].receipt
           receipt == [mem[r] EXCEPT !.state = to]
<1>1. CASE GiveUp(t)
  BY <1>1, ReturnCalls DEF GiveUp
<1>2. CASE TransitionAllowed(mem[r].state, to) /\ Update(t, r, receipt, then)
  <2>1. mem[r] \in Receipt
    BY DEF TypeOK, Snapshot, JobOK
  <2>2. receipt.state = to /\ receipt.attempts = mem[r].attempts
    BY <2>1, StateChange
  <2> HIDE DEF receipt
  <2>3. mem[r].state \in Eligible => to \in Eligible
    BY <1>2 DEF TransitionAllowed, Eligible, ReceiptState
  <2> QED  BY <1>2, <2>2, <2>3, UpdateCalls
<1> QED  BY <1>1, <1>2 DEF Transition

LEMMA AttemptMoves ==
    ASSUME TypeOK, JobOK, ReadingOK, NEW t \in Threads, pc[t] \in {"reserving", "settling"},
           NEW status \in AttemptStatus \ {"none"}, NEW then \in {"observing", "idle"},
           \/ /\ pc[t] = "reserving" /\ then = "observing" /\ status = "running"
              /\ mem[job[t].receipt].attempts[job[t].attempt] = "none"
           \/ pc[t] = "settling" /\ then = "idle",
           SetAttempt(t, status, then)
    PROVE  JobOK' /\ ReadingOK'
<1> DEFINE r == job[t].receipt
           a == job[t].attempt
           receipt == [mem[r] EXCEPT !.attempts[a] = status]
<1>1. mem[r] \in Receipt /\ a \in Attempts /\ r \in Receipts
  BY DEF TypeOK, Snapshot, JobOK, Reading, Holding
<1>2. receipt.state = mem[r].state /\ receipt.attempts = [mem[r].attempts EXCEPT ![a] = status]
  BY <1>1, AttemptChange
<1>3. Update(t, r, receipt, then)
  BY DEF SetAttempt
<1> HIDE DEF receipt
<1>4. \A b \in Attempts : receipt.attempts[b] = IF b = a THEN status ELSE mem[r].attempts[b]
  BY <1>1, <1>2, Constants
<1>5. /\ \A b \in Attempts : receipt.attempts[b] = mem[r].attempts[b]
                            \/ (b = a /\ (Holding(t) \/ then = "observing"))
      /\ receipt.attempts[a] = status
  BY <1>1, <1>4 DEF Holding
<1>6. pc[t] # "idle" /\ then \in {"idle", "spawning", "waiting", "observing"}
  OBVIOUS
<1>7. mem[r].state \in Eligible => receipt.state \in Eligible
  BY <1>2
<1> QED  BY <1>3, <1>5, <1>6, <1>7, UpdateCalls

\* A call that begins works on a receipt; a read-back on an eligible one.
LEMMA BeginCalls ==
    ASSUME TypeOK, JobOK, ReadingOK, NEW t \in Threads, NEW r \in Receipts, NEW l, NEW j,
           open, UNCHANGED <<open, mem>>,
           pc' = [pc EXCEPT ![t] = l], job' = [job EXCEPT ![t] = j],
           j.receipt = r, j.then = "idle",
           \/ l = "inserting"
           \/ l = "reserving" /\ j.attempt \in Attempts /\ mem[r].state \in Eligible
    PROVE  JobOK' /\ ReadingOK'
<1>1. /\ pc'[t] = l /\ job'[t] = j
      /\ \A u \in Threads : u # t =>
            /\ pc'[u] = pc[u] /\ job'[u] = job[u]
            /\ Holding(u)' <=> Holding(u)
            /\ Reading(u)' <=> Reading(u)
  BY OthersStay
<1>2. ~Holding(t)' /\ (Reading(t)' => l = "reserving")
  BY <1>1 DEF Holding, Reading, Persisting
<1>3. JobOK'
  BY <1>1, <1>2 DEF JobOK
<1>4. ReadingOK'
  BY <1>1, <1>2 DEF ReadingOK
<1> QED  BY <1>3, <1>4

LEMMA CallStep == TypeOK /\ JobOK /\ ReadingOK /\ [Next]_vars => JobOK' /\ ReadingOK'
<1> SUFFICES ASSUME TypeOK, JobOK, ReadingOK, [Next]_vars PROVE JobOK' /\ ReadingOK'
  OBVIOUS
<1>1. CASE UNCHANGED vars
  BY <1>1 DEF vars, callVars, JobOK, ReadingOK, Reading, Holding, Persisting
<1>2. CASE OpenStore
  <2>1. \A u \in Threads : pc[u] = "idle"
    BY <1>2 DEF OpenStore, JobOK
  <2> QED  BY <1>2, <2>1 DEF OpenStore, callVars, JobOK, ReadingOK, Reading, Holding, Persisting
<1>3. CASE Crash
  <2>1. \A u \in Threads : pc'[u] = "idle" /\ job'[u].then = "idle"
    BY <1>3 DEF Crash, NoJob
  <2> QED  BY <2>1 DEF JobOK, ReadingOK, Reading, Holding, Persisting
<1>4. ASSUME NEW t \in Threads, NEW r \in Receipts, BeginExecution(t, r) PROVE JobOK' /\ ReadingOK'
  BY <1>4, BeginCalls DEF BeginExecution, Goto
<1>5. ASSUME NEW t \in Threads, NEW r \in Receipts, NEW a \in Attempts, BeginReadback(t, r, a)
      PROVE  JobOK' /\ ReadingOK'
  <2>1. mem[r].state \in Eligible
    BY <1>5, Constants DEF BeginReadback, Eligible, TypeOK, Snapshot
  <2> DEFINE j == [receipt |-> r, attempt |-> a, then |-> "idle"]
  <2>2. j.receipt = r /\ j.attempt = a /\ j.then = "idle"
    OBVIOUS
  <2>3. /\ pc' = [pc EXCEPT ![t] = "reserving"] /\ job' = [job EXCEPT ![t] = j]
        /\ open /\ UNCHANGED <<open, mem>>
    BY <1>5 DEF BeginReadback, Goto
  <2> HIDE DEF j
  <2> QED  BY <2>1, <2>2, <2>3, BeginCalls
<1>6. ASSUME NEW t \in Threads, InsertAccepted(t) PROVE JobOK' /\ ReadingOK'
  <2> DEFINE receipt == [NoReceipt EXCEPT !.state = "accepted"]
  <2>1. CASE GiveUp(t)
    BY <2>1, ReturnCalls DEF GiveUp
  <2>2. CASE mem[job[t].receipt].state = "none" /\ Update(t, job[t].receipt, receipt, "spawning")
    <3>1. mem[job[t].receipt].state \notin Eligible /\ pc[t] # "idle"
      BY <1>6, <2>2 DEF Eligible, InsertAccepted
    <3> HIDE DEF receipt
    <3> QED  BY <2>2, <3>1, UpdateCalls
  <2> QED  BY <1>6, <2>1, <2>2 DEF InsertAccepted
<1>7. ASSUME NEW t \in Threads, Spawn(t) \/ Finish(t) PROVE JobOK' /\ ReadingOK'
  <2>1. PICK to \in ReceiptState, then \in {"idle", "waiting"} : Transition(t, to, then)
    BY <1>7 DEF Spawn, Finish, ReceiptState
  <2> QED  BY <1>7, <2>1, StateMoves DEF Spawn, Finish
<1>8. ASSUME NEW t \in Threads, ReserveAttempt(t) \/ SettleAttempt(t) PROVE JobOK' /\ ReadingOK'
  <2>1. CASE GiveUp(t)
    BY <2>1, ReturnCalls DEF GiveUp
  <2>2. CASE /\ pc[t] = "reserving" /\ job[t].attempt \notin Tried(mem[job[t].receipt])
             /\ SetAttempt(t, "running", "observing")
    <3>1. mem[job[t].receipt].attempts[job[t].attempt] = "none"
      BY <2>2 DEF JobOK, Reading, Tried
    <3> QED  BY <2>2, <3>1, AttemptMoves DEF AttemptStatus
  <2>3. ASSUME pc[t] = "settling", NEW status \in {"completed", "failed"}, SetAttempt(t, status, "idle")
        PROVE  JobOK' /\ ReadingOK'
    BY <2>3, AttemptMoves DEF AttemptStatus
  <2> QED  BY <1>8, <2>1, <2>2, <2>3 DEF ReserveAttempt, SettleAttempt
<1>9. ASSUME NEW t \in Threads, NEW l, Goto(t, l), UNCHANGED <<job, open, mem>>, pc[t] # "idle", l # "idle",
             \/ pc[t] \in {"snapshot", "create", "write", "sync"} /\ l \in {"create", "write", "sync", "rename"}
             \/ pc[t] = "observing" /\ l = "settling"
      PROVE  JobOK' /\ ReadingOK'
  <2>1. pc' = [pc EXCEPT ![t] = l] /\ job' = [job EXCEPT ![t] = job[t]] /\ pc'[t] = l
    BY <1>9 DEF Goto, TypeOK
  <2>2. (Reading(t)' => Reading(t)) /\ (Holding(t)' => Holding(t))
    BY <1>9, <2>1 DEF Reading, Holding, Persisting
  <2>3. job[t].then \in {"idle", "spawning", "waiting", "observing"}
    BY DEF JobOK
  <2> QED  BY <1>9, <2>1, <2>2, <2>3, CallMoves
<1>10. ASSUME NEW t \in Threads, Observe(t) PROVE JobOK' /\ ReadingOK'
  BY <1>9, <1>10 DEF Observe
<1>11. ASSUME NEW t \in Threads, TakeSnapshot(t) \/ CreateTemp(t) \/ WriteTemp(t) \/ SyncTemp(t)
       PROVE  JobOK' /\ ReadingOK'
  BY <1>9, <1>11 DEF TakeSnapshot, CreateTemp, WriteTemp, SyncTemp
<1>12. ASSUME NEW t \in Threads, PersistFails(t) PROVE JobOK' /\ ReadingOK'
  BY <1>12, ReturnCalls DEF PersistFails
<1>13. ASSUME NEW t \in Threads, RenameTemp(t) PROVE JobOK' /\ ReadingOK'
  <2> DEFINE j == IF job[t].then = "idle" THEN NoJob ELSE job[t]
             l == job[t].then
  <2>1. pc' = [pc EXCEPT ![t] = l] /\ job' = [job EXCEPT ![t] = j] /\ UNCHANGED <<open, mem>>
    BY <1>13 DEF RenameTemp
  <2>2. l \in {"idle", "spawning", "waiting", "observing"} /\ pc[t] = "rename"
    BY <1>13 DEF RenameTemp, JobOK
  <2>3. (l # "idle" => j = job[t]) /\ j.then = l
    BY DEF NoJob
  <2> HIDE DEF j
  <2>4. pc'[t] = l /\ job'[t] = j
    BY <2>1 DEF TypeOK
  <2>5. (Reading(t)' => Reading(t) /\ l # "idle") /\ (Holding(t)' => Holding(t))
    BY <2>2, <2>4 DEF Reading, Holding, Persisting
  <2> QED  BY <2>1, <2>2, <2>3, <2>5, CallMoves
<1> QED  BY <1>1, <1>2, <1>3, <1>4, <1>5, <1>6, <1>7, <1>8, <1>10, <1>11, <1>12, <1>13
            DEF Next, Execution, Readback, Persist

-----------------------------------------------------------------------------
(* The bound on attempts, in memory, in snapshots and in files *)

LEMMA UpdateSound ==
    ASSUME TypeOK, SoundOK, NEW t \in Threads, NEW r \in Receipts, NEW receipt, NEW then,
           SoundReceipt(receipt), Update(t, r, receipt, then)
    PROVE  SoundOK'
<1>1. \A q \in Receipts : mem'[q] = IF q = r THEN receipt ELSE mem[q]
  BY DEF Update, TypeOK, Snapshot
<1>2. Sound(mem')
  BY <1>1 DEF SoundOK, Sound
<1>3. snap' = snap /\ content' = content
  BY DEF Update, fileVars
<1> QED  BY <1>2, <1>3 DEF SoundOK

LEMMA ReturnSound ==
    ASSUME TypeOK, SoundOK, NEW t \in Threads, Return(t), UNCHANGED <<mem, content>>
    PROVE  SoundOK'
<1>1. \A u \in Threads : snap'[u] = IF u = t THEN Empty ELSE snap[u]
  BY DEF Return, TypeOK
<1>2. \A u \in Threads : Sound(snap'[u])
  BY <1>1, NoneTried DEF SoundOK
<1> QED  BY <1>2 DEF SoundOK

LEMMA SoundStep == TypeOK /\ JobOK /\ ReadingOK /\ SoundOK /\ [Next]_vars => SoundOK'
<1> SUFFICES ASSUME TypeOK, JobOK, ReadingOK, SoundOK, [Next]_vars PROVE SoundOK'
  OBVIOUS
<1>1. CASE UNCHANGED <<mem, snap, content>>
  BY <1>1 DEF SoundOK
<1>2. CASE UNCHANGED vars
  BY <1>1, <1>2 DEF vars, callVars, fileVars
<1>3. CASE OpenStore
  <2>1. CASE UNCHANGED <<mem, fileVars>>
    BY <1>1, <1>3, <2>1 DEF OpenStore, callVars, fileVars
  <2>2. CASE Stored # Torn /\ mem' = Recovered(Stored)
             /\ (UNCHANGED fileVars \/ \E f \in TempFile : content' = [content EXCEPT ![f] = mem'])
    <3>1. Stored \in Snapshot /\ Sound(Stored)
      BY <2>2, StoredIs, NoneTried DEF FileReadable, Stored, SoundOK, TypeOK
    <3>2. Sound(mem')
      BY <2>2, <3>1, RecoveredSound
    <3>3. \A f \in Files : content'[f] = content[f] \/ content'[f] = mem'
      BY <2>2 DEF fileVars, TypeOK
    <3>4. UNCHANGED snap
      BY <1>3 DEF OpenStore, callVars
    <3> QED  BY <3>2, <3>3, <3>4 DEF SoundOK
  <2> QED  BY <1>3, <2>1, <2>2 DEF OpenStore
<1>4. CASE Crash
  <2>1. mem' = Empty /\ content' = content /\ \A u \in Threads : snap'[u] = Empty
    BY <1>4 DEF Crash, fileVars
  <2>2. Sound(mem') /\ \A u \in Threads : Sound(snap'[u])
    BY <2>1, NoneTried
  <2> QED  BY <2>1, <2>2 DEF SoundOK
<1>5. ASSUME NEW t \in Threads, GiveUp(t) \/ PersistFails(t) PROVE SoundOK'
  BY <1>5, ReturnSound DEF GiveUp, PersistFails, fileVars
<1>6. ASSUME NEW t \in Threads,
             (\E r \in Receipts : BeginExecution(t, r))
             \/ (\E r \in Receipts, a \in Attempts : BeginReadback(t, r, a))
             \/ Observe(t) \/ SyncTemp(t)
      PROVE  SoundOK'
  BY <1>1, <1>6 DEF BeginExecution, BeginReadback, Observe, SyncTemp, fileVars
<1>7. ASSUME NEW t \in Threads, InsertAccepted(t) PROVE SoundOK'
  <2> DEFINE receipt == [NoReceipt EXCEPT !.state = "accepted"]
  <2>1. SoundReceipt(receipt)
    <3>1. receipt.attempts = NoReceipt.attempts /\ receipt.state = "accepted"
      BY StateChange, Constants DEF ReceiptState
    <3>2. SoundReceipt(NoReceipt)
      BY NoneTried, FS_EmptySet DEF SoundReceipt
    <3> HIDE DEF receipt
    <3> QED  BY <3>1, <3>2, SameAttempts
  <2>2. job[t].receipt \in Receipts
    BY <1>7 DEF InsertAccepted, JobOK
  <2> QED  BY <1>5, <1>7, <2>1, <2>2, UpdateSound DEF InsertAccepted
<1>8. ASSUME NEW t \in Threads, Spawn(t) \/ Finish(t) PROVE SoundOK'
  <2>1. PICK to \in ReceiptState \ {"none"}, then \in {"idle", "waiting"} : Transition(t, to, then)
    BY <1>8 DEF Spawn, Finish, ReceiptState
  <2> DEFINE r == job[t].receipt
             receipt == [mem[r] EXCEPT !.state = to]
  <2>2. r \in Receipts /\ mem[r] \in Receipt /\ SoundReceipt(mem[r])
    BY <1>8 DEF Spawn, Finish, JobOK, TypeOK, Snapshot, SoundOK, Sound
  <2>3. SoundReceipt(receipt)
    <3>1. receipt.attempts = mem[r].attempts /\ receipt.state = to
      BY <2>2, StateChange
    <3> HIDE DEF receipt, r
    <3> QED  BY <2>2, <3>1, SameAttempts
  <2> QED  BY <1>5, <2>1, <2>2, <2>3, UpdateSound DEF Transition
<1>9. ASSUME NEW t \in Threads, ReserveAttempt(t) PROVE SoundOK'
  <2> DEFINE r == job[t].receipt
             a == job[t].attempt
             receipt == [mem[r] EXCEPT !.attempts[a] = "running"]
  <2>1. /\ r \in Receipts /\ a \in Attempts /\ mem[r] \in Receipt /\ SoundReceipt(mem[r])
        /\ mem[r].state # "none"
    BY <1>9 DEF ReserveAttempt, JobOK, ReadingOK, Reading, TypeOK, Snapshot, SoundOK, Sound, Eligible
  <2>2. CASE /\ a \notin Tried(mem[r])
             /\ Cardinality(Tried(mem[r])) < MaxVerificationAttempts
             /\ SetAttempt(t, "running", "observing")
    <3>1. SoundReceipt(receipt)
      BY <2>1, <2>2, ReserveSound DEF Tried
    <3>2. Update(t, r, receipt, "observing")
      BY <2>2 DEF SetAttempt
    <3> HIDE DEF receipt, r, a
    <3> QED  BY <2>1, <3>1, <3>2, UpdateSound
  <2> QED  BY <1>5, <1>9, <2>2 DEF ReserveAttempt
<1>10. ASSUME NEW t \in Threads, SettleAttempt(t) PROVE SoundOK'
  <2> DEFINE r == job[t].receipt
             a == job[t].attempt
  <2>1. /\ r \in Receipts /\ a \in Attempts /\ mem[r] \in Receipt /\ SoundReceipt(mem[r])
        /\ mem[r].state # "none" /\ mem[r].attempts[a] # "none"
    BY <1>10 DEF SettleAttempt, JobOK, ReadingOK, Reading, Holding, TypeOK, Snapshot, SoundOK, Sound,
           Eligible
  <2>2. ASSUME NEW status \in {"completed", "failed"}, SetAttempt(t, status, "idle") PROVE SoundOK'
    <3> DEFINE receipt == [mem[r] EXCEPT !.attempts[a] = status]
    <3>1. status \in AttemptStatus \ {"none"}
      BY DEF AttemptStatus
    <3>2. SoundReceipt(receipt)
      BY <2>1, <3>1, SettleSound
    <3>3. Update(t, r, receipt, "idle")
      BY <2>2 DEF SetAttempt
    <3> HIDE DEF receipt, r, a
    <3> QED  BY <2>1, <3>2, <3>3, UpdateSound
  <2> QED  BY <1>5, <1>10, <2>2 DEF SettleAttempt
<1>11. ASSUME NEW t \in Threads, TakeSnapshot(t) PROVE SoundOK'
  <2>1. \A u \in Threads : snap'[u] = IF u = t THEN mem ELSE snap[u]
    BY <1>11 DEF TakeSnapshot, TypeOK
  <2>2. UNCHANGED <<mem, content>>
    BY <1>11 DEF TakeSnapshot, fileVars
  <2> QED  BY <2>1, <2>2 DEF SoundOK
<1>12. ASSUME NEW t \in Threads, CreateTemp(t) \/ WriteTemp(t) PROVE SoundOK'
  <2>1. \A f \in Files : content'[f] \in {content[f], snap[t], Torn}
    BY <1>12 DEF CreateTemp, WriteTemp, TypeOK
  <2>2. UNCHANGED <<mem, snap>>
    BY <1>12 DEF CreateTemp, WriteTemp
  <2> QED  BY <2>1, <2>2 DEF SoundOK
<1>13. ASSUME NEW t \in Threads, RenameTemp(t) PROVE SoundOK'
  <2>1. \A u \in Threads : snap'[u] = IF u = t THEN Empty ELSE snap[u]
    BY <1>13 DEF RenameTemp, TypeOK
  <2>2. \A u \in Threads : Sound(snap'[u])
    BY <2>1, NoneTried DEF SoundOK
  <2>3. UNCHANGED <<mem, content>>
    BY <1>13 DEF RenameTemp
  <2> QED  BY <2>2, <2>3 DEF SoundOK
<1> QED  BY <1>2, <1>3, <1>4, <1>5, <1>6, <1>7, <1>8, <1>9, <1>10, <1>11, <1>12, <1>13
            DEF Next, Execution, Readback, Persist

LEMMA InvInit == Init => IInv
<1> SUFFICES ASSUME Init PROVE IInv
  OBVIOUS
<1>1. TypeOK
  BY Constants DEF Init, TypeOK, PC
<1>2. JobOK /\ ReadingOK
  BY DEF Init, JobOK, ReadingOK, Reading, Holding, Persisting, NoJob
<1>3. SoundOK
  BY NoneTried DEF Init, SoundOK
<1> QED  BY <1>1, <1>2, <1>3 DEF IInv

LEMMA InvStep == IInv /\ [Next]_vars => IInv'
  BY TypeStep, CallStep, SoundStep DEF IInv

\* The invariant of any number of threads holds of every state of the store.
THEOREM Inductive == Spec => []IInv
<1>1. QED
  BY InvInit, InvStep, PTL DEF Spec

\* Every variable has its type in every state.
THEOREM TypeCorrect == Spec => []TypeOK
<1>1. IInv => TypeOK
  BY DEF IInv
<1>2. QED
  BY <1>1, Inductive, PTL

\* The receipt that perform_readback_attempt checked on a copy still says that its process
\* was observed when the attempt is reserved and run.
THEOREM ReadbackEligible == Spec => []ReadbackStaysEligible
<1>1. IInv => ReadbackStaysEligible
  BY DEF IInv, ReadingOK, Reading, Holding, Eligible, ReadbackStaysEligible
<1>2. QED
  BY <1>1, Inductive, PTL

\* Two read-backs never hold the same attempt and no receipt has more attempts than the
\* bound, whatever threads reserve them (reserve_attempt).
THEOREM AttemptsAreExclusive == Spec => []AttemptsExclusive
<1>1. IInv => AttemptsExclusive
  BY DEF IInv, ReadingOK, Holding, SoundOK, Sound, SoundReceipt, Tried, AttemptsExclusive
<1>2. QED
  BY <1>1, Inductive, PTL

-----------------------------------------------------------------------------
(* The file and its memory *)

LEMMA BehindSame == ASSUME NEW old PROVE Behind(old, old)
  BY DEF Behind, Reaches, Settles

LEMMA BehindTransitive ==
    ASSUME NEW old, NEW middle, NEW new, Behind(old, middle), Behind(middle, new)
    PROVE  Behind(old, new)
  BY DEF Behind, Reaches, Settles

\* A step that leaves the files and moves memory only forward.
LEMMA Forward ==
    ASSUME AheadOK, Behind(mem, mem'), UNCHANGED <<open, degraded, fileVars>>,
           \A u \in Threads : pc'[u] \in {"create", "write"} => pc'[u] = pc[u] /\ snap'[u] = snap[u],
           \A u \in Threads : Writing(u)' => Writing(u)
    PROVE  AheadOK'
<1> SUFFICES ASSUME open, ~degraded
             PROVE  /\ Stored' # Torn => Behind(Stored', mem')
                    /\ \A u \in Threads : pc'[u] \in {"create", "write"} => Behind(snap'[u], mem')
                    /\ temp # None /\ content[temp] # Torn /\ (\E u \in Threads : Writing(u)) =>
                          Behind(content[temp], mem')
  BY DEF AheadOK, fileVars
<1>1. Stored' = Stored
  BY DEF Stored, fileVars
<1> QED  BY <1>1, BehindTransitive DEF AheadOK

LEMMA GiveUpAhead ==
    ASSUME TypeOK, AheadOK, NEW t \in Threads, GiveUp(t)
    PROVE  AheadOK'
<1>1. /\ UNCHANGED <<open, degraded, mem, fileVars>> /\ pc'[t] = "idle"
      /\ \A u \in Threads : u # t => pc'[u] = pc[u] /\ snap'[u] = snap[u]
  BY DEF GiveUp, Return, TypeOK
<1>2. Behind(mem, mem')
  BY <1>1, BehindSame
<1> QED  BY <1>1, <1>2, Forward DEF Writing

LEMMA UpdateAhead ==
    ASSUME TypeOK, AheadOK, NEW t \in Threads, NEW r \in Receipts, NEW receipt, NEW then,
           Update(t, r, receipt, then), Reaches(mem[r].state, receipt.state),
           \A a \in Attempts : Settles(mem[r].attempts[a], receipt.attempts[a])
    PROVE  AheadOK'
<1>1. \A q \in Receipts : mem'[q] = IF q = r THEN receipt ELSE mem[q]
  BY DEF Update, TypeOK, Snapshot
<1>2. Behind(mem, mem')
  BY <1>1 DEF Behind, Reaches, Settles
<1>3. /\ UNCHANGED <<open, degraded, fileVars, snap>> /\ pc'[t] = "snapshot"
      /\ \A u \in Threads : u # t => pc'[u] = pc[u]
  BY DEF Update, TypeOK
<1> QED  BY <1>2, <1>3, Forward DEF Writing

\* The lifecycle and the read-back move the receipt they work on along the table.
LEMMA CallAhead ==
    ASSUME IInv, AheadOK, NEW t \in Threads, Execution(t) \/ Readback(t)
    PROVE  AheadOK'
<1>0. TypeOK /\ JobOK /\ ReadingOK /\ SoundOK
  BY DEF IInv
<1>1. CASE GiveUp(t)
  BY <1>0, <1>1, GiveUpAhead
<1>2. ASSUME NEW l \in {"inserting", "reserving", "settling"}, Goto(t, l),
             UNCHANGED <<open, degraded, mem, fileVars, snap>>
      PROVE  AheadOK'
  <2>1. pc'[t] = l /\ \A u \in Threads : u # t => pc'[u] = pc[u]
    BY <1>0, <1>2 DEF Goto, TypeOK
  <2>2. Behind(mem, mem')
    BY <1>2, BehindSame
  <2> QED  BY <1>2, <2>1, <2>2, Forward DEF Writing
<1>3. CASE \/ \E r \in Receipts : BeginExecution(t, r)
           \/ \E r \in Receipts, a \in Attempts : BeginReadback(t, r, a)
           \/ Observe(t)
  BY <1>2, <1>3 DEF BeginExecution, BeginReadback, Observe
<1>4. CASE InsertAccepted(t)
  <2> DEFINE r == job[t].receipt
             receipt == [NoReceipt EXCEPT !.state = "accepted"]
  <2>1. r \in Receipts
    BY <1>0, <1>4 DEF InsertAccepted, JobOK
  <2>2. CASE mem[r].state = "none" /\ Update(t, r, receipt, "spawning")
    <3>1. \A a \in Attempts : mem[r].attempts[a] = "none"
      BY <1>0, <2>1, <2>2 DEF SoundOK, Sound, SoundReceipt, Tried
    <3>2. Reaches(mem[r].state, receipt.state)
      BY <2>2 DEF Reaches
    <3>3. \A a \in Attempts : Settles(mem[r].attempts[a], receipt.attempts[a])
      BY <3>1 DEF Settles
    <3> HIDE DEF r, receipt
    <3> QED  BY <1>0, <2>1, <2>2, <3>2, <3>3, UpdateAhead
  <2> QED  BY <1>1, <1>4, <2>2 DEF InsertAccepted
<1>5. CASE Spawn(t) \/ Finish(t)
  <2>1. PICK to \in ReceiptState, then \in {"idle", "waiting"} : Transition(t, to, then)
    BY <1>5 DEF Spawn, Finish, ReceiptState
  <2> DEFINE r == job[t].receipt
             receipt == [mem[r] EXCEPT !.state = to]
  <2>2. r \in Receipts /\ mem[r] \in Receipt
    BY <1>0, <1>5 DEF Spawn, Finish, JobOK, TypeOK, Snapshot
  <2>3. CASE TransitionAllowed(mem[r].state, to) /\ Update(t, r, receipt, then)
    <3>1. receipt.state = to /\ receipt.attempts = mem[r].attempts
      BY <2>2, StateChange
    <3> HIDE DEF r, receipt
    <3>2. Reaches(mem[r].state, receipt.state)
      BY <2>3, <3>1 DEF TransitionAllowed, Reaches
    <3>3. \A a \in Attempts : Settles(mem[r].attempts[a], receipt.attempts[a])
      BY <3>1 DEF Settles
    <3> QED  BY <1>0, <2>2, <2>3, <3>2, <3>3, UpdateAhead
  <2> QED  BY <1>1, <2>1, <2>3 DEF Transition
<1>6. ASSUME NEW status \in {"running", "completed", "failed"}, NEW then, SetAttempt(t, status, then),
             job[t].receipt \in Receipts, job[t].attempt \in Attempts,
             Settles(mem[job[t].receipt].attempts[job[t].attempt], status)
      PROVE  AheadOK'
  <2> DEFINE r == job[t].receipt
             a == job[t].attempt
             receipt == [mem[r] EXCEPT !.attempts[a] = status]
  <2>1. mem[r] \in Receipt /\ status \in AttemptStatus
    BY <1>0, <1>6 DEF TypeOK, Snapshot, AttemptStatus
  <2>2. receipt.state = mem[r].state /\ receipt.attempts = [mem[r].attempts EXCEPT ![a] = status]
    BY <1>6, <2>1, AttemptChange
  <2>3. Update(t, r, receipt, then)
    BY <1>6 DEF SetAttempt
  <2> HIDE DEF receipt
  <2>4. Reaches(mem[r].state, receipt.state)
    BY <2>2 DEF Reaches
  <2>5. \A b \in Attempts : receipt.attempts[b] = IF b = a THEN status ELSE mem[r].attempts[b]
    BY <1>6, <2>1, <2>2, Constants
  <2>6. \A b \in Attempts : Settles(mem[r].attempts[b], receipt.attempts[b])
    BY <1>6, <2>5 DEF Settles
  <2> QED  BY <1>0, <1>6, <2>3, <2>4, <2>6, UpdateAhead
<1>7. CASE ReserveAttempt(t)
  <2>1. job[t].receipt \in Receipts /\ job[t].attempt \in Attempts
    BY <1>0, <1>7 DEF ReserveAttempt, JobOK, Reading
  <2>2. CASE job[t].attempt \notin Tried(mem[job[t].receipt]) /\ SetAttempt(t, "running", "observing")
    BY <1>6, <2>1, <2>2 DEF Tried, Settles
  <2> QED  BY <1>1, <1>7, <2>2 DEF ReserveAttempt
<1>8. CASE SettleAttempt(t)
  <2>1. /\ job[t].receipt \in Receipts /\ job[t].attempt \in Attempts
        /\ mem[job[t].receipt].attempts[job[t].attempt] = "running"
    BY <1>0, <1>8 DEF SettleAttempt, JobOK, ReadingOK, Reading, Holding
  <2>2. ASSUME NEW status \in {"completed", "failed"}, SetAttempt(t, status, "idle") PROVE AheadOK'
    BY <1>6, <2>1, <2>2 DEF Settles
  <2> QED  BY <1>1, <1>8, <2>2 DEF SettleAttempt
<1> QED  BY <1>3, <1>4, <1>5, <1>7, <1>8 DEF Execution, Readback

\* A snapshot is of memory, a write is of a snapshot, and a rename of what was written.
LEMMA PersistAhead ==
    ASSUME IInv, AheadOK, NEW t \in Threads, Persist(t)
    PROVE  AheadOK'
<1>0. TypeOK /\ JobOK
  BY DEF IInv
<1>1. CASE PersistFails(t)
  BY <1>1 DEF PersistFails, AheadOK
<1>2. CASE TakeSnapshot(t)
  <2>1. /\ UNCHANGED <<open, degraded, mem, fileVars>> /\ pc'[t] = "create" /\ snap'[t] = mem
        /\ \A u \in Threads : u # t => pc'[u] = pc[u] /\ snap'[u] = snap[u]
    BY <1>0, <1>2 DEF TakeSnapshot, Goto, TypeOK
  <2>2. Stored' = Stored /\ \A u \in Threads : Writing(u)' => Writing(u)
    BY <2>1 DEF Stored, fileVars, Writing
  <2>3. \A u \in Threads : pc'[u] \in {"create", "write"} =>
            snap'[u] = mem \/ (pc[u] \in {"create", "write"} /\ snap'[u] = snap[u])
    BY <2>1
  <2> QED  BY <2>1, <2>2, <2>3, BehindSame DEF AheadOK, fileVars
<1>3. CASE SyncTemp(t)
  <2>1. /\ UNCHANGED <<open, degraded, mem, fileVars, snap>> /\ pc[t] = "sync" /\ pc'[t] = "rename"
        /\ \A u \in Threads : u # t => pc'[u] = pc[u]
    BY <1>0, <1>3 DEF SyncTemp, Goto, TypeOK
  <2>2. Behind(mem, mem')
    BY <2>1, BehindSame
  <2> QED  BY <2>1, <2>2, Forward DEF Writing
<1>4. CASE CreateTemp(t)
  <2>1. PICK f \in TempFile : /\ temp' = f /\ content' = [content EXCEPT ![f] = Torn]
    BY <1>4 DEF CreateTemp
  <2>2. f \in Files
    BY <1>0 DEF TempFile, Free, TypeOK
  <2>3. content'[temp'] = Torn /\ \A g \in Files : content'[g] \in {content[g], Torn}
    BY <1>0, <2>1, <2>2 DEF TypeOK
  <2>4. /\ UNCHANGED <<open, degraded, mem, target, snap>> /\ pc[t] = "create"
        /\ pc'[t] = "write" /\ \A u \in Threads : u # t => pc'[u] = pc[u]
    BY <1>0, <1>4 DEF CreateTemp, Goto, TypeOK
  <2>5. Stored' \in {Stored, Torn}
    BY <1>0, <2>3, <2>4 DEF Stored, TypeOK
  <2>6. \A u \in Threads : pc'[u] \in {"create", "write"} => pc[u] \in {"create", "write"}
    BY <2>4
  <2> QED  BY <2>3, <2>4, <2>5, <2>6 DEF AheadOK
<1>5. CASE WriteTemp(t)
  <2>1. /\ UNCHANGED <<open, degraded, mem, target, temp, snap>> /\ pc[t] = "write"
        /\ pc'[t] = "sync" /\ \A u \in Threads : u # t => pc'[u] = pc[u]
    BY <1>0, <1>5 DEF WriteTemp, Goto, TypeOK
  <2>2. \A g \in Files : content'[g] \in {content[g], snap[t], Torn}
    BY <1>0, <1>5 DEF WriteTemp, TypeOK
  <2>3. Stored' \in {Stored, snap[t], Torn}
    BY <1>0, <2>1, <2>2 DEF Stored, TypeOK
  <2>4. temp # None => content'[temp] \in {content[temp], snap[t], Torn}
    BY <1>0, <2>2 DEF TypeOK
  <2>5. /\ \A u \in Threads : pc'[u] \in {"create", "write"} => pc'[u] = pc[u]
        /\ \E u \in Threads : Writing(u)
    BY <2>1 DEF Writing
  <2> QED  BY <2>1, <2>3, <2>4, <2>5 DEF AheadOK
<1>6. CASE RenameTemp(t)
  <2>1. /\ UNCHANGED <<open, degraded, mem, content>> /\ pc[t] = "rename" /\ temp # None
        /\ target' = temp /\ temp' = None /\ pc'[t] = job[t].then
        /\ \A u \in Threads : u # t => pc'[u] = pc[u] /\ snap'[u] = snap[u]
    BY <1>0, <1>6 DEF RenameTemp, TypeOK
  <2>2. Stored' = content[temp] /\ Writing(t)
    BY <2>1 DEF Stored, Writing
  <2>3. pc'[t] \notin {"create", "write"}
    BY <1>0, <2>1 DEF JobOK
  <2>4. \A u \in Threads : pc'[u] \in {"create", "write"} =>
            pc[u] \in {"create", "write"} /\ snap'[u] = snap[u]
    BY <2>1, <2>3
  <2> QED  BY <2>1, <2>2, <2>4 DEF AheadOK
<1> QED  BY <1>1, <1>2, <1>3, <1>4, <1>5, <1>6 DEF Persist

\* A store that opens has on disk what it has in memory, or serves nobody.
LEMMA OpenAhead ==
    ASSUME IInv, OpenStore
    PROVE  AheadOK'
<1>0. TypeOK /\ \A u \in Threads : pc[u] = "idle"
  BY DEF IInv, JobOK, OpenStore
<1>1. CASE degraded' = TRUE
  BY <1>1 DEF AheadOK
<1>2. CASE IF mem' = Stored THEN UNCHANGED fileVars
           ELSE \E f \in TempFile : /\ content' = [content EXCEPT ![f] = mem']
                                    /\ target' = f /\ temp' = None
  <2>1. pc' = pc
    BY DEF OpenStore, callVars
  <2>2. \A u \in Threads : pc'[u] \notin {"create", "write"} /\ ~Writing(u)'
    BY <1>0, <2>1 DEF Writing
  <2>3. Stored' = mem'
    <3>1. CASE mem' = Stored
      BY <1>2, <3>1 DEF Stored, fileVars
    <3>2. CASE mem' # Stored
      <4>1. PICK f \in TempFile : content' = [content EXCEPT ![f] = mem'] /\ target' = f
        BY <1>2, <3>2
      <4>2. f \in Files /\ f # None
        BY <1>0 DEF TempFile, Free, TypeOK
      <4> QED  BY <1>0, <4>1, <4>2 DEF Stored, TypeOK
    <3> QED  BY <3>1, <3>2
  <2> QED  BY <2>2, <2>3, BehindSame DEF AheadOK
<1> QED  BY <1>1, <1>2 DEF OpenStore

LEMMA AheadStep == IInv /\ AheadOK /\ [Next]_vars => AheadOK'
<1> SUFFICES ASSUME IInv, AheadOK, [Next]_vars PROVE AheadOK'
  OBVIOUS
<1>1. CASE UNCHANGED vars
  BY <1>1 DEF vars, fileVars, callVars, AheadOK, Stored, Writing
<1>2. CASE Crash
  BY <1>2 DEF Crash, AheadOK
<1> QED  BY <1>1, <1>2, OpenAhead, CallAhead, PersistAhead DEF Next

\* The file of a healthy store tells a restart of no process, outcome or attempt that the
\* running process does not stand by, whatever snapshots its threads take, write, lose or
\* rename over each other's (persist, persist_or_degrade, open_at).
THEOREM FileIsBehind == Spec => []FileNeverAhead
<1>1. Init => AheadOK
  BY DEF Init, AheadOK
<1>2. IInv /\ AheadOK /\ [Next]_vars => AheadOK'
  BY AheadStep
<1>3. AheadOK => FileNeverAhead
  BY DEF AheadOK, FileNeverAhead
<1>4. QED
  BY <1>1, <1>2, <1>3, Inductive, PTL DEF Spec
=============================================================================
