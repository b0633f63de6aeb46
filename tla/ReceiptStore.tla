---------------------------- MODULE ReceiptStore ----------------------------
(***************************************************************************)
(* The execution-receipt store of the native broker at the level of its    *)
(* file (execution_broker/readback/store.rs) and the two callers that      *)
(* change it: the lifecycle of an execution (ReceiptLifecycle in mod.rs)   *)
(* and the read-back runner (readback/runner.rs).                          *)
(*                                                                         *)
(* Memory changes under a mutex; the file is written after the mutex is    *)
(* released, through ONE temporary name: create-or-truncate, write, reopen *)
(* and sync, rename over the store.  Names point at files and an open      *)
(* handle keeps its file when the name moves, as the file systems do.      *)
(***************************************************************************)
EXTENDS Integers, FiniteSets

CONSTANTS
    Receipts,       \* receipt ids, one per executed plan
    Attempts,       \* verification attempt ids
    Threads,        \* threads that serve commands
    Files,          \* files the two names and the open handles may point at
    MaxVerificationAttempts,    \* MAX_VERIFICATION_ATTEMPTS
    Torn,           \* what a file holds that was truncated or written by two at once
    None            \* no receipt, attempt or file

ASSUME ReceiptStoreAssumption ==
    /\ MaxVerificationAttempts \in Nat
    /\ None \notin Receipts \cup Attempts \cup Files

VARIABLES
    open,           \* a process has the store open
    degraded,       \* the open store fails closed
    mem,            \* the receipts in memory
    target, temp,   \* the file each name points at
    content,        \* [Files -> what the file holds]
    pc, job,        \* [Threads -> where the call is, what it works on]
    snap, handle,   \* [Threads -> snapshot and open file of a persist]
    taken,          \* plans the durable ledger will not accept again
    reads           \* history: the attempts whose read-back process ran

fileVars == <<target, temp, content>>
callVars == <<pc, job, snap, handle>>
vars == <<open, degraded, mem, fileVars, callVars, taken, reads>>

-----------------------------------------------------------------------------
(* Types *)

ReceiptState == {"none", "accepted", "spawn_started", "spawn_failed", "completed",
                 "unknown_after_crash"}
AttemptStatus == {"none", "running", "completed", "failed"}

Tried(receipt) == {a \in Attempts : receipt.attempts[a] # "none"}

\* validate_receipt_structure: no receipt has more attempts than the hard bound.
Receipt   == {receipt \in [state : ReceiptState, attempts : [Attempts -> AttemptStatus]] :
                 Cardinality(Tried(receipt)) <= MaxVerificationAttempts}
NoReceipt == [state |-> "none", attempts |-> [a \in Attempts |-> "none"]]
Snapshot  == [Receipts -> Receipt]
Empty     == [r \in Receipts |-> NoReceipt]

\* What cannot be parsed is none of the things a store can hold.
ASSUME TornIsNoSnapshot == Torn \notin Snapshot

PC == {"idle", "inserting", "spawning", "waiting", "reserving", "observing",
       "settling", "snapshot", "create", "write", "sync", "rename"}
Job   == [receipt : Receipts \cup {None}, attempt : Attempts \cup {None}, then : PC]
NoJob == [receipt |-> None, attempt |-> None, then |-> "idle"]

TypeOK ==
    /\ open \in BOOLEAN
    /\ degraded \in BOOLEAN
    /\ mem \in Snapshot
    /\ target \in Files \cup {None}
    /\ temp \in Files \cup {None}
    /\ content \in [Files -> Snapshot \cup {Torn}]
    /\ pc \in [Threads -> PC]
    /\ job \in [Threads -> Job]
    /\ snap \in [Threads -> Snapshot]
    /\ handle \in [Threads -> Files \cup {None}]
    /\ taken \in SUBSET Receipts
    /\ reads \in [Receipts -> SUBSET Attempts]

Init ==
    /\ open = FALSE
    /\ degraded = FALSE
    /\ mem = Empty
    /\ target = None
    /\ temp = None
    /\ content = [f \in Files |-> Torn]
    /\ pc = [t \in Threads |-> "idle"]
    /\ job = [t \in Threads |-> NoJob]
    /\ snap = [t \in Threads |-> Empty]
    /\ handle = [t \in Threads |-> None]
    /\ taken = {}
    /\ reads = [r \in Receipts |-> {}]

-----------------------------------------------------------------------------
(* Open and crash *)

\* What a reader of the store finds; a missing file is a healthy empty store.
Stored == IF target = None THEN Empty ELSE content[target]

\* Faulty variants (names ending in _Bug) are never used by the specification:
\* each shows that a property would notice that mistake in the code.

\* Settles also the receipts that are settled.
Recovered_Bug(receipts) ==
    [r \in Receipts |->
        IF receipts[r].state \in {"accepted", "spawn_started", "completed"}
        THEN [receipts[r] EXCEPT !.state = "unknown_after_crash"]
        ELSE receipts[r]]

Recovered(receipts) ==
    [r \in Receipts |->
        IF receipts[r].state \in {"accepted", "spawn_started"}
        THEN [receipts[r] EXCEPT !.state = "unknown_after_crash"]
        ELSE receipts[r]]

\* Files nothing points at.
Free == {f \in Files : f \notin {target, temp} /\ \A t \in Threads : handle[t] # f}

\* The file a create of the temporary name opens.
TempFile == IF temp # None THEN {temp} ELSE Free

\* The store file is read; receipts in flight are migrated and the migration is
\* written before the store serves anyone.
OpenStore ==
    /\ ~open
    /\ open' = TRUE
    /\ \/ /\ Stored # Torn
          /\ mem' = Recovered(Stored)
          /\ UNCHANGED degraded
          /\ IF mem' = Stored
             THEN UNCHANGED fileVars
             ELSE \E f \in TempFile :
                    /\ content' = [content EXCEPT ![f] = mem']
                    /\ target' = f
                    /\ temp' = None
       \/ /\ degraded' = TRUE       \* unreadable, not parsed or not migrated
          /\ UNCHANGED <<mem, fileVars>>
    /\ UNCHANGED <<callVars, taken, reads>>

Crash ==
    /\ open
    /\ open' = FALSE
    /\ degraded' = FALSE
    /\ mem' = Empty
    /\ pc' = [t \in Threads |-> "idle"]
    /\ job' = [t \in Threads |-> NoJob]
    /\ snap' = [t \in Threads |-> Empty]
    /\ handle' = [t \in Threads |-> None]
    /\ UNCHANGED <<fileVars, taken, reads>>

-----------------------------------------------------------------------------
(* persist: snapshot -> create -> write -> sync -> rename *)

Goto(t, l) == pc' = [pc EXCEPT ![t] = l]

Return(t) ==
    /\ pc' = [pc EXCEPT ![t] = "idle"]
    /\ job' = [job EXCEPT ![t] = NoJob]
    /\ snap' = [snap EXCEPT ![t] = Empty]
    /\ handle' = [handle EXCEPT ![t] = None]

TakeSnapshot(t) ==
    /\ pc[t] = "snapshot"
    /\ snap' = [snap EXCEPT ![t] = mem]
    /\ Goto(t, "create")
    /\ UNCHANGED <<open, degraded, mem, fileVars, job, handle, taken, reads>>

\* Rewrites the store file in place.
CreateTemp_Bug(t) ==
    /\ pc[t] = "create"
    /\ \E f \in IF target # None THEN {target} ELSE TempFile :
          /\ temp' = f
          /\ content' = [content EXCEPT ![f] = Torn]
          /\ handle' = [handle EXCEPT ![t] = f]
    /\ Goto(t, "write")
    /\ UNCHANGED <<open, degraded, mem, target, job, snap, taken, reads>>

\* std::fs::write opens with create and truncate ...
CreateTemp(t) ==
    /\ pc[t] = "create"
    /\ \E f \in TempFile :
          /\ temp' = f
          /\ content' = [content EXCEPT ![f] = Torn]
          /\ handle' = [handle EXCEPT ![t] = f]
    /\ Goto(t, "write")
    /\ UNCHANGED <<open, degraded, mem, target, job, snap, taken, reads>>

\* ... and writes through its handle, wherever the name points by then.  Over
\* the bytes of another writer the longer text's tail may remain.
WriteTemp(t) ==
    /\ pc[t] = "write"
    /\ \E bytes \in {snap[t]} \cup (IF content[handle[t]] = Torn THEN {} ELSE {Torn}) :
          content' = [content EXCEPT ![handle[t]] = bytes]
    /\ handle' = [handle EXCEPT ![t] = None]
    /\ Goto(t, "sync")
    /\ UNCHANGED <<open, degraded, mem, target, temp, job, snap, taken, reads>>

\* sync_all opens the temporary name again, so it needs the name, not the file.
SyncTemp(t) ==
    /\ pc[t] = "sync"
    /\ temp # None
    /\ Goto(t, "rename")
    /\ UNCHANGED <<open, degraded, mem, fileVars, job, snap, handle, taken, reads>>

\* The name is renamed, whoever wrote the file it points at.
RenameTemp(t) ==
    /\ pc[t] = "rename"
    /\ temp # None
    /\ target' = temp
    /\ temp' = None
    /\ pc' = [pc EXCEPT ![t] = job[t].then]
    /\ job' = [job EXCEPT ![t] = IF job[t].then = "idle" THEN NoJob ELSE @]
    /\ snap' = [snap EXCEPT ![t] = Empty]
    /\ UNCHANGED <<open, degraded, mem, content, handle, taken, reads>>

\* Reports the failure and leaves the store healthy.
PersistFails_Bug(t) ==
    /\ pc[t] \in {"create", "write", "sync", "rename"}
    /\ Return(t)
    /\ temp' = IF pc[t] = "rename" THEN None ELSE temp
    /\ UNCHANGED <<open, degraded, mem, target, content, taken, reads>>

\* Takes back what could not be written and goes on.
PersistFailsRevert_Bug(t) ==
    /\ pc[t] \in {"create", "write", "sync", "rename"}
    /\ mem' = IF Stored = Torn THEN mem ELSE Stored
    /\ Return(t)
    /\ temp' = IF pc[t] = "rename" THEN None ELSE temp
    /\ UNCHANGED <<open, degraded, target, content, taken, reads>>

\* Any step of the write may fail, the last two when another writer has renamed
\* the name away; a failed rename removes the temporary file.  persist_or_degrade
\* then degrades the store and the caller returns the error.
PersistFails(t) ==
    /\ pc[t] \in {"create", "write", "sync", "rename"}
    /\ degraded' = TRUE
    /\ Return(t)
    /\ temp' = IF pc[t] = "rename" THEN None ELSE temp
    /\ UNCHANGED <<open, mem, target, content, taken, reads>>

-----------------------------------------------------------------------------
(* The execution of a plan *)

Update(t, r, receipt, then) ==
    /\ mem' = [mem EXCEPT ![r] = receipt]
    /\ pc' = [pc EXCEPT ![t] = "snapshot"]
    /\ job' = [job EXCEPT ![t].then = then]
    /\ UNCHANGED <<open, degraded, fileVars, snap, handle, taken, reads>>

GiveUp(t) ==
    /\ Return(t)
    /\ UNCHANGED <<open, degraded, mem, fileVars, taken, reads>>

TransitionAllowed(from, to) ==
    <<from, to>> \in {<<"accepted", "spawn_started">>, <<"accepted", "spawn_failed">>,
                      <<"accepted", "unknown_after_crash">>,
                      <<"spawn_started", "completed">>,
                      <<"spawn_started", "unknown_after_crash">>}

Transition(t, to, then) ==
    LET r == job[t].receipt
    IN  IF ~degraded /\ TransitionAllowed(mem[r].state, to)
        THEN Update(t, r, [mem[r] EXCEPT !.state = to], then)
        ELSE GiveUp(t)

\* execute has accepted, reserved and consumed; the plan is never taken twice.
BeginExecution(t, r) ==
    /\ open /\ ~degraded
    /\ pc[t] = "idle"
    /\ r \notin taken
    /\ taken' = taken \cup {r}
    /\ Goto(t, "inserting")
    /\ job' = [job EXCEPT ![t] = [receipt |-> r, attempt |-> None, then |-> "idle"]]
    /\ UNCHANGED <<open, degraded, mem, fileVars, snap, handle, reads>>

\* Creates the process before the receipt is on disk.
InsertAccepted_Bug(t) ==
    LET r == job[t].receipt
    IN  /\ pc[t] = "inserting"
        /\ IF ~degraded /\ mem[r].state = "none"
           THEN /\ mem' = [mem EXCEPT ![r].state = "accepted"]
                /\ Goto(t, "spawning")
                /\ UNCHANGED <<open, degraded, fileVars, job, snap, handle, taken, reads>>
           ELSE GiveUp(t)

InsertAccepted(t) ==
    LET r == job[t].receipt
    IN  /\ pc[t] = "inserting"
        /\ IF ~degraded /\ mem[r].state = "none"
           THEN Update(t, r, [NoReceipt EXCEPT !.state = "accepted"], "spawning")
           ELSE GiveUp(t)

\* The runner creates the process and records it, or records a failed spawn: none was
\* created, or the one that was could not be contained or resumed and was killed.
Spawn(t) ==
    /\ pc[t] = "spawning"
    /\ \/ Transition(t, "spawn_started", "waiting")
       \/ Transition(t, "spawn_failed", "idle")

Finish(t) ==
    /\ pc[t] = "waiting"
    /\ \/ Transition(t, "completed", "idle")
       \/ Transition(t, "unknown_after_crash", "idle")

-----------------------------------------------------------------------------
(* The read-back *)

\* Reads back a receipt whose process was not observed.
BeginReadback_Bug(t, r, a) ==
    /\ open /\ ~degraded
    /\ pc[t] = "idle"
    /\ mem[r].state \notin {"none", "spawn_failed"}
    /\ Goto(t, "reserving")
    /\ job' = [job EXCEPT ![t] = [receipt |-> r, attempt |-> a, then |-> "idle"]]
    /\ UNCHANGED <<open, degraded, mem, fileVars, snap, handle, taken, reads>>

\* perform_readback_attempt checks eligibility on a copy of the receipt.
BeginReadback(t, r, a) ==
    /\ open /\ ~degraded
    /\ pc[t] = "idle"
    /\ mem[r].state \notin {"none", "accepted", "spawn_failed"}
    /\ Goto(t, "reserving")
    /\ job' = [job EXCEPT ![t] = [receipt |-> r, attempt |-> a, then |-> "idle"]]
    /\ UNCHANGED <<open, degraded, mem, fileVars, snap, handle, taken, reads>>

SetAttempt(t, status, then) ==
    LET r == job[t].receipt
    IN  Update(t, r, [mem[r] EXCEPT !.attempts[job[t].attempt] = status], then)

\* Allows one attempt more than the bound.
ReserveAttempt_Bug(t) ==
    LET receipt == mem[job[t].receipt]
    IN  /\ pc[t] = "reserving"
        /\ IF /\ ~degraded
              /\ job[t].attempt \notin Tried(receipt)
              /\ Cardinality(Tried(receipt)) <= MaxVerificationAttempts
           THEN SetAttempt(t, "running", "observing")
           ELSE GiveUp(t)

\* Runs the read-back before the reservation is on disk.
ReserveUnpersisted_Bug(t) ==
    LET r == job[t].receipt
    IN  /\ pc[t] = "reserving"
        /\ IF /\ ~degraded
              /\ job[t].attempt \notin Tried(mem[r])
              /\ Cardinality(Tried(mem[r])) < MaxVerificationAttempts
           THEN /\ mem' = [mem EXCEPT ![r].attempts[job[t].attempt] = "running"]
                /\ Goto(t, "observing")
                /\ UNCHANGED <<open, degraded, fileVars, job, snap, handle, taken, reads>>
           ELSE GiveUp(t)

\* reserve_attempt: a new id, below the bound, checked and taken under the mutex.
ReserveAttempt(t) ==
    LET receipt == mem[job[t].receipt]
    IN  /\ pc[t] = "reserving"
        /\ IF /\ ~degraded
              /\ job[t].attempt \notin Tried(receipt)
              /\ Cardinality(Tried(receipt)) < MaxVerificationAttempts
           THEN SetAttempt(t, "running", "observing")
           ELSE GiveUp(t)

\* The read-back process runs.
Observe(t) ==
    /\ pc[t] = "observing"
    /\ reads' = [reads EXCEPT ![job[t].receipt] = @ \cup {job[t].attempt}]
    /\ Goto(t, "settling")
    /\ UNCHANGED <<open, degraded, mem, fileVars, job, snap, handle, taken>>

\* complete_attempt or fail_attempt; an error between the two leaves it running.
SettleAttempt(t) ==
    /\ pc[t] = "settling"
    /\ \/ ~degraded /\ \E status \in {"completed", "failed"} : SetAttempt(t, status, "idle")
       \/ GiveUp(t)

-----------------------------------------------------------------------------

Persist(t) ==
    TakeSnapshot(t) \/ CreateTemp(t) \/ WriteTemp(t) \/ SyncTemp(t) \/ RenameTemp(t)
    \/ PersistFails(t)

Execution(t) ==
    (\E r \in Receipts : BeginExecution(t, r)) \/ InsertAccepted(t) \/ Spawn(t) \/ Finish(t)

Readback(t) ==
    \/ \E r \in Receipts, a \in Attempts : BeginReadback(t, r, a)
    \/ ReserveAttempt(t) \/ Observe(t) \/ SettleAttempt(t)

Next ==
    \/ OpenStore \/ Crash
    \/ \E t \in Threads : Execution(t) \/ Readback(t) \/ Persist(t)

Spec == Init /\ [][Next]_vars

-----------------------------------------------------------------------------
(* Properties *)

\* "Writes are serialized and atomic (temp file -> flush -> fsync -> rename)": the
\* store file is at every instant one that a restart can parse.
FileReadable == Stored # Torn

\* What mod.rs says of the receipt ("durable execution receipt (state=accepted) ...
\* before the actual process spawn"): a call that is about to create its process has
\* its receipt in the store file.
ReceiptBeforeSpawn ==
    \A t \in Threads : pc[t] = "spawning" =>
        Stored # Torn /\ Stored[job[t].receipt].state # "none"

\* A store that is healthy and at rest has on disk exactly what it has in memory:
\* no acknowledged update is missing from the file.
NothingLost ==
    open /\ ~degraded /\ (\A t \in Threads : pc[t] = "idle") => Stored = mem

\* "hard bound": a receipt gets no more read-backs than its attempts allow, over
\* any number of crashes and restarts, because an attempt is on disk before its
\* read-back runs.
ReadsBounded == \A r \in Receipts : Cardinality(reads[r]) <= MaxVerificationAttempts

\* History rewind is forbidden: the state that the file gives a receipt only moves
\* along the transition table, also when a restart migrates it.
Follows(from, to) ==
    \/ from = to
    \/ from = "none" /\ to = "accepted"
    \/ TransitionAllowed(from, to)

FileNeverRewinds ==
    [][Stored # Torn /\ Stored' # Torn =>
          \A r \in Receipts : Follows(Stored[r].state, Stored'[r].state)]_vars

\* Where the table leads a receipt, and its settlement an attempt, in any number of steps.
Reaches(from, to) ==
    \/ from = to
    \/ from = "none"
    \/ from = "accepted" /\ to # "none"
    \/ from = "spawn_started" /\ to \in {"completed", "unknown_after_crash"}

Settles(from, to) == from = to \/ from = "none" \/ (from = "running" /\ to # "none")

Behind(old, new) ==
    \A r \in Receipts :
        /\ Reaches(old[r].state, new[r].state)
        /\ \A a \in Attempts : Settles(old[r].attempts[a], new[r].attempts[a])

\* Whatever snapshots overlap, overtake each other or fail to be written, the file of a
\* healthy store is no further along than its memory: it never tells a restart of a
\* process, an outcome or an attempt that the running process does not stand by.
FileNeverAhead == open /\ ~degraded /\ Stored # Torn => Behind(Stored, mem)

\* The eligibility of a read-back is checked on a copy, before the attempt is
\* reserved and run: the receipt still says that its process ran when it does.
ReadbackStaysEligible ==
    \A t \in Threads : pc[t] \in {"reserving", "observing", "settling"} =>
        mem[job[t].receipt].state \notin {"none", "accepted", "spawn_failed"}

\* Two read-backs never hold the same attempt, and the attempts of a receipt stay
\* within the bound while several threads reserve them.
AttemptsExclusive ==
    /\ \A t, u \in Threads :
          /\ pc[t] = "observing" /\ pc[u] = "observing"
          /\ job[t].receipt = job[u].receipt /\ job[t].attempt = job[u].attempt
          => t = u
    /\ \A r \in Receipts :
          Cardinality(Tried(mem[r])) <= MaxVerificationAttempts
=============================================================================
