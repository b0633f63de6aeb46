------------------------- MODULE SqliteTransactions -------------------------
(***************************************************************************)
(* The one SQLite connection of the Brain server (db/sqlite.ts): single    *)
(* statements go straight to the connection, where any number are in       *)
(* flight; withTransaction() queues behind the transaction before it,      *)
(* closes the gate to new statements, waits for those in flight, and owns  *)
(* the connection from BEGIN to COMMIT or ROLLBACK.                        *)
(*                                                                         *)
(* SQLite has one transaction per connection: whatever runs between BEGIN  *)
(* and its end belongs to it, whoever asked.  The database is the log of   *)
(* the statements that took effect, reads included, so that the order in   *)
(* which statements see each other is part of the state.                   *)
(***************************************************************************)
EXTENDS Naturals, Sequences, FiniteSets

CONSTANTS
    Txns,       \* calls of withTransaction
    Calls,      \* calls of run, get, all or exec outside a transaction
    Size,       \* [Txns -> number of statements of its function]
    Tolerant,   \* transactions whose function catches a failed statement
    Owner,      \* [Calls -> transaction whose function left the call behind, or None]
    None

ASSUME SqliteAssumption ==
    /\ IsFiniteSet(Txns)    \* those of one behaviour up to some point
    /\ Txns \cap Calls = {}
    /\ Size \in [Txns -> Nat]
    /\ Tolerant \subseteq Txns
    /\ Owner \in [Calls -> Txns \cup {None}] /\ None \notin Txns \cup Nat

VARIABLES
    stage,      \* [Txns \cup Calls -> how far the call is]
    tail,       \* transactionTail: the last transaction queued, or None
    previous,   \* [Txns -> the transaction it queued behind, or None]
    pending,    \* pendingTransactions
    gate,       \* transactionGate: the number of the gate installed, or None
    gates,      \* gates installed so far
    waitsFor,   \* [Calls -> the gate a call waits for, or None]
    inFlight,   \* inFlightOperations
    drains,     \* [Txns -> the operations in flight it waits for]
    next,       \* [Txns -> its next statement]
    log,        \* the statements that took effect
    begun       \* length of the log at the BEGIN in force, or None

gateVars == <<tail, previous, pending, gate, gates>>
txnVars == <<drains, next>>
engineVars == <<log, begun>>
svars == <<stage, gateVars, waitsFor, inFlight, txnVars, engineVars>>

-----------------------------------------------------------------------------
(* Types *)

TxnStage == {"idle", "queued", "draining", "body", "rollback", "committed", "failed"}
CallStage == {"idle", "gated", "running", "committed", "failed"}
Over == {"committed", "failed"}
Entry == (Txns \cup Calls) \X Nat

SqliteTypeOK ==
    /\ \A t \in Txns : stage[t] \in TxnStage
    /\ \A c \in Calls : stage[c] \in CallStage
    /\ tail \in Txns \cup {None}
    /\ previous \in [Txns -> Txns \cup {None}]
    /\ pending = Cardinality({t \in Txns : stage[t] \notin {"idle"} \cup Over})
    /\ gates \in 0 .. Cardinality(Txns)
    /\ gate = (IF pending = 0 THEN None ELSE gates)
    /\ waitsFor \in [Calls -> (1 .. Cardinality(Txns)) \cup {None}]
    /\ inFlight \subseteq Calls
    /\ drains \in [Txns -> SUBSET Calls]
    /\ \A t \in Txns : next[t] \in 1 .. Size[t] + 1
    /\ log \in Seq(Entry)
    /\ begun \in (0 .. Len(log)) \cup {None}

SqliteInit ==
    /\ stage = [x \in Txns \cup Calls |-> "idle"]
    /\ tail = None
    /\ previous = [t \in Txns |-> None]
    /\ pending = 0 /\ gate = None /\ gates = 0
    /\ waitsFor = [c \in Calls |-> None]
    /\ inFlight = {}
    /\ drains = [t \in Txns |-> {}]
    /\ next = [t \in Txns |-> 1]
    /\ log = <<>> /\ begun = None

Moves(x, to) == stage' = [stage EXCEPT ![x] = to]

-----------------------------------------------------------------------------
(* withTransaction *)

\* Up to the first await: the transaction takes its place in the queue, and the
\* first of a row of transactions closes the gate.
RequestTxn(t) ==
    /\ stage[t] = "idle"
    /\ Moves(t, "queued")
    /\ previous' = [previous EXCEPT ![t] = tail]
    /\ tail' = t
    /\ pending' = pending + 1
    /\ IF pending = 0 THEN gates' = gates + 1 /\ gate' = gates + 1
       ELSE UNCHANGED <<gates, gate>>
    /\ UNCHANGED <<waitsFor, inFlight, txnVars, engineVars>>

PreviousOver(t) == previous[t] # None => stage[previous[t]] \in Over

\* The transaction before it is over: it waits for what is in flight now.
Drain(t) ==
    /\ stage[t] = "queued"
    /\ PreviousOver(t)
    /\ drains' = [drains EXCEPT ![t] = inFlight]
    /\ previous' = [previous EXCEPT ![t] = None]
    /\ Moves(t, "draining")
    /\ UNCHANGED <<tail, pending, gate, gates, waitsFor, inFlight, next, engineVars>>

Drained_Bug(t) == TRUE  \* does not wait for the statements in flight

Drained(t) == drains[t] \cap inFlight = {}

Ends_Bug(t, how) ==  \* forgets its own place among the pending
    /\ Moves(t, how)
    /\ UNCHANGED gateVars

Ends_Early(t, how) ==  \* opens the gate though others are queued
    /\ Moves(t, how)
    /\ pending' = pending - 1
    /\ gate' = None
    /\ UNCHANGED <<tail, previous, gates>>

\* The finally block: the next transaction may go, and the last one opens the
\* gate.
Ends(t, how) ==
    /\ Moves(t, how)
    /\ pending' = pending - 1
    /\ gate' = IF pending' = 0 THEN None ELSE gate
    /\ UNCHANGED <<tail, previous, gates>>

\* BEGIN fails inside a transaction, and may fail anyway; there is nothing to
\* roll back then.
Begin(t) ==
    /\ stage[t] = "draining"
    /\ Drained(t)
    /\ drains' = [drains EXCEPT ![t] = {}]
    /\ \/ /\ begun = None
          /\ begun' = Len(log)
          /\ Moves(t, "body")
          /\ UNCHANGED gateVars
       \/ /\ Ends(t, "failed")
          /\ UNCHANGED begun
    /\ UNCHANGED <<waitsFor, inFlight, next, log>>

\* The function runs its statements one after the other, awaiting each.  One
\* that fails ends the function, unless the function catches the error.
RunStatement(t) ==
    /\ stage[t] = "body"
    /\ next[t] <= Size[t]
    /\ next' = [next EXCEPT ![t] = @ + 1]
    /\ \/ log' = Append(log, <<t, next[t]>>) /\ UNCHANGED stage
       \/ UNCHANGED log
          /\ IF t \in Tolerant THEN UNCHANGED stage ELSE Moves(t, "rollback")
    /\ UNCHANGED <<gateVars, waitsFor, inFlight, drains, begun>>

\* COMMIT, whose failure is rolled back like any other.
Commit(t) ==
    /\ stage[t] = "body"
    /\ next[t] > Size[t]
    /\ \/ Ends(t, "committed") /\ begun' = None
       \/ Moves(t, "rollback") /\ UNCHANGED <<begun, gateVars>>
    /\ UNCHANGED <<waitsFor, inFlight, txnVars, log>>

\* What SQLite is left with when an open transaction is undone.
Undo ==
    /\ log' = IF begun = None THEN log ELSE SubSeq(log, 1, begun)
    /\ begun' = None

Rollback(t) ==
    /\ stage[t] = "rollback"
    /\ Undo
    /\ Ends(t, "failed")
    /\ UNCHANGED <<waitsFor, inFlight, txnVars>>

Advance(t) ==
    Drain(t) \/ Begin(t) \/ RunStatement(t) \/ Commit(t) \/ Rollback(t)

-----------------------------------------------------------------------------
(* withConnection *)

InContext_Bug(c) == Owner[c] # None  \* context.active is never cleared

\* Work left behind by a transaction's function carries its context, which is
\* active only while the transaction runs.  Every function of the code awaits
\* its statements, so that such work asks for the connection later.
InContext(c) == Owner[c] # None /\ stage[Owner[c]] \in {"body", "rollback"}

\* A call in the context of the running transaction skips the gate.  Any other
\* waits for the gate it finds, and is in flight when there is none.
Submits(c) ==
    IF InContext(c)
    THEN Moves(c, "running") /\ waitsFor' = [waitsFor EXCEPT ![c] = None]
         /\ UNCHANGED inFlight
    ELSE IF pending > 0
    THEN Moves(c, "gated") /\ waitsFor' = [waitsFor EXCEPT ![c] = gate]
         /\ UNCHANGED inFlight
    ELSE Moves(c, "running") /\ waitsFor' = [waitsFor EXCEPT ![c] = None]
         /\ inFlight' = inFlight \cup {c}

RequestCall(c) ==
    /\ stage[c] = "idle"
    /\ Owner[c] # None => stage[Owner[c]] \in Over
    /\ Submits(c)
    /\ UNCHANGED <<gateVars, txnVars, engineVars>>

\* Its gate is open; a transaction may have installed another one since.
Retry(c) ==
    /\ stage[c] = "gated"
    /\ gate # waitsFor[c]
    /\ Submits(c)
    /\ UNCHANGED <<gateVars, txnVars, engineVars>>

\* The statement takes effect or fails, and is not in flight any more.
Execute(c) ==
    /\ stage[c] = "running"
    /\ \/ log' = Append(log, <<c, 1>>) /\ Moves(c, "committed")
       \/ UNCHANGED log /\ Moves(c, "failed")
    /\ inFlight' = inFlight \ {c}
    /\ UNCHANGED <<gateVars, waitsFor, txnVars, begun>>

Serve(c) == Retry(c) \/ Execute(c)

-----------------------------------------------------------------------------

\* The process ends: SQLite undoes the open transaction, and every call that was
\* not over is.
CrashStore ==
    /\ Undo
    /\ stage' = [x \in Txns \cup Calls |->
           IF stage[x] \in {"idle"} \cup Over THEN stage[x] ELSE "failed"]
    /\ tail' = None /\ pending' = 0 /\ gate' = None
    /\ inFlight' = {}
    /\ previous' = [t \in Txns |-> None] /\ drains' = [t \in Txns |-> {}]
    /\ waitsFor' = [c \in Calls |-> None]
    /\ UNCHANGED <<gates, next>>

-----------------------------------------------------------------------------
(* Properties *)

Durable == IF begun = None THEN log ELSE SubSeq(log, 1, begun)

Serial == INSTANCE SerialStore WITH log <- Durable

\* Whatever statements, transactions, failures and crashes come together, what
\* is on disk is one transaction or statement after the other: nobody's
\* statement, and nobody's read, lands inside another's transaction, and no
\* transaction leaves a part behind.
SerialStoreSpec == Serial!Spec

\* Every transaction and every statement asked for is answered: queued
\* transactions, the statements they drain and the statements the gate holds
\* never wait for each other in a circle.
EveryCallEnds ==
    \A x \in Txns \cup Calls : (stage[x] # "idle") ~> (stage[x] \in Over)
=============================================================================
