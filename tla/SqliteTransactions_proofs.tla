---------------------- MODULE SqliteTransactions_proofs ----------------------
(***************************************************************************)
(* Lemmas about SqliteTransactions, for any finite set of transactions and *)
(* any calls: the invariant of the connection, that every step of it keeps *)
(* the invariant, and that every step is one of SerialStore or leaves what *)
(* is on disk alone.  StoreClients_proofs puts them together.              *)
(***************************************************************************)
EXTENDS SqliteTransactions, FiniteSetTheorems, SequenceTheorems, TLAPS

Active(t) == stage[t] \notin {"idle"} \cup Over
Owns(t) == stage[t] \in {"body", "rollback"}

ActiveTxns == {t \in Txns : Active(t)}
Asked == {t \in Txns : stage[t] # "idle"}

FunctionsOK ==
    /\ stage \in [Txns \cup Calls -> TxnStage \cup CallStage]
    /\ next \in [Txns -> Nat]

\* The transactions that are not over form a queue behind the one whose turn it
\* is, and the gate opens and closes with it.
Queue(q) ==
    /\ \A i \in 1 .. pending : Active(q[i])
    /\ \A i, j \in 1 .. pending : q[i] = q[j] => i = j
    /\ \A t \in Txns : Active(t) => \E i \in 1 .. pending : q[i] = t
    /\ \A i \in 2 .. pending : stage[q[i]] = "queued" /\ previous[q[i]] = q[i - 1]
    /\ pending > 0 /\ stage[q[1]] = "queued" => PreviousOver(q[1])
    /\ pending > 0 => tail = q[pending]
    /\ pending = 0 /\ tail # None => stage[tail] \in Over

QueueOK ==
    /\ \E q \in [1 .. pending -> Txns] : Queue(q)
    /\ gates <= Cardinality(Asked)
    /\ pending > 0 => gates > 0

\* What is in flight was let in by an open gate, and the transaction that opens
\* waits for all of it; nothing is in flight while it has the connection.
FlightOK ==
    /\ \A c \in Calls :
          /\ stage[c] = "running" <=> c \in inFlight
          /\ stage[c] # "idle" /\ Owner[c] # None => stage[Owner[c]] \in Over
    /\ \A t \in Txns :
          /\ stage[t] = "draining" => inFlight \subseteq drains[t]
          /\ Owns(t) => inFlight = {}
    /\ begun # None <=> \E t \in Txns : Owns(t)

\* The log since BEGIN holds statements of the running transaction, in order.
BodyOK(t) ==
    /\ begun \in Nat /\ begun <= Len(log)
    /\ Len(log) - begun < next[t]
    /\ \A i \in begun + 1 .. Len(log) : log[i][1] = t /\ log[i][2] < next[t] /\ log[i][2] > 0
    /\ \A i, j \in begun + 1 .. Len(log) : i < j => log[i][2] < log[j][2]
    /\ t \notin Tolerant /\ stage[t] = "body" =>
          /\ Len(log) - begun = next[t] - 1
          /\ \A i \in begun + 1 .. Len(log) : log[i] = <<t, i - begun>>

LogOK ==
    /\ \A t \in Txns : stage[t] \in {"idle", "queued", "draining"} => next[t] = 1
    /\ \A t \in Txns : Owns(t) => BodyOK(t)
    /\ \A i \in DOMAIN Durable : \A t \in Txns :
          Durable[i][1] = t => stage[t] = "committed"
    /\ \A t \in Txns \ Tolerant : stage[t] = "committed" =>
          \A i \in 1 .. Size[t] : \E j \in DOMAIN Durable : Durable[j] = <<t, i>>

StoreInv == SqliteTypeOK /\ FunctionsOK /\ QueueOK /\ FlightOK /\ LogOK
-----------------------------------------------------------------------------
USE SqliteAssumption

LEMMA InitStoreInv == SqliteInit => StoreInv
<1> SUFFICES ASSUME SqliteInit PROVE StoreInv
  OBVIOUS
<1>1. {t \in Txns : stage[t] \notin {"idle"} \cup Over} = {}
      /\ Asked = {}
  BY DEF SqliteInit, Asked
<1>2. Cardinality({}) = 0 /\ Cardinality(Txns) \in Nat
  BY FS_EmptySet, FS_CardinalityType
<1>3. SqliteTypeOK
  <2>1. /\ \A t \in Txns : stage[t] \in TxnStage
        /\ \A c \in Calls : stage[c] \in CallStage
        /\ tail \in Txns \cup {None}
        /\ previous \in [Txns -> Txns \cup {None}]
        /\ waitsFor \in [Calls -> (1 .. Cardinality(Txns)) \cup {None}]
        /\ inFlight \subseteq Calls
        /\ drains \in [Txns -> SUBSET Calls]
    BY DEF SqliteInit, TxnStage, CallStage
  <2>2. /\ \A t \in Txns : next[t] \in 1 .. Size[t] + 1
        /\ gates \in 0 .. Cardinality(Txns)
        /\ gate = (IF pending = 0 THEN None ELSE gates)
    BY <1>2 DEF SqliteInit
  <2>3. /\ pending = Cardinality({t \in Txns : stage[t] \notin {"idle"} \cup Over})
    BY <1>1, <1>2 DEF SqliteInit
  <2>4. log \in Seq(Entry) /\ begun \in (0 .. Len(log)) \cup {None}
    BY DEF SqliteInit
  <2> QED  BY <2>1, <2>2, <2>3, <2>4 DEF SqliteTypeOK
<1>4. FunctionsOK
  BY DEF SqliteInit, FunctionsOK, TxnStage, CallStage
<1>5. QueueOK
  <2>1. PICK q \in [1 .. 0 -> Txns] : TRUE
    <3>1. 1 .. 0 = {}
      OBVIOUS
    <3>2. [i \in 1 .. 0 |-> i] \in [1 .. 0 -> Txns]
      BY <3>1
    <3> QED  BY <3>2
  <2>2. Queue(q)
    BY DEF Queue, SqliteInit, Active, Over
  <2>3. pending = 0 /\ gates = 0
    BY DEF SqliteInit
  <2>4. gates <= Cardinality(Asked)
    BY <1>1, <1>2, <2>3
  <2> QED  BY <2>2, <2>3, <2>4 DEF QueueOK
<1>6. FlightOK
  BY DEF FlightOK, SqliteInit, Owns
<1>7. LogOK
  BY DEF LogOK, SqliteInit, Owns, Durable
<1> QED  BY <1>3, <1>4, <1>5, <1>6, <1>7 DEF StoreInv

\* Whose turn it is: the transaction that waits for nobody before it.
Turn(t) == Active(t) /\ (stage[t] = "queued" => PreviousOver(t))

LEMMA OneTurn ==
    ASSUME QueueOK, SqliteTypeOK, NEW t \in Txns, NEW u \in Txns, Turn(t), Turn(u)
    PROVE  t = u
<1>1. PICK q \in [1 .. pending -> Txns] : Queue(q)
  BY DEF QueueOK
<1>2. pending \in Nat
  BY FS_Subset, FS_CardinalityType DEF SqliteTypeOK
<1>3. ASSUME NEW v \in Txns, Turn(v) PROVE v = q[1] /\ pending > 0
  <2>1. PICK i \in 1 .. pending : q[i] = v
    BY <1>1, <1>3 DEF Queue, Turn
  <2>2. CASE i = 1
    BY <1>2, <2>1, <2>2
  <2>3. CASE i # 1
    <3>1. i \in 2 .. pending /\ i - 1 \in 1 .. pending
      BY <1>2, <2>3
    <3>2. stage[v] = "queued" /\ previous[v] = q[i - 1] /\ Active(q[i - 1])
      BY <1>1, <2>1, <3>1 DEF Queue
    <3> QED  BY <1>3, <3>1, <3>2 DEF Turn, PreviousOver, Active
  <2> QED  BY <2>2, <2>3
<1> QED  BY <1>3

\* What a step of the connection does to the stages.
LEMMA MovesOne ==
    ASSUME FunctionsOK, NEW x \in Txns \cup Calls, NEW to \in TxnStage \cup CallStage,
           Moves(x, to)
    PROVE  /\ stage' \in [Txns \cup Calls -> TxnStage \cup CallStage]
           /\ stage'[x] = to
           /\ \A y \in Txns \cup Calls : y # x => stage'[y] = stage[y]
  BY DEF FunctionsOK, Moves

-----------------------------------------------------------------------------
(* The steps, by what they do to the queue *)

\* t joins the queue, or leaves it as the one whose turn it is, or the queue
\* stays as it is while its head or a call moves.
Joins(t) ==
    /\ stage[t] = "idle"
    /\ stage'[t] = "queued"
    /\ \A x \in Txns \cup Calls : x # t => stage'[x] = stage[x]
    /\ previous' = [previous EXCEPT ![t] = tail]
    /\ tail' = t
    /\ pending' = pending + 1
    /\ gates' = (IF pending = 0 THEN gates + 1 ELSE gates)
    /\ gate' = (IF pending = 0 THEN gates + 1 ELSE gate)

Leaves(t) ==
    /\ Turn(t) /\ stage[t] # "queued"
    /\ stage'[t] \in Over
    /\ \A x \in Txns \cup Calls : x # t => stage'[x] = stage[x]
    /\ pending' = pending - 1
    /\ gate' = (IF pending' = 0 THEN None ELSE gate)
    /\ UNCHANGED <<tail, previous, gates>>

Stays ==
    /\ \A x \in Txns : stage'[x] # stage[x] => Turn(x) /\ Turn(x)' /\ stage'[x] # "queued"
    /\ \A x \in Txns : stage'[x] = stage[x] => previous'[x] = previous[x]
    /\ UNCHANGED <<tail, pending, gates, gate>>

LEMMA StayingSteps ==
    ASSUME SqliteTypeOK, FunctionsOK,
           \/ \E t \in Txns : Drain(t) \/ RunStatement(t)
           \/ \E c \in Calls : RequestCall(c) \/ Serve(c)
           \/ UNCHANGED svars
    PROVE  Stays /\ stage' \in [Txns \cup Calls -> TxnStage \cup CallStage]
<1> USE DEF Stays, TxnStage, CallStage, gateVars, svars
<1>1. ASSUME NEW t \in Txns, Drain(t) PROVE Stays
  BY <1>1 DEF Drain, Moves, Turn, Active, Over, FunctionsOK, SqliteTypeOK
<1>2. ASSUME NEW t \in Txns, RunStatement(t) PROVE Stays
  BY <1>2 DEF RunStatement, Moves, Turn, Active, Over, FunctionsOK
<1>3. ASSUME NEW c \in Calls, RequestCall(c) \/ Serve(c) PROVE Stays
  BY <1>3 DEF RequestCall, Serve, Retry, Execute, Submits, Moves, FunctionsOK
<1>4. stage' \in [Txns \cup Calls -> TxnStage \cup CallStage]
  BY DEF Drain, RunStatement, RequestCall, Serve, Retry, Execute, Submits, Moves, FunctionsOK
<1> QED  BY <1>1, <1>2, <1>3, <1>4

LEMMA BeginSteps ==
    ASSUME SqliteTypeOK, FunctionsOK, NEW t \in Txns, Begin(t) \/ Commit(t) \/ Rollback(t)
    PROVE  /\ Stays \/ Leaves(t)
           /\ stage' \in [Txns \cup Calls -> TxnStage \cup CallStage]
<1> USE DEF TxnStage, CallStage, gateVars
<1>1. ASSUME NEW to \in Over, stage[t] \in {"draining", "body", "rollback"}, Ends(t, to)
      PROVE  Leaves(t) /\ stage' \in [Txns \cup Calls -> TxnStage \cup CallStage]
  BY <1>1, MovesOne DEF Leaves, Ends, Turn, Active, Over
<1>2. ASSUME NEW to \in {"body", "rollback"}, stage[t] \in {"draining", "body"}, Moves(t, to),
             UNCHANGED gateVars
      PROVE  Stays /\ stage' \in [Txns \cup Calls -> TxnStage \cup CallStage]
  BY <1>2, MovesOne DEF Stays, Turn, Active, Over
<1> QED  BY <1>1, <1>2 DEF Begin, Commit, Rollback, Over

LEMMA JoiningStep ==
    ASSUME FunctionsOK, NEW t \in Txns, RequestTxn(t)
    PROVE  Joins(t) /\ stage' \in [Txns \cup Calls -> TxnStage \cup CallStage]
<1>1. Moves(t, "queued") /\ "queued" \in TxnStage
  BY DEF RequestTxn, TxnStage
<1> QED  BY <1>1, MovesOne DEF Joins, RequestTxn

-----------------------------------------------------------------------------
(* The queue *)

LEMMA CountsAreNumbers ==
    /\ IsFiniteSet(ActiveTxns) /\ Cardinality(ActiveTxns) \in Nat
    /\ IsFiniteSet(Asked) /\ Cardinality(Asked) \in Nat
    /\ Cardinality(Asked) <= Cardinality(Txns)
    /\ Cardinality(Txns) \in Nat
<1>1. ActiveTxns \subseteq Txns /\ Asked \subseteq Txns
  BY DEF ActiveTxns, Asked
<1> QED  BY <1>1, FS_Subset, FS_CardinalityType

\* The part of SqliteTypeOK that is about the queue.
GateOK ==
    /\ tail \in Txns \cup {None}
    /\ previous \in [Txns -> Txns \cup {None}]
    /\ pending = Cardinality(ActiveTxns)
    /\ gates \in 0 .. Cardinality(Txns)
    /\ gate = (IF pending = 0 THEN None ELSE gates)

LEMMA GateType == SqliteTypeOK => GateOK /\ pending \in Nat
  BY CountsAreNumbers DEF SqliteTypeOK, GateOK, ActiveTxns, Active

LEMMA JoinKeepsGate ==
    ASSUME GateOK, QueueOK, NEW t \in Txns, Joins(t)
    PROVE  /\ GateOK'
           /\ gates' <= Cardinality(Asked') /\ gates' > 0
           /\ pending \in Nat
<1>1. pending \in Nat
  BY CountsAreNumbers DEF GateOK
<1>2. ActiveTxns' = ActiveTxns \cup {t} /\ t \notin ActiveTxns
  BY DEF ActiveTxns, Joins, Active, Over
<1>3. Asked' = Asked \cup {t} /\ t \notin Asked
  BY DEF Asked, Joins
<1>4. pending' = Cardinality(ActiveTxns')
  BY <1>2, CountsAreNumbers, FS_AddElement DEF GateOK, Joins
<1>5. Cardinality(Asked') = Cardinality(Asked) + 1
  BY <1>3, CountsAreNumbers, FS_AddElement
<1>6. Cardinality(Asked') <= Cardinality(Txns)
  BY FS_Subset DEF Asked
<1>7. gates \in Nat /\ gates <= Cardinality(Asked) /\ (pending > 0 => gates > 0)
  BY CountsAreNumbers DEF GateOK, QueueOK
<1>8. /\ gates' \in 0 .. Cardinality(Txns) /\ gates' <= Cardinality(Asked')
      /\ gates' > 0
      /\ gate' = (IF pending' = 0 THEN None ELSE gates')
  BY <1>1, <1>5, <1>6, <1>7, CountsAreNumbers DEF GateOK, Joins
<1>9. tail' \in Txns \cup {None} /\ previous' \in [Txns -> Txns \cup {None}]
  BY DEF GateOK, Joins
<1> QED  BY <1>1, <1>4, <1>8, <1>9 DEF GateOK

LEMMA JoinKeepsQueue ==
    ASSUME GateOK, QueueOK, NEW t \in Txns, Joins(t)
    PROVE  GateOK' /\ QueueOK'
<1> USE DEF Joins, Active, Over
<1>1. pending \in Nat /\ pending' = pending + 1
  BY JoinKeepsGate
<1>2. PICK q \in [1 .. pending -> Txns] : Queue(q)
  BY DEF QueueOK
<1>3. PICK r : r = [i \in 1 .. pending' |-> IF i = pending + 1 THEN t ELSE q[i]]
  OBVIOUS
<1>4. /\ r \in [1 .. pending' -> Txns]
      /\ r[pending'] = t
      /\ \A i \in 1 .. pending : r[i] = q[i] /\ q[i] \in Txns \ {t}
  BY <1>1, <1>2, <1>3 DEF Queue
<1>5. Queue(r)'
  <2>1. ASSUME NEW i \in 1 .. pending' PROVE i = pending' \/ i \in 1 .. pending
    BY <1>1
  <2>6. \A i \in 1 .. pending' : Active(r[i])'
    BY <1>2, <1>4, <2>1 DEF Queue
  <2>7. ASSUME NEW i \in 1 .. pending', NEW j \in 1 .. pending', r[i] = r[j] PROVE i = j
    BY <1>2, <1>4, <2>1, <2>7 DEF Queue
  <2>2. ASSUME NEW u \in Txns, Active(u)' PROVE \E i \in 1 .. pending' : r[i] = u
    <3>1. CASE u = t
      BY <1>1, <1>4, <3>1
    <3>2. CASE u # t
      BY <1>1, <1>2, <1>4, <2>2, <3>2 DEF Queue
    <3> QED  BY <3>1, <3>2
  <2>3. \A i \in 2 .. pending' : stage'[r[i]] = "queued" /\ previous'[r[i]] = r[i - 1]
    <3>1. ASSUME NEW i \in 2 .. pending
          PROVE  stage'[r[i]] = "queued" /\ previous'[r[i]] = r[i - 1]
      <4>1. /\ r[i] = q[i] /\ r[i - 1] = q[i - 1] /\ q[i] \in Txns \ {t}
            /\ stage[q[i]] = "queued" /\ previous[q[i]] = q[i - 1]
        BY <1>1, <1>2, <1>4 DEF Queue
      <4> QED  BY <4>1 DEF GateOK
    <3>2. ASSUME pending > 0
          PROVE  stage'[r[pending']] = "queued" /\ previous'[r[pending']] = r[pending' - 1]
      BY <1>1, <1>2, <1>4, <3>2 DEF Queue, GateOK
    <3>3. ASSUME NEW i \in 2 .. pending' PROVE i \in 2 .. pending \/ (i = pending' /\ pending > 0)
      BY <1>1
    <3> QED  BY <3>1, <3>2, <3>3
  <2>4. pending' > 0 /\ stage'[r[1]] = "queued" => PreviousOver(r[1])'
    <3>1. CASE pending = 0
      <4>1. r[1] = t /\ (tail # None => stage[tail] \in Over) /\ previous'[t] = tail
        BY <1>1, <1>2, <1>4, <3>1 DEF Queue, GateOK
      <4> QED  BY <4>1 DEF PreviousOver, GateOK
    <3>2. CASE pending > 0
      <4>1. r[1] = q[1] /\ q[1] \in Txns \ {t}
        BY <1>1, <1>4, <3>2
      <4>2. previous'[q[1]] = previous[q[1]] /\ previous[q[1]] \in Txns \cup {None}
        BY <4>1 DEF GateOK
      <4> QED  BY <1>2, <3>2, <4>1, <4>2 DEF Queue, PreviousOver
    <3> QED  BY <1>1, <3>1, <3>2
  <2>5. (pending' > 0 => tail' = r[pending']) /\ pending' # 0
    BY <1>1, <1>4
  <2> QED  BY <2>2, <2>3, <2>4, <2>5, <2>6, <2>7 DEF Queue
<1> QED  BY <1>4, <1>5, JoinKeepsGate DEF QueueOK

LEMMA LeaveKeepsGate ==
    ASSUME SqliteTypeOK, NEW t \in Txns, Leaves(t)
    PROVE  GateOK' /\ pending' \in Nat /\ pending \in Nat /\ Asked' = Asked
<1>1. GateOK /\ pending \in Nat
  BY GateType
<1>2. ActiveTxns' = ActiveTxns \ {t} /\ t \in ActiveTxns /\ Asked' = Asked
  BY DEF Leaves, Turn, Active, Over, ActiveTxns, Asked
<1>3. Cardinality(ActiveTxns') = Cardinality(ActiveTxns) - 1
  BY <1>2, CountsAreNumbers, FS_RemoveElement
<1>4. pending' = Cardinality(ActiveTxns')
  BY <1>1, <1>3 DEF GateOK, Leaves
<1>5. pending' \in Nat
  BY <1>2, <1>4, CountsAreNumbers, FS_Subset, FS_CardinalityType
<1>6. GateOK'
  BY <1>1, <1>4, <1>5 DEF GateOK, Leaves
<1> QED  BY <1>1, <1>2, <1>5, <1>6

LEMMA LeaveKeepsQueue ==
    ASSUME SqliteTypeOK, QueueOK, NEW t \in Txns, Leaves(t)
    PROVE  GateOK' /\ QueueOK'
<1> USE DEF Leaves, Active, Over
<1>1. GateOK' /\ pending' \in Nat /\ pending \in Nat /\ pending = pending' + 1
  BY LeaveKeepsGate
<1>2. PICK q \in [1 .. pending -> Txns] : Queue(q)
  BY DEF QueueOK
<1>3. q[1] = t
  <2>1. q[1] \in Txns /\ Turn(q[1])
    BY <1>1, <1>2 DEF Queue, Turn
  <2> QED  BY <2>1, OneTurn
<1>4. PICK r : r = [i \in 1 .. pending' |-> q[i + 1]]
  OBVIOUS
<1>5. r \in [1 .. pending' -> Txns] /\ \A i \in 1 .. pending' : r[i] = q[i + 1] /\ r[i] # t
  BY <1>1, <1>2, <1>3, <1>4 DEF Queue
<1>6. Queue(r)'
  <2>1. ASSUME NEW i \in 1 .. pending' PROVE i + 1 \in 1 .. pending
    BY <1>1
  <2>7. \A i \in 1 .. pending' : Active(r[i])'
    BY <1>2, <1>5, <2>1 DEF Queue
  <2>8. ASSUME NEW i \in 1 .. pending', NEW j \in 1 .. pending', r[i] = r[j] PROVE i = j
    <3>1. i + 1 = j + 1
      BY <1>2, <1>5, <2>1, <2>8 DEF Queue
    <3> QED  BY <1>1, <3>1
  <2>2. ASSUME NEW u \in Txns, Active(u)' PROVE \E i \in 1 .. pending' : r[i] = u
    <3>1. u # t /\ Active(u)
      BY <2>2
    <3>2. PICK i \in 1 .. pending : q[i] = u
      BY <1>2, <3>1 DEF Queue
    <3>3. i - 1 \in 1 .. pending' /\ r[i - 1] = u
      BY <1>1, <1>3, <1>5, <3>1, <3>2
    <3> QED  BY <3>3
  <2>3. ASSUME NEW i \in 2 .. pending'
        PROVE  stage'[r[i]] = "queued" /\ previous'[r[i]] = r[i - 1]
    <3>1. i + 1 \in 2 .. pending /\ i - 1 \in 1 .. pending' /\ i \in 1 .. pending'
      BY <1>1
    <3>2. stage[q[i + 1]] = "queued" /\ previous[q[i + 1]] = q[i]
      BY <1>2, <3>1 DEF Queue
    <3> QED  BY <1>5, <3>1, <3>2
  <2>4. pending' > 0 => PreviousOver(r[1])'
    <3>1. ASSUME pending' > 0 PROVE r[1] = q[2] /\ previous[q[2]] = t
      BY <1>1, <1>2, <1>3, <1>5, <3>1 DEF Queue
    <3> QED  BY <3>1 DEF PreviousOver
  <2>5. pending' > 0 => tail' = r[pending']
    BY <1>1, <1>2, <1>5 DEF Queue
  <2>6. pending' = 0 => stage'[tail'] \in Over
    BY <1>1, <1>2, <1>3 DEF Queue
  <2> QED  BY <2>2, <2>3, <2>4, <2>5, <2>6, <2>7, <2>8 DEF Queue
<1>7. gates' <= Cardinality(Asked') /\ (pending' > 0 => gates' > 0)
  BY <1>1, LeaveKeepsGate DEF QueueOK
<1> QED  BY <1>1, <1>5, <1>6, <1>7 DEF QueueOK

LEMMA StayKeepsQueue ==
    ASSUME SqliteTypeOK, QueueOK, Stays,
           previous' \in [Txns -> Txns \cup {None}]
    PROVE  GateOK' /\ QueueOK'
<1> USE DEF Stays, Active, Over
<1>1. GateOK /\ pending \in Nat
  BY GateType
<1>2. ActiveTxns' = ActiveTxns /\ Asked' = Asked
  BY DEF Turn, ActiveTxns, Asked
<1>3. GateOK'
  BY <1>1, <1>2 DEF GateOK
<1>4. PICK q \in [1 .. pending -> Txns] : Queue(q)
  BY DEF QueueOK
<1>5. ASSUME NEW i \in 2 .. pending
      PROVE  /\ i - 1 \in 1 .. pending /\ q[i] \in Txns /\ ~Turn(q[i])
             /\ stage[q[i]] = "queued" /\ previous[q[i]] = q[i - 1]
  <2>1. i \in 1 .. pending /\ i - 1 \in 1 .. pending
    BY <1>1
  <2>2. stage[q[i]] = "queued" /\ previous[q[i]] = q[i - 1] /\ Active(q[i - 1])
    BY <1>4, <2>1 DEF Queue
  <2>3. q[i - 1] \in Txns /\ q[i - 1] # None
    BY <2>1
  <2> QED  BY <2>1, <2>2, <2>3 DEF Turn, PreviousOver
<1>6. Queue(q)'
  <2>1. /\ \A i \in 1 .. pending' : Active(q[i])'
        /\ \A i, j \in 1 .. pending' : q[i] = q[j] => i = j
        /\ \A u \in Txns : Active(u)' => \E i \in 1 .. pending' : q[i] = u
    BY <1>4 DEF Queue, Turn
  <2>2. \A i \in 2 .. pending' : stage'[q[i]] = "queued" /\ previous'[q[i]] = q[i - 1]
    BY <1>5
  <2>3. pending' > 0 /\ stage'[q[1]] = "queued" => PreviousOver(q[1])'
    <3> SUFFICES ASSUME pending > 0, stage'[q[1]] = "queued" PROVE PreviousOver(q[1])'
      OBVIOUS
    <3>1. q[1] \in Txns /\ stage[q[1]] = "queued"
      BY <1>1, <1>4
    <3>2. PreviousOver(q[1]) /\ previous'[q[1]] = previous[q[1]]
          /\ previous[q[1]] \in Txns \cup {None}
      BY <1>1, <1>4, <3>1 DEF Queue, GateOK
    <3> QED  BY <3>2 DEF PreviousOver, Turn
  <2>4. /\ pending' > 0 => tail' = q[pending']
        /\ pending' = 0 /\ tail' # None => stage'[tail'] \in Over
    BY <1>1, <1>4 DEF Queue, Turn, GateOK
  <2> QED  BY <2>1, <2>2, <2>3, <2>4 DEF Queue
<1> QED  BY <1>2, <1>3, <1>4, <1>6 DEF QueueOK
-----------------------------------------------------------------------------
(* Calls, statements and the log *)

\* The log is cut, or added to, without touching what came before.
LEMMA Prefix ==
    ASSUME NEW s \in Seq(Entry), NEW e \in Entry, NEW n \in 0 .. Len(s)
    PROVE  /\ SubSeq(s, 1, n) \in Seq(Entry)
           /\ Len(SubSeq(s, 1, n)) = n
           /\ \A i \in 1 .. n : SubSeq(s, 1, n)[i] = s[i]
           /\ SubSeq(Append(s, e), 1, n) = SubSeq(s, 1, n)
<1>1. Append(s, e) \in Seq(Entry) /\ \A i \in 1 .. n : Append(s, e)[i] = s[i]
  BY AppendProperties
<1>2. \A i \in 1 .. n : s[i] \in Entry
  BY ElementOfSeq
<1>3. /\ SubSeq(s, 1, n) \in Seq(Entry) /\ Len(SubSeq(s, 1, n)) = n
      /\ \A i \in 1 .. n : SubSeq(s, 1, n)[i] = s[i]
  BY <1>2, SubSeqProperties
<1>4. /\ SubSeq(Append(s, e), 1, n) \in Seq(Entry) /\ Len(SubSeq(Append(s, e), 1, n)) = n
      /\ \A i \in 1 .. n : SubSeq(Append(s, e), 1, n)[i] = Append(s, e)[i]
  BY <1>1, <1>2, SubSeqProperties
<1>5. SubSeq(Append(s, e), 1, n) = SubSeq(s, 1, n)
  BY <1>1, <1>3, <1>4, SeqEqual
<1> QED  BY <1>3, <1>5

\* The part of SqliteTypeOK that is not about the queue.
RestOK ==
    /\ \A t \in Txns : stage[t] \in TxnStage
    /\ \A c \in Calls : stage[c] \in CallStage
    /\ waitsFor \in [Calls -> (1 .. Cardinality(Txns)) \cup {None}]
    /\ inFlight \subseteq Calls
    /\ drains \in [Txns -> SUBSET Calls]
    /\ \A t \in Txns : next[t] \in 1 .. Size[t] + 1
    /\ log \in Seq(Entry)
    /\ begun \in (0 .. Len(log)) \cup {None}

LEMMA TypeParts == SqliteTypeOK <=> GateOK /\ RestOK
  BY DEF SqliteTypeOK, GateOK, RestOK, ActiveTxns, Active

\* What is on disk is part of the log.
LEMMA DurableSeq ==
    ASSUME RestOK
    PROVE  Durable \in Seq(Entry)
<1>1. CASE begun = None
  BY <1>1 DEF Durable, RestOK
<1>2. CASE begun # None
  <2>1. begun \in 0 .. Len(log) /\ log \in Seq(Entry) /\ Durable = SubSeq(log, 1, begun)
    BY <1>2 DEF RestOK, Durable
  <2>2. \A i \in 1 .. begun : log[i] \in Entry
    BY <2>1, ElementOfSeq
  <2> QED  BY <2>1, <2>2, SubSeqProperties
<1> QED  BY <1>1, <1>2

\* Undoing a transaction leaves what is on disk.
LEMMA UndoDurable ==
    ASSUME RestOK, Undo
    PROVE  log' = Durable /\ Durable' = Durable /\ begun' = None
  BY DEF Undo, Durable

\* A transaction whose turn it is keeps the gate closed.
LEMMA TurnPending ==
    ASSUME QueueOK, SqliteTypeOK, NEW t \in Txns, Active(t)
    PROVE  pending > 0
<1>1. PICK q \in [1 .. pending -> Txns] : Queue(q)
  BY DEF QueueOK
<1>2. PICK i \in 1 .. pending : q[i] = t
  BY <1>1 DEF Queue
<1> QED  BY <1>2, GateType

LEMMA OwnerIsTheOne ==
    ASSUME QueueOK, SqliteTypeOK, NEW t \in Txns, NEW u \in Txns, Owns(u),
           stage[t] \in {"draining", "body", "rollback"}
    PROVE  t = u
  BY OneTurn DEF Turn, Active, Over, Owns

\* A call outside any transaction waits for the gate it finds, or is in flight.
LEMMA SubmitsOutside ==
    ASSUME StoreInv, NEW c \in Calls, RequestCall(c) \/ Retry(c)
    PROVE  /\ stage[c] \in {"idle", "gated"}
           /\ Owner[c] # None => stage[Owner[c]] \in Over
           /\ \/ /\ pending > 0
                 /\ Moves(c, "gated") /\ UNCHANGED inFlight
                 /\ waitsFor' = [waitsFor EXCEPT ![c] = gate]
              \/ /\ pending = 0
                 /\ Moves(c, "running") /\ inFlight' = inFlight \cup {c}
                 /\ waitsFor' = [waitsFor EXCEPT ![c] = None]
           /\ UNCHANGED <<gateVars, txnVars, engineVars>>
<1>1. stage[c] \in {"idle", "gated"} /\ (Owner[c] # None => stage[Owner[c]] \in Over)
  BY DEF RequestCall, Retry, StoreInv, FlightOK
<1>2. ~InContext(c)
  BY <1>1 DEF InContext, Over
<1>3. pending \in Nat
  BY GateType DEF StoreInv
<1> QED  BY <1>1, <1>2, <1>3 DEF RequestCall, Retry, Submits

LEMMA Appended ==
    ASSUME RestOK, NEW e \in Entry
    PROVE  /\ Append(log, e) \in Seq(Entry)
           /\ Len(log) \in Nat /\ Len(Append(log, e)) = Len(log) + 1
           /\ \A i \in 1 .. Len(log) : Append(log, e)[i] = log[i]
           /\ Append(log, e)[Len(log) + 1] = e
  BY AppendProperties, LenProperties DEF RestOK

LEMMA CallStepsType ==
    ASSUME StoreInv, NEW c \in Calls, RequestCall(c) \/ Serve(c)
    PROVE  RestOK'
<1> USE DEF RestOK, CallStage
<1>0. RestOK /\ FunctionsOK /\ GateOK /\ pending \in Nat /\ Cardinality(Txns) \in Nat
  BY TypeParts, GateType, CountsAreNumbers DEF StoreInv
<1>1. CASE RequestCall(c) \/ Retry(c)
  <2>1. pending > 0 => gate \in 1 .. Cardinality(Txns)
    BY <1>0 DEF GateOK, StoreInv, QueueOK
  <2>2. waitsFor' \in [Calls -> (1 .. Cardinality(Txns)) \cup {None}]
    <3>1. \/ pending > 0 /\ waitsFor' = [waitsFor EXCEPT ![c] = gate]
          \/ waitsFor' = [waitsFor EXCEPT ![c] = None]
      BY <1>1, SubmitsOutside
    <3> QED  BY <1>0, <2>1, <3>1
  <2>3. /\ \A t \in Txns : stage'[t] = stage[t]
        /\ \A d \in Calls : stage'[d] \in CallStage
        /\ inFlight' \subseteq Calls
    <3>1. \/ Moves(c, "gated") /\ inFlight' = inFlight
          \/ Moves(c, "running") /\ inFlight' = inFlight \cup {c}
      BY <1>1, SubmitsOutside
    <3> QED  BY <1>0, <3>1 DEF Moves, FunctionsOK
  <2> QED  BY <1>0, <1>1, <2>2, <2>3, SubmitsOutside DEF txnVars, engineVars
<1>2. CASE Execute(c)
  <2>1. \A t \in Txns : stage'[t] = stage[t]
    BY <1>0, <1>2 DEF Execute, Moves, FunctionsOK
  <2>2. \A d \in Calls : stage'[d] \in CallStage
    BY <1>0, <1>2 DEF Execute, Moves, FunctionsOK
  <2>3. log' \in Seq(Entry) /\ Len(log') \in Nat /\ Len(log) \in Nat /\ Len(log) <= Len(log')
    <3>1. <<c, 1>> \in Entry
      BY DEF Entry
    <3>2. /\ Append(log, <<c, 1>>) \in Seq(Entry)
          /\ Len(log) \in Nat /\ Len(Append(log, <<c, 1>>)) = Len(log) + 1
      BY <1>0, <3>1, Appended
    <3>3. log' = Append(log, <<c, 1>>) \/ log' = log
      BY <1>2 DEF Execute
    <3>4. /\ log \in Seq(Entry) /\ Len(log) <= Len(log)
          /\ Len(Append(log, <<c, 1>>)) \in Nat /\ Len(log) <= Len(Append(log, <<c, 1>>))
      BY <1>0, <3>2
    <3> QED  BY <3>2, <3>3, <3>4, Zenon
  <2>4. begun' \in (0 .. Len(log')) \cup {None}
    BY <1>0, <1>2, <2>3 DEF Execute
  <2> QED  BY <1>0, <1>2, <2>1, <2>2, <2>3, <2>4 DEF Execute, txnVars
<1> QED  BY <1>1, <1>2 DEF Serve

LEMMA TxnStepsType ==
    ASSUME StoreInv, NEW t \in Txns, RequestTxn(t) \/ Advance(t)
    PROVE  RestOK'
<1> USE DEF RestOK
<1>0. RestOK /\ FunctionsOK /\ Len(log) \in Nat
  BY TypeParts, LenProperties DEF StoreInv
<1>1. /\ \A u \in Txns : stage'[u] \in TxnStage
      /\ \A c \in Calls : stage'[c] = stage[c]
  <2>1. stage' = stage \/ \E to \in TxnStage : stage' = [stage EXCEPT ![t] = to]
    BY DEF RequestTxn, Advance, Drain, Begin, RunStatement, Commit, Rollback, Ends, Moves, TxnStage
  <2> QED  BY <1>0, <2>1 DEF FunctionsOK
<1>2. \A u \in Txns : next'[u] \in 1 .. Size[u] + 1
  <2>1. CASE RunStatement(t)
    <3>1. next' = [next EXCEPT ![t] = next[t] + 1] /\ next[t] <= Size[t]
      BY <2>1 DEF RunStatement
    <3> QED  BY <1>0, <3>1 DEF FunctionsOK
  <2>2. CASE next' = next
    BY <1>0, <2>2
  <2> QED  BY <2>1, <2>2 DEF RequestTxn, Advance, Drain, Begin, Commit, Rollback, txnVars
<1>3. /\ waitsFor' = waitsFor /\ inFlight' = inFlight
      /\ drains' \in [Txns -> SUBSET Calls]
  BY <1>0 DEF RequestTxn, Advance, Drain, Begin, RunStatement, Commit, Rollback, txnVars
<1>4. log' \in Seq(Entry) /\ begun' \in (0 .. Len(log')) \cup {None}
  <2>1. CASE RunStatement(t)
    <3>1. <<t, next[t]>> \in Entry
      BY DEF Entry, FunctionsOK, StoreInv
    <3>2. log' = log \/ log' = Append(log, <<t, next[t]>>)
      BY <2>1 DEF RunStatement
    <3>4. /\ Append(log, <<t, next[t]>>) \in Seq(Entry)
          /\ Len(log) \in Nat /\ Len(Append(log, <<t, next[t]>>)) = Len(log) + 1
      BY <1>0, <3>1, Appended
    <3>3. log' \in Seq(Entry) /\ Len(log') \in Nat /\ Len(log) <= Len(log')
      <4>1. /\ log \in Seq(Entry) /\ Len(log) <= Len(log)
            /\ Len(Append(log, <<t, next[t]>>)) \in Nat
            /\ Len(log) <= Len(Append(log, <<t, next[t]>>))
        BY <1>0, <3>4
      <4> QED  BY <3>2, <3>4, <4>1, Zenon
    <3> QED  BY <1>0, <2>1, <3>3 DEF RunStatement
  <2>2. CASE Rollback(t)
    BY <1>0, <2>2, UndoDurable, DurableSeq DEF Rollback
  <2>3. CASE log' = log /\ begun' \in {begun, None, Len(log)}
    BY <1>0, <2>3
  <2> QED
    BY <2>1, <2>2, <2>3 DEF RequestTxn, Advance, Drain, Begin, Commit, engineVars
<1> QED  BY <1>0, <1>1, <1>2, <1>3, <1>4
\* No step takes a transaction or a call out of its end.
LEMMA OverStays ==
    ASSUME StoreInv, NEW x \in Txns \cup Calls, stage[x] \in Over,
           \/ \E t \in Txns : RequestTxn(t) \/ Advance(t)
           \/ \E c \in Calls : RequestCall(c) \/ Serve(c)
    PROVE  stage'[x] = stage[x]
<1> USE DEF Over
<1>1. ASSUME NEW t \in Txns, RequestTxn(t) \/ Advance(t) PROVE stage'[x] = stage[x]
  BY <1>1 DEF RequestTxn, Advance, Drain, Begin, RunStatement, Commit, Rollback, Ends, Moves,
              StoreInv, FunctionsOK
<1>2. ASSUME NEW c \in Calls, RequestCall(c) \/ Retry(c) PROVE stage'[x] = stage[x]
  <2>1. stage[c] \in {"idle", "gated"} /\ (Moves(c, "gated") \/ Moves(c, "running"))
    BY <1>2, SubmitsOutside
  <2> QED  BY <2>1 DEF Moves, StoreInv, FunctionsOK
<1>3. ASSUME NEW c \in Calls, Execute(c) PROVE stage'[x] = stage[x]
  BY <1>3 DEF Execute, Moves, StoreInv, FunctionsOK
<1> QED  BY <1>1, <1>2, <1>3 DEF Serve

LEMMA CallStepsFlight ==
    ASSUME StoreInv, NEW c \in Calls, RequestCall(c) \/ Serve(c)
    PROVE  FlightOK'
<1>0. /\ FlightOK /\ FunctionsOK /\ QueueOK /\ SqliteTypeOK /\ RestOK /\ Txns \cap Calls = {}
      /\ pending \in Nat
  BY TypeParts, GateType DEF StoreInv
<1>1. /\ \A t \in Txns : stage'[t] = stage[t]
      /\ \A d \in Calls \ {c} : stage'[d] = stage[d]
      /\ drains' = drains /\ begun' = begun
      /\ stage[c] # "running" /\ Owner[c] # None => stage[Owner[c]] \in Over
      /\ stage[c] \notin Over
      /\ \/ stage'[c] = "gated" /\ stage[c] # "running" /\ inFlight' = inFlight
         \/ stage'[c] = "running" /\ pending = 0 /\ inFlight' = inFlight \cup {c}
         \/ stage'[c] \in Over /\ stage[c] = "running" /\ inFlight' = inFlight \ {c}
  <2>1. CASE RequestCall(c) \/ Retry(c)
    <3>1. \/ pending > 0 /\ Moves(c, "gated") /\ inFlight' = inFlight
          \/ pending = 0 /\ Moves(c, "running") /\ inFlight' = inFlight \cup {c}
      BY <2>1, SubmitsOutside
    <3>2. /\ stage[c] \in {"idle", "gated"} /\ drains' = drains /\ begun' = begun
          /\ Owner[c] # None => stage[Owner[c]] \in Over
      BY <2>1, SubmitsOutside DEF txnVars, engineVars
    <3> QED  BY <1>0, <3>1, <3>2 DEF Moves, FunctionsOK, Over
  <2>2. CASE Execute(c)
    BY <1>0, <2>2 DEF Execute, Moves, FunctionsOK, txnVars, Over
  <2> QED  BY <2>1, <2>2 DEF Serve
<1>2. ASSUME NEW d \in Calls
      PROVE  /\ stage'[d] = "running" <=> d \in inFlight'
             /\ stage'[d] # "idle" /\ Owner[d] # None => stage'[Owner[d]] \in Over
  BY <1>0, <1>1 DEF FlightOK, Over
<1>3. \A t \in Txns : Active(t) => inFlight' \subseteq inFlight
  BY <1>0, <1>1, TurnPending
<1>4. ASSUME NEW t \in Txns
      PROVE  /\ stage'[t] = "draining" => inFlight' \subseteq drains'[t]
             /\ Owns(t)' => inFlight' = {}
  BY <1>0, <1>1, <1>3 DEF FlightOK, Active, Owns, Over
<1>5. begun' # None <=> \E t \in Txns : Owns(t)'
  BY <1>0, <1>1 DEF FlightOK, Owns
<1> QED  BY <1>2, <1>4, <1>5 DEF FlightOK

LEMMA TxnStepsFlight ==
    ASSUME StoreInv, NEW t \in Txns, RequestTxn(t) \/ Advance(t)
    PROVE  FlightOK'
<1>0. /\ FlightOK /\ FunctionsOK /\ QueueOK /\ SqliteTypeOK /\ RestOK /\ Txns \cap Calls = {}
      /\ None \notin Nat /\ Len(log) \in Nat
  BY TypeParts, LenProperties DEF StoreInv, RestOK
<1>1. /\ \A x \in Txns \cup Calls : x # t => stage'[x] = stage[x]
      /\ inFlight' = inFlight
      /\ \A u \in Txns \ {t} : drains'[u] = drains[u]
  BY <1>0 DEF RequestTxn, Advance, Drain, Begin, RunStatement, Commit, Rollback, Ends, Moves,
              FunctionsOK, RestOK, txnVars
<1>2. ASSUME NEW d \in Calls
      PROVE  /\ stage'[d] = "running" <=> d \in inFlight'
             /\ stage'[d] # "idle" /\ Owner[d] # None => stage'[Owner[d]] \in Over
  <2>1. stage'[d] = stage[d]
    BY <1>0, <1>1
  <2>2. Owner[d] # None => Owner[d] \in Txns
    OBVIOUS
  <2> QED  BY <1>0, <1>1, <2>1, <2>2, OverStays DEF FlightOK
<1>3. /\ stage'[t] = "draining" => inFlight' \subseteq drains'[t]
      /\ Owns(t)' => inFlight' = {}
  BY <1>0 DEF FlightOK, Owns, RequestTxn, Advance, Drain, Begin, Drained, RunStatement, Commit,
              Rollback, Ends, Moves, FunctionsOK, RestOK, Over
<1>4. begun' # None <=> \E u \in Txns : Owns(u)'
  <2>1. CASE UNCHANGED begun /\ (Owns(t) <=> Owns(t)')
    BY <1>0, <1>1, <2>1 DEF FlightOK, Owns
  <2>2. CASE Begin(t) /\ ~UNCHANGED begun
    <3>1. begun' = Len(log) /\ Owns(t)'
      BY <1>0, <2>2 DEF Begin, Moves, Owns, FunctionsOK
    <3> QED  BY <1>0, <3>1
  <2>3. CASE (Commit(t) \/ Rollback(t)) /\ ~Owns(t)'
    <3>1. begun' = None /\ stage[t] \in {"body", "rollback"}
      BY <1>0, <2>3 DEF Commit, Rollback, Moves, Owns, Undo, FunctionsOK
    <3>2. \A u \in Txns \ {t} : ~Owns(u)
      BY <1>0, <3>1, OwnerIsTheOne
    <3> QED  BY <1>1, <2>3, <3>1, <3>2 DEF Owns
  <2>4. CASE RequestTxn(t) \/ Drain(t) \/ RunStatement(t)
    BY <1>0, <2>1, <2>4 DEF RequestTxn, Drain, RunStatement, Moves, Owns, FunctionsOK, engineVars
  <2>5. CASE Begin(t) /\ UNCHANGED begun
    <3>1. stage'[t] = "failed" \/ (begun = None /\ begun' = Len(log))
      BY <1>0, <2>5 DEF Begin, Ends, Moves, FunctionsOK
    <3> QED  BY <1>0, <2>1, <2>5, <3>1 DEF Begin, Owns
  <2>6. CASE Commit(t) /\ Owns(t)'
    BY <1>0, <2>1, <2>6 DEF Commit, Ends, Moves, Owns, FunctionsOK
  <2>7. Rollback(t) => ~Owns(t)'
    BY <1>0 DEF Rollback, Ends, Moves, Owns, FunctionsOK
  <2> QED  BY <2>2, <2>3, <2>4, <2>5, <2>6, <2>7 DEF Advance
<1> QED  BY <1>1, <1>2, <1>3, <1>4, <1>0 DEF FlightOK, Owns
-----------------------------------------------------------------------------
(* What is on disk *)

\* The transaction t becomes durable with the log it wrote.
Lands(t) ==
    /\ stage[t] = "body" /\ stage'[t] = "committed"
    /\ begun # None /\ next[t] > Size[t]
    /\ log' = log /\ Durable' = log

\* What a step does to what is on disk.
DiskMove ==
    /\ \/ Durable' = Durable
       \/ \E c \in Calls : Durable' = Append(Durable, <<c, 1>>)
       \/ \E t \in Txns : Lands(t)
    /\ \A t \in Txns : stage'[t] = "committed" => stage[t] = "committed" \/ Lands(t)

LEMMA OwnedLog ==
    ASSUME StoreInv, NEW t \in Txns, Owns(t)
    PROVE  /\ begun \in 0 .. Len(log) /\ begun # None
           /\ inFlight = {}
           /\ \A u \in Txns : Owns(u) => u = t
<1>1. begun # None /\ inFlight = {}
  BY DEF StoreInv, FlightOK
<1>2. begun \in 0 .. Len(log)
  BY <1>1 DEF StoreInv, SqliteTypeOK
<1>3. \A u \in Txns : Owns(u) => u = t
  BY OwnerIsTheOne DEF StoreInv, Owns
<1> QED  BY <1>1, <1>2, <1>3

LEMMA CallStepsDisk ==
    ASSUME StoreInv, NEW c \in Calls, RequestCall(c) \/ Serve(c)
    PROVE  /\ DiskMove
           /\ \A t \in Txns : stage'[t] = stage[t] /\ next'[t] = next[t]
           /\ UNCHANGED begun
           /\ (\E t \in Txns : Owns(t)) => UNCHANGED log
<1>0. FunctionsOK /\ FlightOK
  BY DEF StoreInv
<1>1. \A t \in Txns : stage'[t] = stage[t] /\ next'[t] = next[t]
  BY <1>0 DEF FunctionsOK, RequestCall, Serve, Retry, Execute, Submits, Moves, txnVars
<1>2. UNCHANGED begun
  BY DEF RequestCall, Serve, Retry, Execute, engineVars
<1>3. CASE log' = log
  BY <1>1, <1>2, <1>3 DEF DiskMove, Durable
<1>4. CASE log' = Append(log, <<c, 1>>) /\ Execute(c)
  <2>1. \A t \in Txns : ~Owns(t)
    BY <1>0, <1>4 DEF Execute, FlightOK
  <2>2. begun = None
    BY <1>0, <2>1 DEF FlightOK
  <2> QED  BY <1>1, <1>2, <1>4, <2>1, <2>2 DEF DiskMove, Durable
<1> QED  BY <1>1, <1>2, <1>3, <1>4 DEF RequestCall, Serve, Retry, Execute, engineVars

LEMMA TxnStepsDisk ==
    ASSUME StoreInv, NEW t \in Txns, RequestTxn(t) \/ Advance(t)
    PROVE  DiskMove
<1>0. /\ FunctionsOK /\ FlightOK /\ RestOK /\ None \notin Nat /\ Len(log) \in Nat
  BY TypeParts, LenProperties DEF StoreInv, RestOK
<1>1. \A u \in Txns : stage'[u] = "committed" =>
        \/ stage[u] = "committed"
        \/ u = t /\ Commit(t) /\ stage[t] = "body" /\ next[t] > Size[t] /\ begun' = None
           /\ stage'[t] = "committed"
  BY <1>0 DEF RequestTxn, Advance, Drain, Begin, RunStatement, Commit, Rollback, Ends, Moves,
              FunctionsOK
<1>2. CASE Commit(t) /\ begun' = None /\ stage'[t] = "committed"
  <2>1. begun # None /\ log' = log /\ stage[t] = "body" /\ next[t] > Size[t]
    BY <1>2, OwnedLog DEF Commit, Owns
  <2>2. Lands(t)
    BY <1>2, <2>1 DEF Lands, Durable
  <2> QED  BY <1>1, <2>2 DEF DiskMove
<1>3. CASE ~(Commit(t) /\ begun' = None /\ stage'[t] = "committed")
  <2>1. \A u \in Txns : stage'[u] = "committed" => stage[u] = "committed"
    BY <1>1, <1>3
  <2>2. CASE UNCHANGED <<log, begun>>
    BY <2>1, <2>2 DEF DiskMove, Durable
  <2>3. CASE Begin(t) /\ begun = None /\ begun' = Len(log)
    <3>1. log' = log /\ SubSeq(log, 1, Len(log)) = log
      BY <1>0, <2>3, SubSeqFull DEF Begin, RestOK
    <3>2. Durable = log /\ Durable' = log
      BY <2>3, <3>1 DEF Durable
    <3> QED  BY <2>1, <3>2 DEF DiskMove
  <2>4. CASE RunStatement(t)
    <3>1. begun \in 0 .. Len(log) /\ begun # None /\ begun' = begun
      BY <2>4, OwnedLog DEF RunStatement, Owns
    <3>2. <<t, next[t]>> \in Entry
      BY <1>0 DEF Entry, FunctionsOK
    <3>3. SubSeq(Append(log, <<t, next[t]>>), 1, begun) = SubSeq(log, 1, begun)
      BY <1>0, <3>1, <3>2, Prefix DEF RestOK
    <3>4. log' = log \/ log' = Append(log, <<t, next[t]>>)
      BY <2>4 DEF RunStatement
    <3> QED  BY <2>1, <3>1, <3>3, <3>4 DEF DiskMove, Durable
  <2>5. CASE Rollback(t)
    BY <1>0, <2>1, <2>5, UndoDurable DEF Rollback, DiskMove
  <2>6. CASE Commit(t)
    BY <1>0, <1>3, <2>2, <2>6 DEF Commit, Ends, Moves, FunctionsOK
  <2> QED
    BY <2>2, <2>3, <2>4, <2>5, <2>6 DEF RequestTxn, Advance, Drain, Begin, engineVars
<1> QED  BY <1>2, <1>3

\* Where the statements of the transaction that lands are in the log.
LEMMA Landing ==
    ASSUME StoreInv, NEW t \in Txns, Lands(t)
    PROVE  /\ begun \in 0 .. Len(log) /\ Len(log) \in Nat /\ log \in Seq(Entry)
           /\ Len(Durable) = begun /\ \A i \in 1 .. begun : Durable[i] = log[i]
           /\ BodyOK(t) /\ next[t] = Size[t] + 1 /\ Size[t] \in Nat
<1>1. Owns(t) /\ RestOK
  BY TypeParts DEF Lands, Owns, StoreInv
<1>2. begun \in 0 .. Len(log) /\ BodyOK(t)
  BY <1>1, OwnedLog DEF StoreInv, LogOK
<1>3. log \in Seq(Entry) /\ Len(log) \in Nat
  BY <1>1, LenProperties DEF RestOK
<1>4. \A i \in 1 .. begun : log[i] \in Entry
  BY <1>2, <1>3, ElementOfSeq
<1>5. Durable = SubSeq(log, 1, begun)
  BY DEF Lands, Durable
<1>6. Len(Durable) = begun /\ \A i \in 1 .. begun : Durable[i] = log[i]
  BY <1>2, <1>4, <1>5, SubSeqProperties
<1>7. next[t] = Size[t] + 1 /\ Size[t] \in Nat
  BY <1>1 DEF RestOK, Lands
<1> QED  BY <1>2, <1>3, <1>6, <1>7

\* What is on disk stays there, in its place.
LEMMA DiskGrows ==
    ASSUME StoreInv, DiskMove
    PROVE  /\ Len(Durable) \in Nat /\ Len(Durable') \in Nat /\ Len(Durable) <= Len(Durable')
           /\ \A i \in 1 .. Len(Durable) : Durable'[i] = Durable[i]
<1>1. Durable \in Seq(Entry) /\ Len(Durable) \in Nat
  BY DurableSeq, TypeParts, LenProperties DEF StoreInv
<1>2. CASE Durable' = Durable
  BY <1>1, <1>2
<1>3. ASSUME NEW c \in Calls, Durable' = Append(Durable, <<c, 1>>)
      PROVE  /\ Len(Durable') \in Nat /\ Len(Durable) <= Len(Durable')
             /\ \A i \in 1 .. Len(Durable) : Durable'[i] = Durable[i]
  <2>1. <<c, 1>> \in Entry
    BY DEF Entry
  <2>2. /\ Len(Append(Durable, <<c, 1>>)) = Len(Durable) + 1
        /\ \A i \in 1 .. Len(Durable) : Append(Durable, <<c, 1>>)[i] = Durable[i]
    BY <1>1, <2>1, AppendProperties
  <2>3. Len(Durable) + 1 \in Nat /\ Len(Durable) <= Len(Durable) + 1
    BY <1>1
  <2> QED  BY <1>3, <2>2, <2>3, Zenon
<1>4. ASSUME NEW t \in Txns, Lands(t)
      PROVE  /\ Len(Durable') \in Nat /\ Len(Durable) <= Len(Durable')
             /\ \A i \in 1 .. Len(Durable) : Durable'[i] = Durable[i]
  <2>1. Durable' = log
    BY <1>4 DEF Lands
  <2> QED  BY <1>4, <2>1, Landing
<1> QED  BY <1>1, <1>2, <1>3, <1>4 DEF DiskMove
\* The conjuncts of LogOK about what is on disk.
DiskOK ==
    /\ \A i \in DOMAIN Durable : \A t \in Txns :
          Durable[i][1] = t => stage[t] = "committed"
    /\ \A t \in Txns \ Tolerant : stage[t] = "committed" =>
          \A i \in 1 .. Size[t] : \E j \in DOMAIN Durable : Durable[j] = <<t, i>>

LEMMA DiskStep ==
    ASSUME StoreInv, DiskMove, RestOK',
           \A t \in Txns : stage[t] = "committed" => stage'[t] = "committed"
    PROVE  DiskOK'
<1>0. DiskOK /\ Txns \cap Calls = {}
  BY DEF StoreInv, LogOK, DiskOK
<1>1. /\ DOMAIN Durable = 1 .. Len(Durable) /\ DOMAIN Durable' = 1 .. Len(Durable')
      /\ Durable \in Seq(Entry)
  <2>1. Durable \in Seq(Entry)
    BY DurableSeq, TypeParts DEF StoreInv
  <2>2. Durable' \in Seq(Entry)
    BY DurableSeq DEF RestOK, Durable
  <2> QED  BY <2>1, <2>2, LenProperties
<1>2. ASSUME NEW i \in 1 .. Len(Durable'), NEW t \in Txns, Durable'[i][1] = t
      PROVE  stage'[t] = "committed"
  <2>1. CASE Durable' = Durable
    BY <1>0, <1>1, <1>2, <2>1 DEF DiskOK
  <2>2. ASSUME NEW c \in Calls, Durable' = Append(Durable, <<c, 1>>) PROVE stage'[t] = "committed"
    <3>1. <<c, 1>> \in Entry
      BY DEF Entry
    <3>2. /\ Len(Append(Durable, <<c, 1>>)) = Len(Durable) + 1 /\ Len(Durable) \in Nat
          /\ Append(Durable, <<c, 1>>)[Len(Durable) + 1] = <<c, 1>>
      BY <1>1, <3>1, AppendProperties, LenProperties
    <3>3. i \in 1 .. Len(Durable) \/ Durable'[i] = <<c, 1>>
      <4>1. Len(Durable') = Len(Durable) + 1 /\ Durable'[Len(Durable) + 1] = <<c, 1>>
        BY <2>2, <3>2, Zenon
      <4> QED  BY <3>2, <4>1
    <3>4. i \in 1 .. Len(Durable)
      BY <1>0, <1>2, <3>3
    <3> QED  BY <1>0, <1>1, <1>2, <3>4, DiskGrows DEF DiskOK
  <2>3. ASSUME NEW u \in Txns, Lands(u) PROVE stage'[t] = "committed"
    <3>1. Durable' = log /\ stage'[u] = "committed"
      BY <2>3 DEF Lands
    <3>2. CASE i <= begun
      <4>1. i \in 1 .. Len(Durable) /\ Durable[i] = log[i]
        BY <2>3, <3>2, Landing
      <4> QED  BY <1>0, <1>1, <1>2, <3>1, <4>1 DEF DiskOK
    <3>3. CASE i > begun
      <4>1. i \in begun + 1 .. Len(log)
        BY <2>3, <3>1, <3>3, Landing
      <4> QED  BY <1>2, <2>3, <3>1, <4>1, Landing DEF BodyOK
    <3> QED  BY <2>3, <3>2, <3>3, Landing
  <2> QED  BY <2>1, <2>2, <2>3 DEF DiskMove
<1>3. ASSUME NEW t \in Txns \ Tolerant, stage'[t] = "committed", NEW i \in 1 .. Size[t]
      PROVE  \E j \in 1 .. Len(Durable') : Durable'[j] = <<t, i>>
  <2>1. CASE stage[t] = "committed"
    <3>1. PICK j \in 1 .. Len(Durable) : Durable[j] = <<t, i>>
      BY <1>0, <1>1, <2>1 DEF DiskOK
    <3> QED  BY <3>1, DiskGrows
  <2>2. CASE Lands(t)
    <3>1. Len(log) - begun = Size[t] /\ begun + i \in begun + 1 .. Len(log)
          /\ \A k \in begun + 1 .. Len(log) : log[k] = <<t, k - begun>>
      BY <2>2, Landing DEF BodyOK, Lands
    <3>2. log[begun + i] = <<t, i>> /\ begun + i \in 1 .. Len(log)
      BY <2>2, <3>1, Landing
    <3> QED  BY <2>2, <3>2 DEF Lands
  <2> QED  BY <1>3, <2>1, <2>2 DEF DiskMove
<1> QED  BY <1>1, <1>2, <1>3 DEF DiskOK

\* A transaction that runs finds the log as it left it.
LEMMA BodyStays ==
    ASSUME NEW t \in Txns, BodyOK(t), UNCHANGED <<log, begun>>, next'[t] = next[t],
           stage'[t] = "body" => stage[t] = "body"
    PROVE  BodyOK(t)'
  BY DEF BodyOK

LEMMA CallStepsLog ==
    ASSUME StoreInv, NEW c \in Calls, RequestCall(c) \/ Serve(c)
    PROVE  LogOK'
<1>1. DiskOK'
  BY CallStepsDisk, DiskStep, CallStepsType
<1>2. \A t \in Txns : stage'[t] \in {"idle", "queued", "draining"} => next'[t] = 1
  BY CallStepsDisk DEF StoreInv, LogOK
<1>3. ASSUME NEW t \in Txns, Owns(t)' PROVE BodyOK(t)'
  <2>1. Owns(t)
    BY <1>3, CallStepsDisk DEF Owns
  <2> QED  BY <2>1, CallStepsDisk, BodyStays DEF StoreInv, LogOK
<1> QED  BY <1>1, <1>2, <1>3 DEF LogOK, DiskOK

\* One more statement of the transaction that runs.
LEMMA RunStep ==
    ASSUME StoreInv, NEW t \in Txns, RunStatement(t)
    PROVE  BodyOK(t)'
<1>0. /\ RestOK /\ FunctionsOK /\ BodyOK(t) /\ stage[t] = "body" /\ next[t] \in Nat
      /\ begun' = begun /\ next'[t] = next[t] + 1 /\ begun \in Nat /\ begun <= Len(log)
      /\ next[t] \in 1 .. Size[t]
  <2>1. RestOK /\ FunctionsOK /\ LogOK /\ stage[t] = "body" /\ next[t] <= Size[t]
    BY TypeParts DEF StoreInv, RunStatement
  <2>2. BodyOK(t)
    BY <2>1 DEF LogOK, Owns
  <2>3. next[t] \in Nat /\ next[t] \in 1 .. Size[t]
    BY <2>1 DEF FunctionsOK, RestOK
  <2>4. begun' = begun /\ next'[t] = next[t] + 1
    BY <2>1 DEF RunStatement, FunctionsOK
  <2> QED  BY <2>1, <2>2, <2>3, <2>4 DEF BodyOK
<1>1. CASE log' = log
  <2>1. t \in Tolerant \/ stage'[t] = "rollback"
    <3>1. <<t, next[t]>> \in Entry
      BY <1>0 DEF Entry
    <3>2. Append(log, <<t, next[t]>>) # log
      BY <1>0, <3>1, Appended
    <3> QED  BY <1>0, <1>1, <3>2 DEF RunStatement, Moves, FunctionsOK
  <2>2. Len(log) \in Nat /\ (\A i \in begun + 1 .. Len(log) : log[i] \in Entry)
    BY <1>0, LenProperties, ElementOfSeq DEF RestOK
  <2>3. \A i \in begun + 1 .. Len(log) : log[i][2] \in Nat
    BY <2>2 DEF Entry
  <2>4. Len(log') - begun' < next'[t] /\ (stage'[t] = "body" => t \in Tolerant)
    BY <1>0, <1>1, <2>1, <2>2 DEF BodyOK
  <2>5. \A i \in begun + 1 .. Len(log) : log[i][2] < next[t] => log[i][2] < next'[t]
    BY <1>0, <2>3
  <2> QED  BY <1>0, <1>1, <2>4, <2>5 DEF BodyOK
<1>2. CASE log' = Append(log, <<t, next[t]>>)
  <2>1. <<t, next[t]>> \in Entry
    BY <1>0 DEF Entry
  <2>2. /\ Len(log) \in Nat /\ Len(Append(log, <<t, next[t]>>)) = Len(log) + 1
        /\ \A i \in 1 .. Len(log) : Append(log, <<t, next[t]>>)[i] = log[i]
        /\ Append(log, <<t, next[t]>>)[Len(log) + 1] = <<t, next[t]>>
    BY <1>0, <2>1, Appended
  <2>3. /\ Len(log') = Len(log) + 1
        /\ \A i \in 1 .. Len(log) : log'[i] = log[i]
        /\ log'[Len(log) + 1] = <<t, next[t]>>
    BY <1>2, <2>2, Zenon
  <2>4. ASSUME NEW i \in begun + 1 .. Len(log)
        PROVE  /\ log'[i] = log[i] /\ log[i][1] = t /\ log[i][2] \in Nat
               /\ log[i][2] > 0 /\ log[i][2] < next[t]
    <3>1. i \in 1 .. Len(log)
      BY <1>0, <2>2
    <3>2. log[i] \in Entry
      BY <1>0, <3>1, ElementOfSeq DEF RestOK
    <3>3. log[i][2] \in Nat
      BY <3>2 DEF Entry
    <3> QED  BY <1>0, <2>3, <3>1, <3>3 DEF BodyOK
  <2>5. ASSUME NEW i \in begun + 1 .. Len(log') PROVE i \in begun + 1 .. Len(log) \/ i = Len(log) + 1
    BY <1>0, <2>2, <2>3
  <2>6. /\ Len(log') - begun < next'[t] /\ begun <= Len(log')
        /\ \A i \in begun + 1 .. Len(log') :
              log'[i][1] = t /\ log'[i][2] < next'[t] /\ log'[i][2] > 0
    <3>1. Len(log') - begun < next'[t] /\ begun <= Len(log')
      BY <1>0, <2>2, <2>3 DEF BodyOK
    <3>2. ASSUME NEW i \in begun + 1 .. Len(log')
          PROVE  log'[i][1] = t /\ log'[i][2] < next'[t] /\ log'[i][2] > 0
      <4>1. CASE i \in begun + 1 .. Len(log)
        BY <1>0, <2>4, <4>1
      <4>2. CASE i = Len(log) + 1
        BY <1>0, <2>3, <4>2
      <4> QED  BY <2>5, <4>1, <4>2
    <3> QED  BY <3>1, <3>2
  <2>7. ASSUME NEW i \in begun + 1 .. Len(log'), NEW j \in begun + 1 .. Len(log'), i < j
        PROVE  log'[i][2] < log'[j][2]
    <3>1. i \in begun + 1 .. Len(log)
      BY <1>0, <2>2, <2>3, <2>7
    <3>2. CASE j \in begun + 1 .. Len(log)
      BY <1>0, <2>4, <2>7, <3>1, <3>2 DEF BodyOK
    <3>3. CASE j = Len(log) + 1
      BY <2>3, <2>4, <3>1, <3>3
    <3> QED  BY <2>5, <3>2, <3>3
  <2>8. t \notin Tolerant /\ stage'[t] = "body" =>
          /\ Len(log') - begun' = next'[t] - 1
          /\ \A i \in begun + 1 .. Len(log') : log'[i] = <<t, i - begun>>
    <3> SUFFICES ASSUME t \notin Tolerant
                 PROVE  /\ Len(log') - begun = next'[t] - 1
                        /\ \A i \in begun + 1 .. Len(log') : log'[i] = <<t, i - begun>>
      BY <1>0
    <3>1. Len(log) - begun = next[t] - 1
          /\ \A i \in begun + 1 .. Len(log) : log[i] = <<t, i - begun>>
      BY <1>0 DEF BodyOK
    <3>2. Len(log) + 1 - begun = next[t]
      BY <1>0, <2>2, <3>1
    <3>3. Len(log') - begun = next'[t] - 1
      BY <1>0, <2>2, <2>3, <3>2
    <3>4. ASSUME NEW i \in begun + 1 .. Len(log') PROVE log'[i] = <<t, i - begun>>
      <4>1. CASE i \in begun + 1 .. Len(log)
        BY <2>4, <3>1, <4>1
      <4>2. CASE i = Len(log) + 1
        <5>1. i - begun = next[t]
          BY <1>0, <2>2, <3>2, <4>2
        <5>2. log'[i] = <<t, next[t]>>
          BY <2>3, <4>2
        <5> QED  BY <5>1, <5>2
      <4> QED  BY <2>5, <4>1, <4>2
    <3> QED  BY <3>3, <3>4
  <2> QED  BY <1>0, <2>6, <2>7, <2>8 DEF BodyOK
<1> QED  BY <1>1, <1>2 DEF RunStatement

LEMMA TxnStepsLog ==
    ASSUME StoreInv, NEW t \in Txns, RequestTxn(t) \/ Advance(t)
    PROVE  LogOK'
<1>0. FunctionsOK /\ RestOK /\ LogOK /\ Len(log) \in Nat
  BY TypeParts, LenProperties DEF StoreInv, RestOK
<1>1. DiskOK'
  <2>1. \A u \in Txns : stage[u] = "committed" => stage'[u] = "committed"
    BY OverStays DEF Over
  <2> QED  BY <2>1, TxnStepsDisk, DiskStep, TxnStepsType
<1>2. ASSUME NEW u \in Txns, stage'[u] \in {"idle", "queued", "draining"} PROVE next'[u] = 1
  <2>1. stage[u] \in {"idle", "queued", "draining"} /\ next'[u] = next[u]
    BY <1>0, <1>2 DEF RequestTxn, Advance, Drain, Begin, RunStatement, Commit, Rollback, Ends,
                      Moves, FunctionsOK, txnVars, Over
  <2> QED  BY <1>0, <2>1 DEF LogOK
<1>3. ASSUME NEW u \in Txns, Owns(u)' PROVE BodyOK(u)'
  <2>1. CASE RunStatement(t)
    <3>1. u = t
      BY <1>0, <1>3, <2>1, OwnedLog DEF RunStatement, Moves, FunctionsOK, Owns
    <3> QED  BY <2>1, <3>1, RunStep
  <2>2. CASE Begin(t) /\ u = t
    <3>1. begun' = Len(log) /\ log' = log /\ next'[t] = 1 /\ next[t] = 1
      BY <1>0, <1>3, <2>2 DEF Begin, Ends, Moves, FunctionsOK, Owns, LogOK, Over
    <3> QED  BY <1>0, <2>2, <3>1 DEF BodyOK
  <2>3. CASE Begin(t) /\ u # t
    <3>1. Owns(u)
      BY <1>0, <1>3, <2>3 DEF Begin, Ends, Moves, FunctionsOK, Owns
    <3>2. stage[t] = "draining"
      BY <2>3 DEF Begin
    <3> QED  BY <2>3, <3>1, <3>2, OwnerIsTheOne DEF StoreInv
  <2>4. CASE Commit(t)
    <3>1. Owns(u) /\ Owns(t) /\ (stage'[u] = "body" => stage[u] = "body")
      BY <1>0, <1>3, <2>4 DEF Commit, Ends, Moves, FunctionsOK, Owns
    <3>2. u = t
      BY <3>1, OwnedLog
    <3>3. UNCHANGED <<log, begun>> /\ next'[u] = next[u]
      BY <1>0, <1>3, <2>4, <3>2 DEF Commit, Ends, Moves, FunctionsOK, Owns, txnVars
    <3> QED  BY <1>0, <3>1, <3>3, BodyStays DEF LogOK
  <2>5. ~Rollback(t)
    <3>1. ASSUME Rollback(t) PROVE Owns(u) /\ Owns(t) /\ u # t
      BY <1>0, <1>3, <3>1 DEF Rollback, Ends, Moves, FunctionsOK, Owns
    <3> QED  BY <3>1, OwnedLog
  <2>6. CASE RequestTxn(t) \/ Drain(t)
    <3>1. /\ Owns(u) /\ (stage'[u] = "body" => stage[u] = "body")
          /\ UNCHANGED <<log, begun>> /\ next'[u] = next[u]
      BY <1>0, <1>3, <2>6 DEF RequestTxn, Drain, Moves, FunctionsOK, Owns, engineVars, txnVars
    <3> QED  BY <1>0, <3>1, BodyStays DEF LogOK
  <2> QED  BY <2>1, <2>2, <2>3, <2>4, <2>5, <2>6 DEF Advance
<1> QED  BY <1>1, <1>2, <1>3 DEF LogOK, DiskOK
-----------------------------------------------------------------------------
(* A step of the connection, and what it is to SerialStore *)

ConnectionStep ==
    \/ \E t \in Txns : RequestTxn(t) \/ Advance(t)
    \/ \E c \in Calls : RequestCall(c) \/ Serve(c)

LEMMA QueueStep ==
    ASSUME StoreInv, ConnectionStep
    PROVE  GateOK' /\ QueueOK' /\ FunctionsOK'
<1>0. GateOK /\ FunctionsOK /\ QueueOK /\ SqliteTypeOK
  BY GateType DEF StoreInv
<1>1. FunctionsOK'
  <2>1. stage' \in [Txns \cup Calls -> TxnStage \cup CallStage]
    BY <1>0, JoiningStep, BeginSteps, StayingSteps DEF ConnectionStep, Advance
  <2>2. next' \in [Txns -> Nat]
    BY <1>0 DEF FunctionsOK, ConnectionStep, RequestTxn, Advance, Drain, Begin, RunStatement,
                Commit, Rollback, RequestCall, Serve, Retry, Execute, txnVars
  <2> QED  BY <2>1, <2>2 DEF FunctionsOK
<1>2. (\E t \in Txns : RequestTxn(t)) \/ previous' \in [Txns -> Txns \cup {None}]
  BY <1>0 DEF GateOK, ConnectionStep, Advance, Drain, Begin, RunStatement, Commit, Rollback,
              Ends, RequestCall, Serve, Retry, Execute, gateVars
<1>3. GateOK' /\ QueueOK'
  BY <1>0, <1>2, JoiningStep, BeginSteps, StayingSteps, JoinKeepsQueue, LeaveKeepsQueue,
     StayKeepsQueue DEF ConnectionStep, Advance
<1> QED  BY <1>1, <1>3

\* The invariant of the connection survives every step of it ...
LEMMA ConnectionKeeps ==
    ASSUME StoreInv, ConnectionStep
    PROVE  StoreInv' /\ DiskMove
<1>1. GateOK' /\ QueueOK' /\ FunctionsOK'
  BY QueueStep
<1>2. RestOK' /\ FlightOK' /\ LogOK' /\ DiskMove
  BY CallStepsType, TxnStepsType, CallStepsFlight, TxnStepsFlight, CallStepsLog, TxnStepsLog,
     CallStepsDisk, TxnStepsDisk DEF ConnectionStep
<1>3. SqliteTypeOK'
  BY <1>1, <1>2 DEF SqliteTypeOK, GateOK, RestOK, ActiveTxns, Active
<1> QED  BY <1>1, <1>2, <1>3 DEF StoreInv

\* ... and the end of the process, which leaves what is on disk.
LEMMA CrashKeeps ==
    ASSUME StoreInv, CrashStore
    PROVE  StoreInv' /\ Durable' = Durable
<1> USE DEF CrashStore
<1>0. GateOK /\ RestOK /\ FunctionsOK /\ QueueOK /\ FlightOK /\ LogOK /\ pending \in Nat
  BY TypeParts, GateType DEF StoreInv
<1>1. log' = Durable /\ Durable' = Durable /\ begun' = None /\ Durable \in Seq(Entry)
  BY <1>0, UndoDurable, DurableSeq
<1>2. /\ \A x \in Txns \cup Calls :
            /\ stage[x] \in {"idle"} \cup Over => stage'[x] = stage[x]
            /\ stage[x] \notin {"idle"} \cup Over => stage'[x] = "failed"
      /\ stage' \in [Txns \cup Calls -> TxnStage \cup CallStage]
  BY <1>0 DEF FunctionsOK, TxnStage, CallStage
<1>3. ActiveTxns' = {} /\ Asked' = Asked
  BY <1>2 DEF ActiveTxns, Active, Asked, Over
<1>4. GateOK'
  <2>1. pending' = Cardinality(ActiveTxns')
    BY <1>3, FS_EmptySet
  <2> QED  BY <1>0, <2>1 DEF GateOK
<1>5. RestOK'
  BY <1>0, <1>1, <1>2 DEF RestOK, TxnStage, CallStage, Over
<1>6. QueueOK'
  <2>1. PICK q : q = [i \in 1 .. 0 |-> i]
    OBVIOUS
  <2>2. 1 .. 0 = {}
    OBVIOUS
  <2>3. q \in [1 .. pending' -> Txns]
    BY <2>1, <2>2
  <2>4. Queue(q)'
    BY <1>2, <2>2 DEF Queue, Active, Over
  <2>5. gates' <= Cardinality(Asked')
    BY <1>0, <1>3 DEF QueueOK
  <2>6. ~(pending' > 0)
    OBVIOUS
  <2> QED  BY <2>3, <2>4, <2>5, <2>6, Zenon DEF QueueOK
<1>7. FlightOK'
  BY <1>0, <1>1, <1>2 DEF FlightOK, Owns, Over, FunctionsOK
<1>8. LogOK'
  <2>1. ASSUME NEW t \in Txns
        PROVE  /\ stage'[t] \in {"idle", "queued", "draining"} => next'[t] = 1
               /\ ~Owns(t)'
               /\ stage'[t] = "committed" <=> stage[t] = "committed"
    BY <1>0, <1>2 DEF LogOK, Owns, Over
  <2> QED  BY <1>0, <1>1, <2>1 DEF LogOK
<1>9. SqliteTypeOK'
  BY <1>4, <1>5 DEF SqliteTypeOK, GateOK, RestOK, ActiveTxns, Active
<1> QED  BY <1>0, <1>1, <1>2, <1>6, <1>7, <1>8, <1>9 DEF StoreInv, FunctionsOK

LEMMA InitSerial == SqliteInit => Serial!Init
  BY DEF SqliteInit, Serial!Init, Durable

\* A function on 1 .. n is a sequence of that length.
LEMMA NumberedIsSequence ==
    ASSUME NEW S, NEW n \in Nat, NEW f \in [1 .. n -> S]
    PROVE  f \in Seq(S) /\ Len(f) = n
<1>1. f \in Seq(S)
  BY SeqDef
<1>2. /\ DOMAIN f = 1 .. n /\ DOMAIN f = 1 .. Len(f) /\ Len(f) \in Nat
  BY <1>1, LenProperties
<1> QED  BY <1>1, <1>2

\* Every step of the connection adds one transaction with all of its statements,
\* one single statement, or nothing to what is on disk.
LEMMA SerialStep ==
    ASSUME StoreInv, DiskMove
    PROVE  Serial!Next \/ Durable' = Durable
<1>1. ASSUME NEW c \in Calls, Durable' = Append(Durable, <<c, 1>>) PROVE Serial!Next
  BY <1>1 DEF Serial!Next, Serial!Statement
<1>2. ASSUME NEW t \in Txns, Lands(t) PROVE Serial!Transaction(t)
  <2> DEFINE n == Len(log) - begun
             step == [i \in 1 .. n |-> log[begun + i][2]]
             rest == [i \in 1 .. n |-> <<t, step[i]>>]
  <2>0. /\ begun \in Nat /\ Len(log) \in Nat /\ begun <= Len(log) /\ log \in Seq(Entry)
        /\ Len(Durable) = begun /\ Durable \in Seq(Entry)
        /\ BodyOK(t) /\ next[t] = Size[t] + 1 /\ Size[t] \in Nat
    BY <1>2, Landing, DurableSeq, TypeParts DEF StoreInv
  <2>1. ASSUME NEW i \in 1 .. n
        PROVE  /\ begun + i \in begun + 1 .. Len(log) /\ begun + i \in 1 .. Len(log)
               /\ step[i] \in 1 .. Size[t]
               /\ log[begun + i] = <<t, step[i]>>
    <3>1. begun + i \in begun + 1 .. Len(log) /\ begun + i \in 1 .. Len(log)
      BY <2>0
    <3>2. log[begun + i] \in Entry
      BY <2>0, <3>1, ElementOfSeq
    <3>3. log[begun + i][1] = t /\ log[begun + i][2] < next[t] /\ log[begun + i][2] > 0
      BY <2>0, <3>1 DEF BodyOK
    <3>4. log[begun + i][2] \in 1 .. Size[t]
      BY <2>0, <3>2, <3>3 DEF Entry
    <3>5. log[begun + i] = <<t, log[begun + i][2]>>
      BY <3>2, <3>3 DEF Entry
    <3> QED  BY <3>1, <3>4, <3>5
  <2>2. /\ n \in 0 .. Size[t] /\ step \in [1 .. n -> 1 .. Size[t]]
        /\ t \notin Tolerant => n = Size[t]
    <3>1. n \in 0 .. Size[t]
      BY <2>0 DEF BodyOK
    <3>2. t \notin Tolerant => n = Size[t]
      BY <1>2, <2>0 DEF BodyOK, Lands
    <3> QED  BY <2>1, <3>1, <3>2
  <2>3. \A i, j \in 1 .. n : i < j => step[i] < step[j]
    BY <2>0, <2>1 DEF BodyOK
  <2>4. \A i \in DOMAIN Durable : Durable[i][1] # t
    BY <1>2 DEF StoreInv, LogOK, Lands
  <2>5. Durable' = Durable \o rest
    <3>1. rest \in Seq(Entry) /\ Len(rest) = n
      <4>1. n \in Nat
        BY <2>0
      <4>2. \A i \in 1 .. n : <<t, step[i]>> \in Entry
        BY <2>1 DEF Entry
      <4>3. rest \in [1 .. n -> Entry]
        BY <4>2
      <4> HIDE DEF rest, n
      <4> QED  BY <4>1, <4>3, NumberedIsSequence
    <3>6. \A i \in 1 .. n : rest[i] = <<t, step[i]>>
      OBVIOUS
    <3> HIDE DEF rest
    <3>2. /\ Durable \o rest \in Seq(Entry)
          /\ Len(Durable \o rest) = Len(Durable) + Len(rest)
          /\ \A i \in 1 .. Len(Durable) + Len(rest) : (Durable \o rest)[i] =
                IF i <= Len(Durable) THEN Durable[i] ELSE rest[i - Len(Durable)]
      BY <2>0, <3>1, ConcatProperties
    <3>3. ASSUME NEW i \in 1 .. Len(log) PROVE (Durable \o rest)[i] = log[i]
      <4>1. CASE i <= begun
        BY <1>2, <2>0, <3>1, <3>2, <4>1, Landing
      <4>2. CASE i > begun
        <5>1. /\ i - begun \in 1 .. n /\ begun + (i - begun) = i
              /\ i \in 1 .. Len(Durable) + Len(rest)
          BY <2>0, <3>1, <4>2
        <5>2. rest[i - begun] = log[i]
          BY <2>1, <3>6, <5>1
        <5>3. (Durable \o rest)[i] = rest[i - begun]
          BY <2>0, <3>2, <4>2, <5>1
        <5> QED  BY <5>2, <5>3
      <4>3. i <= begun \/ i > begun
        BY <2>0
      <4> QED  BY <4>1, <4>2, <4>3, Zenon
    <3>4. Len(Durable \o rest) = Len(log)
      BY <2>0, <3>1, <3>2
    <3>5. Durable \o rest = log
      BY <2>0, <3>2, <3>3, <3>4, SeqEqual
    <3> QED  BY <1>2, <3>5 DEF Lands
  <2> HIDE DEF n, step
  <2> QED  BY <2>2, <2>3, <2>4, <2>5 DEF Serial!Transaction
<1> QED  BY <1>1, <1>2 DEF DiskMove, Serial!Next
==============================================================================
