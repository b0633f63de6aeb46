----------------------- MODULE PlanAuthorization_proofs -----------------------
(***************************************************************************)
(* Proofs about PlanAuthorization, for any number of plans, approve calls  *)
(* and grants, any lifetimes and any capacities: the safety invariants the *)
(* run AuthApprovals checks and that a plan which is gone stays gone.      *)
(***************************************************************************)
EXTENDS PlanAuthorization, TLAPS

\* Where a call holds a plan, where it holds a grant of that plan, where its
\* approval is in the audit, and where it holds the record it will make ready.
Holding   == {"checking", "granting", "granted", "applying", "verifying",
              "verified", "approved"}
WithGrant == Holding \ {"checking", "granting"}
Audited   == WithGrant \ {"granted"}
Verifying == {"verifying", "verified"}

\* The grant g was given to the call c, for the plan p.
GivenTo(g, c, p) ==
    /\ g \in Grants
    /\ approvals[g] # None
    /\ approvals[g].by = c
    /\ approvals[g].plan = p

\* The grant g was given, and the call it was given to made a plan ready.
Used(g) ==
    /\ g \in Grants
    /\ approvals[g] # None
    /\ pc[approvals[g].by] = "approved"

CallOK ==
    \A c \in Calls :
        /\ pc[c] \in Holding => call[c] \in Held /\ call[c].plan \in minted
        /\ pc[c] \in WithGrant => GivenTo(call[c].grant, c, call[c].plan)
        /\ pc[c] \in Audited => [call |-> c, result |-> "approved"] \in audit
        /\ pc[c] \in Verifying => call[c].record \in Record

\* Every grant that reached a record, the desktop or an execution was applied by
\* the call it was given to, and a ready plan never outlives its grant.
GrantOK ==
    /\ \A p \in Plans : Stored(p) =>
          /\ records[p].grant # None => Used(records[p].grant)
          /\ records[p].request = "granted" /\ records[p].state = "ready" =>
                /\ records[p].grant # None
                /\ approvals[records[p].grant].expires <= records[p].expires
    /\ \A p \in Plans : handed[p] # None => Used(handed[p])
    /\ \A g \in Grants :
          approvals[g] # None /\ approvals[g].status = "consumed" => Used(g)

OneLiveGrant ==
    \A g, k \in Grants :
        /\ approvals[g] # None /\ approvals[g].status = "granted"
        /\ approvals[k] # None /\ approvals[k].status = "granted"
        /\ approvals[g].plan = approvals[k].plan
        => g = k

\* An approved plan is never pending again, and no other call is between the
\* two checks of applyApproval on it.
ApprovedOK ==
    \A c \in Calls : pc[c] = "approved" =>
        /\ ~Pending(call[c].plan)
        /\ \A d \in Calls : pc[d] \in Verifying => call[d].plan # call[c].plan

IInv ==
    /\ TypeOK
    /\ CallOK
    /\ GrantOK
    /\ RequestAgrees
    /\ OneLiveGrant
    /\ ApprovedOK
    /\ OneApprovalPerPlan
-----------------------------------------------------------------------------
(* Types *)

USE PlanAuthorizationAssumption, NoneIsNoValue

LEMMA InitIInv == Init => IInv
<1> SUFFICES ASSUME Init PROVE IInv
  OBVIOUS
<1>1. TypeOK
  BY DEF Init, TypeOK, PC
<1>2. CallOK /\ GrantOK /\ RequestAgrees
  BY DEF Init, CallOK, GrantOK, RequestAgrees, Holding, WithGrant, Audited, Verifying, Stored
<1>3. OneLiveGrant /\ ApprovedOK /\ OneApprovalPerPlan
  BY DEF Init, OneLiveGrant, ApprovedOK, OneApprovalPerPlan
<1> QED  BY <1>1, <1>2, <1>3 DEF IInv

\* The expiry a call asks for lies no later than the plan's.
LEMMA UntilInstant ==
    ASSUME NEW e \in Instant, NEW n \in Nat
    PROVE  Min({e, n}) \in Instant /\ Min({e, n}) <= e
<1> DEFINE m == IF e <= n THEN e ELSE n
<1>1. m \in {e, n} /\ \A y \in {e, n} : m <= y
  BY DEF Instant
<1>2. Min({e, n}) \in {e, n} /\ \A y \in {e, n} : Min({e, n}) <= y
  BY <1>1 DEF Min
<1> QED  BY <1>2 DEF Instant

\* The sweep changes nothing of a record but its state and its status.
LEMMA LapsedRecord ==
    ASSUME NEW r \in Record
    PROVE  /\ Lapsed(r) \in Record
           /\ Lapsed(r).grant = r.grant
           /\ Lapsed(r).expires = r.expires
           /\ Lapsed(r) = r \/ Lapsed(r).state = "blocked"
  BY DEF Lapsed, Record, PlanState, RequestStatus

LEMMA ClockInstant == TypeOK => clock \in Instant
<1> SUFFICES ASSUME TypeOK PROVE clock \in Instant
  OBVIOUS
<1>1. clock \in Nat /\ clock <= MaxClock /\ MaxClock \in Nat /\ PlanTTL \in Nat
  BY DEF TypeOK
<1> QED  BY <1>1 DEF Instant

LEMMA StoreType ==
    ASSUME TypeOK, NEW p \in Plans, StoreStep(p)
    PROVE  TypeOK'
<1> USE DEF TypeOK, storeVars, callVars
<1>1. CASE Authorize(p)
  <2>1. PICK e \in PlanExpiries, required \in BOOLEAN :
            records' = [records EXCEPT ![p] =
                [state   |-> IF required THEN "awaiting_approval" ELSE "ready",
                 request |-> IF required THEN "pending" ELSE None,
                 grant   |-> None, expires |-> e]]
    BY <1>1 DEF Authorize
  <2>2. e \in Instant
    BY DEF PlanExpiries, Instant
  <2>3. records' \in [Plans -> Record \cup {None}]
    BY <2>1, <2>2 DEF Record, PlanState, RequestStatus
  <2> QED  BY <1>1, <2>3 DEF Authorize
<1>2. CASE Deny(p)
  BY <1>2 DEF Deny, Pending, Stored, Block, Record, PlanState, RequestStatus
<1>3. CASE Revoke(p)
  BY <1>3 DEF Revoke, Stored, Block, Record, PlanState, RequestStatus
<1>4. CASE DiscardUncommitted(p)
  BY <1>4 DEF DiscardUncommitted
<1> QED  BY <1>1, <1>2, <1>3, <1>4 DEF StoreStep
\* What approve() keeps of an unexpired pending plan.
LEMMA AskedHeld ==
    ASSUME TypeOK, NEW c \in Calls, NEW p \in Plans, Approve(c, p),
           Pending(p), ~Expired(records[p].expires)
    PROVE  pc'[c] = "checking" /\ call'[c] \in Held /\ call'[c].plan = p
<1>1. records[p].expires \in Instant /\ clock + GrantTTL \in Nat
  BY DEF TypeOK, Pending, Stored, Record
<1>2. Min({records[p].expires, clock + GrantTTL}) \in Instant
  BY <1>1, UntilInstant
<1> QED  BY <1>2, ClockInstant DEF TypeOK, Approve, Goto, Held

LEMMA CallType ==
    ASSUME TypeOK, CallOK, NEW c \in Calls, CallStep(c)
    PROVE  TypeOK'
<1> USE DEF TypeOK, storeVars, callVars
<1>1. ASSUME NEW p \in Plans, Approve(c, p) PROVE TypeOK'
  <2>1. CASE Pending(p) /\ ~Expired(records[p].expires)
    BY <1>1, <2>1, AskedHeld DEF Approve, Goto, PC
  <2>2. CASE ~(Pending(p) /\ ~Expired(records[p].expires))
    BY <1>1, <2>2 DEF Approve, Goto, PC
  <2> QED  BY <2>1, <2>2
<1>2. CASE EnsureWritable(c) \/ NativeRefuses(c) \/ NativeVerify(c)
  BY <1>2 DEF EnsureWritable, NativeRefuses, NativeVerify, Goto, PC
<1>3. ASSUME NEW g \in Grants, NativeGrant(c, g) PROVE TypeOK'
  <2>1. call[c] \in Held
    BY <1>3 DEF NativeGrant, CallOK, Holding
  <2>2. approvals' \in [Grants -> Approval \cup {None}]
    BY <1>3, <2>1 DEF NativeGrant, Approval, Held
  <2>3. pc' \in [Calls -> PC] /\ call' \in [Calls -> Held \cup {None}]
    BY <1>3, <2>1 DEF NativeGrant, Goto, PC, Held
  <2> QED  BY <1>3, <2>2, <2>3 DEF NativeGrant
<1>4. CASE RecordApproved(c) \/ RecordFailure(c)
  BY <1>4 DEF RecordApproved, RecordFailure, Goto, PC, Event
<1>5. CASE BeginApply(c)
  <2>1. call[c] \in Held
    BY <1>5 DEF BeginApply, CallOK, Holding
  <2>2. Pending(call[c].plan) => records[call[c].plan] \in Record
    BY <2>1 DEF Pending, Stored, Held
  <2>3. pc' \in [Calls -> PC] /\ call' \in [Calls -> Held \cup {None}]
    BY <1>5, <2>1, <2>2, ClockInstant DEF BeginApply, Goto, PC, Held
  <2> QED  BY <1>5, <2>3 DEF BeginApply
<1>6. CASE FinishApply(c)
  <2>1. /\ call[c] \in Held /\ call[c].record \in Record
        /\ call[c].grant \in Grants
    BY <1>6 DEF FinishApply, CallOK, Holding, WithGrant, Verifying, GivenTo
  <2> DEFINE ready == [call[c].record EXCEPT !.state = "ready", !.request = "granted",
                                            !.grant = call[c].grant]
  <2>4. ready \in Record
    BY <2>1 DEF Record, PlanState, RequestStatus
  <2>5. records' = [records EXCEPT ![call[c].plan] = ready] \/ UNCHANGED records
    BY <1>6 DEF FinishApply
  <2>2. records' \in [Plans -> Record \cup {None}]
    BY <2>4, <2>5
  <2>3. pc' \in [Calls -> PC]
    BY <1>6 DEF FinishApply, Goto, PC
  <2> QED  BY <1>6, <2>2, <2>3 DEF FinishApply
<1> QED  BY <1>1, <1>2, <1>3, <1>4, <1>5, <1>6 DEF CallStep

LEMMA TypeStep == TypeOK /\ CallOK /\ GrantOK /\ [Next]_vars => TypeOK'
<1> SUFFICES ASSUME TypeOK, CallOK, GrantOK, [Next]_vars PROVE TypeOK'
  OBVIOUS
<1> USE DEF TypeOK, storeVars, callVars
<1>1. CASE Tick
  BY <1>1 DEF Tick
<1>2. CASE SweepExpired
  BY <1>2, LapsedRecord DEF SweepExpired, Stored
<1>3. CASE Restart
  <2>1. pc' \in [Calls -> PC] /\ call' \in [Calls -> Held \cup {None}]
    BY <1>3 DEF Restart, PC
  <2> QED  BY <1>3, <2>1 DEF Restart
<1>4. ASSUME NEW p \in Plans, FetchReadyPlan(p) PROVE TypeOK'
  BY <1>4 DEF FetchReadyPlan, Stored, Record
<1>5. ASSUME NEW p \in Plans, ConsumeGrant(p) PROVE TypeOK'
  <2>1. handed[p] \in Grants /\ approvals[handed[p]] \in Approval
    BY <1>5 DEF ConsumeGrant, GrantOK, Used
  <2> QED  BY <1>5, <2>1 DEF ConsumeGrant, Approval
<1>6. CASE UNCHANGED vars
  BY <1>6 DEF vars
<1> QED  BY <1>1, <1>2, <1>3, <1>4, <1>5, <1>6, StoreType, CallType DEF Next
-----------------------------------------------------------------------------
(* What no step takes back *)

\* A grant keeps its call, plan and expiry, and is spent once.
Keeps(g) ==
    approvals[g] # None =>
        /\ approvals'[g] # None
        /\ approvals'[g].by = approvals[g].by
        /\ approvals'[g].plan = approvals[g].plan
        /\ approvals'[g].expires = approvals[g].expires
        /\ approvals'[g].status = "granted" => approvals[g].status = "granted"

\* An approved call stays approved.
Rests(c) == pc[c] = "approved" => pc'[c] = "approved" /\ call'[c] = call[c]

LEMMA GrantsKept ==
    ASSUME IInv, [Next]_vars
    PROVE  \A g \in Grants : Keeps(g)
<1> USE DEF Keeps, TypeOK
<1>1. ASSUME NEW c \in Calls, NEW k \in Grants, NEW g \in Grants, NativeGrant(c, k)
      PROVE  Keeps(g)
  BY <1>1 DEF NativeGrant, IInv
<1>2. ASSUME NEW p \in Plans, ConsumeGrant(p), NEW g \in Grants
      PROVE  Keeps(g)
  <2>1. handed[p] \in Grants /\ approvals[handed[p]] # None
    BY <1>2 DEF ConsumeGrant, IInv, GrantOK, Used
  <2>2. [approvals[handed[p]] EXCEPT !.status = "consumed"] \in Approval
    BY <2>1 DEF Approval, IInv
  <2> QED  BY <1>2, <2>1, <2>2 DEF ConsumeGrant, IInv, Approval
<1>3. CASE UNCHANGED approvals
  BY <1>3
<1> QED
  BY <1>1, <1>2, <1>3
     DEF Next, vars, storeVars, callVars, Tick, SweepExpired, Restart, StoreStep, Authorize,
         Deny, Revoke, DiscardUncommitted, FetchReadyPlan, CallStep, Approve, EnsureWritable,
         NativeRefuses, RecordApproved, RecordFailure, BeginApply, NativeVerify, FinishApply

LEMMA CallsRest ==
    ASSUME IInv, [Next]_vars
    PROVE  \A c \in Calls : Rests(c)
<1> USE DEF Rests
<1>1. ASSUME NEW c \in Calls, NEW d \in Calls, CallStep(d)
      PROVE  Rests(c)
  <2>1. pc[d] # "approved"
    BY <1>1 DEF CallStep, Approve, EnsureWritable, NativeGrant, NativeRefuses,
                RecordApproved, RecordFailure, BeginApply, NativeVerify, FinishApply
  <2>2. c # d => pc'[c] = pc[c] /\ call'[c] = call[c]
    BY <1>1 DEF CallStep, Approve, EnsureWritable, NativeGrant, NativeRefuses,
                RecordApproved, RecordFailure, BeginApply, NativeVerify, FinishApply,
                Goto, IInv, TypeOK
  <2> QED  BY <2>1, <2>2
<1>2. CASE Restart
  BY <1>2 DEF Restart
<1>3. CASE UNCHANGED <<pc, call>>
  BY <1>3
<1> QED
  BY <1>1, <1>2, <1>3
     DEF Next, vars, callVars, Tick, SweepExpired, StoreStep, Authorize, Deny, Revoke,
         DiscardUncommitted, FetchReadyPlan, ConsumeGrant

LEMMA HistoryGrows ==
    ASSUME [Next]_vars
    PROVE  minted \subseteq minted' /\ audit \subseteq audit'
  BY DEF Next, vars, storeVars, callVars, Tick, SweepExpired, Restart, StoreStep, Authorize,
         Deny, Revoke, DiscardUncommitted, FetchReadyPlan, ConsumeGrant, CallStep, Approve,
         EnsureWritable, NativeGrant, NativeRefuses, RecordApproved, RecordFailure,
         BeginApply, NativeVerify, FinishApply

LEMMA UsedKept ==
    ASSUME IInv, [Next]_vars, NEW g, Used(g)
    PROVE  Used(g)'
<1>1. g \in Grants /\ approvals[g] # None /\ pc[approvals[g].by] = "approved"
  BY DEF Used
<1>2. approvals[g].by \in Calls
  BY <1>1 DEF IInv, TypeOK, Approval
<1> QED  BY <1>1, <1>2, GrantsKept, CallsRest DEF Used, Keeps, Rests
-----------------------------------------------------------------------------
(* The invariant, part by part *)

\* The steps that leave pc and call alone.
NoCallStep ==
    \/ Tick
    \/ SweepExpired
    \/ \E p \in Plans : StoreStep(p) \/ FetchReadyPlan(p) \/ ConsumeGrant(p)
    \/ UNCHANGED vars

LEMMA NextCases ==
    [Next]_vars <=> NoCallStep \/ Restart \/ \E c \in Calls : CallStep(c)
  BY DEF Next, NoCallStep

LEMMA NoCallStepFrame == NoCallStep => UNCHANGED <<pc, call, audit>>
  BY DEF NoCallStep, vars, callVars, Tick, SweepExpired, StoreStep, Authorize, Deny, Revoke,
         DiscardUncommitted, FetchReadyPlan, ConsumeGrant

\* A step of one call moves no other.
LEMMA OtherCalls ==
    ASSUME TypeOK, NEW c \in Calls, CallStep(c), NEW d \in Calls, d # c
    PROVE  pc'[d] = pc[d] /\ call'[d] = call[d]
  BY DEF TypeOK, CallStep, Approve, EnsureWritable, NativeGrant, NativeRefuses, RecordApproved,
         RecordFailure, BeginApply, NativeVerify, FinishApply, Goto

\* The conjuncts of CallOK for one call.
CallOKOf(c) ==
    /\ pc[c] \in Holding => call[c] \in Held /\ call[c].plan \in minted
    /\ pc[c] \in WithGrant => GivenTo(call[c].grant, c, call[c].plan)
    /\ pc[c] \in Audited => [call |-> c, result |-> "approved"] \in audit
    /\ pc[c] \in Verifying => call[c].record \in Record

LEMMA CallUnmoved ==
    ASSUME IInv, [Next]_vars, NEW d \in Calls, pc'[d] = pc[d], call'[d] = call[d]
    PROVE  CallOKOf(d)'
<1>1. CallOKOf(d)
  BY DEF IInv, CallOK, CallOKOf
<1>2. pc'[d] \in WithGrant => GivenTo(call[d].grant, d, call[d].plan)'
  BY <1>1, GrantsKept DEF CallOKOf, GivenTo, Keeps
<1> QED  BY <1>1, <1>2, HistoryGrows DEF CallOKOf, GivenTo

LEMMA CallOKStep ==
    ASSUME IInv, [Next]_vars
    PROVE  CallOK'
<1> SUFFICES ASSUME NEW d \in Calls PROVE CallOKOf(d)'
  BY DEF CallOK, CallOKOf
<1>0. TypeOK /\ TypeOK' /\ CallOKOf(d)
  BY TypeStep DEF IInv, CallOK, CallOKOf
<1> USE DEF CallOKOf, Holding, WithGrant, Audited, Verifying
<1>1. CASE NoCallStep
  BY <1>1, NoCallStepFrame, CallUnmoved
<1>2. CASE Restart
  <2>1. pc'[d] \in Holding => pc[d] = "approved" /\ pc'[d] = pc[d] /\ call'[d] = call[d]
    BY <1>2, <1>0 DEF Restart, TypeOK
  <2> QED  BY <2>1, CallUnmoved
<1>3. ASSUME NEW c \in Calls, CallStep(c), c # d PROVE CallOKOf(d)'
  BY <1>3, <1>0, OtherCalls, CallUnmoved
<1>4. CASE CallStep(d)
  <2>1. ASSUME NEW p \in Plans, Approve(d, p) PROVE CallOKOf(d)'
    BY <1>0, <2>1, AskedHeld DEF Approve, Goto, TypeOK, storeVars
  <2>2. ASSUME NEW g \in Grants, NativeGrant(d, g) PROVE CallOKOf(d)'
    BY <1>0, <2>2 DEF NativeGrant, Goto, TypeOK, storeVars, GivenTo, Held, Approval
  <2>3. CASE RecordApproved(d)
    BY <1>0, <2>3 DEF RecordApproved, Goto, TypeOK, storeVars, GivenTo
  <2>4. CASE BeginApply(d)
    <3>1. Pending(call[d].plan) => records[call[d].plan] \in Record
      BY <1>0, <2>4 DEF BeginApply, Pending, Stored, TypeOK, Held
    <3>2. /\ pc'[d] = "verifying" =>
              /\ call'[d].plan = call[d].plan /\ call'[d].grant = call[d].grant
              /\ call'[d].record \in Record
              /\ call'[d] \in Held
          /\ pc'[d] \in {"verifying", "failed"}
          /\ minted' = minted /\ approvals' = approvals /\ audit' = audit
      BY <1>0, <2>4, <3>1, ClockInstant DEF BeginApply, TypeOK, Goto, Held, storeVars
    <3> QED  BY <1>0, <2>4, <3>2 DEF BeginApply, GivenTo
  <2>5. CASE EnsureWritable(d) \/ NativeRefuses(d) \/ RecordFailure(d)
    BY <1>0, <2>5 DEF EnsureWritable, NativeRefuses, RecordFailure, Goto, TypeOK, storeVars
  <2>6. CASE NativeVerify(d) \/ FinishApply(d)
    BY <1>0, <2>6 DEF NativeVerify, FinishApply, Goto, TypeOK, storeVars, GivenTo
  <2> QED  BY <1>4, <2>1, <2>2, <2>3, <2>4, <2>5, <2>6 DEF CallStep
<1> QED  BY <1>1, <1>2, <1>3, <1>4, NextCases

LEMMA LiveGrantStep ==
    ASSUME IInv, [Next]_vars
    PROVE  OneLiveGrant'
<1>1. ASSUME NEW c \in Calls, NEW k \in Grants, NativeGrant(c, k) PROVE OneLiveGrant'
  <2>1. call[c] \in Held
    BY <1>1 DEF NativeGrant, IInv, CallOK, Holding
  <2>2. /\ approvals'[k].plan = call[c].plan
        /\ \A g \in Grants : g # k => approvals'[g] = approvals[g]
    BY <1>1 DEF NativeGrant, IInv, TypeOK
  <2>3. \A g \in Grants : approvals[g] # None /\ approvals[g].status = "granted"
                          => approvals[g].plan # call[c].plan
    BY <1>1 DEF NativeGrant, HasLiveGrant
  <2> QED  BY <2>2, <2>3 DEF OneLiveGrant, IInv
<1>2. ASSUME NEW p \in Plans, ConsumeGrant(p) PROVE OneLiveGrant'
  <2>1. handed[p] \in Grants /\ approvals[handed[p]] \in Approval
    BY <1>2 DEF ConsumeGrant, IInv, GrantOK, Used, TypeOK
  <2>2. /\ approvals'[handed[p]].status = "consumed"
        /\ \A g \in Grants : g # handed[p] => approvals'[g] = approvals[g]
    BY <1>2, <2>1 DEF ConsumeGrant, IInv, TypeOK, Approval
  <2> QED  BY <2>2 DEF OneLiveGrant, IInv
<1>3. CASE UNCHANGED approvals
  BY <1>3 DEF OneLiveGrant, IInv
<1> QED
  BY <1>1, <1>2, <1>3
     DEF Next, vars, storeVars, callVars, Tick, SweepExpired, Restart, StoreStep, Authorize,
         Deny, Revoke, DiscardUncommitted, FetchReadyPlan, CallStep, Approve, EnsureWritable,
         NativeRefuses, RecordApproved, RecordFailure, BeginApply, NativeVerify, FinishApply

-----------------------------------------------------------------------------
(* The records *)

\* The record of p was blocked: its grant stays, its request is over.
Blocked(p) ==
    /\ Stored(p)
    /\ records'[p].state = "blocked"
    /\ records'[p].request \notin {"pending", "granted"}
    /\ records'[p].grant = records[p].grant

\* The record of p was made: p is new and nothing was granted for it.
Fresh(p) ==
    /\ p \notin minted
    /\ records'[p].grant = None
    /\ \/ records'[p].state = "awaiting_approval" /\ records'[p].request = "pending"
       \/ records'[p].state = "ready" /\ records'[p].request = None

\* The call c made p ready on its grant.
MadeReady(c, p) ==
    /\ pc[c] = "verified"
    /\ pc'[c] = "approved"
    /\ call[c].plan = p
    /\ Stored(p)
    /\ records'[p].state = "ready"
    /\ records'[p].request = "granted"
    /\ records'[p].grant = call[c].grant
    /\ approvals[call[c].grant].expires <= records'[p].expires

\* What one step can do to one record.
RecordMove(p) ==
    \/ records'[p] = records[p]
    \/ records'[p] = None
    \/ Fresh(p)
    \/ Blocked(p)
    \/ \E c \in Calls : MadeReady(c, p)

LEMMA StoreMove ==
    ASSUME TypeOK, NEW p \in Plans, StoreStep(p), NEW q \in Plans
    PROVE  RecordMove(q)
<1> USE DEF TypeOK
<1>1. CASE Authorize(p)
  BY <1>1 DEF Authorize, RecordMove, Fresh
<1>2. ASSUME NEW r, Stored(p), Block(p, r), r \notin {"pending", "granted"}
      PROVE  RecordMove(q)
  <2>1. records[p] \in Record
    BY <1>2 DEF Stored
  <2>2. [records[p] EXCEPT !.state = "blocked", !.request = r].grant = records[p].grant
    BY <2>1 DEF Record
  <2> QED  BY <1>2, <2>1, <2>2 DEF Block, RecordMove, Blocked, Record
<1>3. CASE Deny(p) \/ Revoke(p)
  BY <1>2, <1>3 DEF Deny, Revoke, Pending
<1>4. CASE DiscardUncommitted(p)
  BY <1>4 DEF DiscardUncommitted, RecordMove
<1> QED  BY <1>1, <1>3, <1>4 DEF StoreStep

\* A sweep that blocks a plan closes its request too: a granted plan expires with
\* its grant at the latest.
LEMMA SweepMove ==
    ASSUME IInv, SweepExpired, NEW q \in Plans
    PROVE  RecordMove(q)
<1>1. CASE ~Stored(q)
  BY <1>1 DEF SweepExpired, RecordMove
<1>2. CASE Stored(q)
  <2> DEFINE r == records[q]
  <2>1. r \in Record /\ records'[q] = Lapsed(r)
    BY <1>2 DEF SweepExpired, IInv, TypeOK, Stored
  <2>2. clock \in Nat /\ r.expires \in Nat
    BY <2>1 DEF IInv, TypeOK, Record, Instant
  <2>3. r.state = "ready" /\ r.request = "granted" =>
            /\ approvals[r.grant].expires <= r.expires
            /\ approvals[r.grant].expires \in Nat
    BY <1>2 DEF IInv, GrantOK, Used, TypeOK, Approval, Instant
  <2>4. r.request # None =>
            /\ r.state = "awaiting_approval" <=> r.request = "pending"
            /\ r.state = "ready" <=> r.request = "granted"
    BY <1>2 DEF IInv, RequestAgrees
  <2>5. Lapsed(r) # r => Lapsed(r).request \notin {"pending", "granted"}
    BY <2>1, <2>2, <2>3, <2>4 DEF Lapsed, Expired, Record, PlanState, RequestStatus
  <2> QED  BY <1>2, <2>1, <2>5, LapsedRecord DEF RecordMove, Blocked
<1> QED  BY <1>1, <1>2

LEMMA FinishMove ==
    ASSUME IInv, NEW c \in Calls, FinishApply(c), NEW q \in Plans
    PROVE  RecordMove(q)
<1> DEFINE h == call[c]
           ready == [h.record EXCEPT !.state = "ready", !.request = "granted",
                                     !.grant = h.grant]
<1>1. h \in Held /\ h.record \in Record /\ pc[c] = "verified"
  BY DEF FinishApply, IInv, CallOK, Holding, Verifying
<1>2. CASE /\ approvals[h.grant].expires <= h.record.expires /\ Stored(h.plan)
           /\ records' = [records EXCEPT ![h.plan] = ready]
           /\ pc' = [pc EXCEPT ![c] = "approved"]
  <2>1. /\ ready.state = "ready" /\ ready.request = "granted"
        /\ ready.grant = h.grant /\ ready.expires = h.record.expires
    BY <1>1 DEF Record
  <2>2. CASE q = h.plan
    <3>1. records'[q] = ready /\ pc'[c] = "approved"
      BY <1>2, <2>2 DEF IInv, TypeOK
    <3>2. MadeReady(c, q)
      BY <1>1, <1>2, <2>1, <2>2, <3>1 DEF MadeReady
    <3> QED  BY <3>2 DEF RecordMove
  <2>3. CASE q # h.plan
    BY <1>2, <2>3 DEF RecordMove, IInv, TypeOK
  <2> QED  BY <2>2, <2>3
<1>3. CASE UNCHANGED records
  BY <1>3 DEF RecordMove
<1> QED  BY <1>2, <1>3 DEF FinishApply, Replaceable, Goto

LEMMA RecordMoves ==
    ASSUME IInv, [Next]_vars, NEW q \in Plans
    PROVE  RecordMove(q)
<1>1. CASE UNCHANGED records \/ Restart
  BY <1>1 DEF RecordMove, Restart
<1> QED
  BY <1>1, StoreMove, SweepMove, FinishMove
     DEF IInv, Next, vars, storeVars, callVars, Tick, FetchReadyPlan, ConsumeGrant, CallStep,
         Approve, EnsureWritable, NativeGrant, NativeRefuses, RecordApproved, RecordFailure,
         BeginApply, NativeVerify

\* A plan that was discarded, or lost in a restart, stays gone: an approval that
\* was waiting for the native verifier does not write it back.
LEMMA GoneStep ==
    ASSUME IInv, [Next]_vars
    PROVE  \A p \in minted : records[p] = None => records'[p] = None
<1> SUFFICES ASSUME NEW p \in minted, records[p] = None PROVE records'[p] = None
  OBVIOUS
<1>1. p \in Plans
  BY DEF IInv, TypeOK
<1> QED  BY <1>1, RecordMoves DEF RecordMove, Fresh, Blocked, MadeReady, Stored
LEMMA GrantStep ==
    ASSUME IInv, [Next]_vars
    PROVE  GrantOK'
<1>0. TypeOK /\ TypeOK' /\ GrantOK
  BY TypeStep DEF IInv
<1>1. ASSUME NEW p \in Plans, Stored(p)'
      PROVE  /\ (records[p].grant # None => Used(records[p].grant))'
             /\ (records[p].request = "granted" /\ records[p].state = "ready" =>
                   /\ records[p].grant # None
                   /\ approvals[records[p].grant].expires <= records[p].expires)'
  <2>1. CASE records'[p] = records[p]
    <3>1. Stored(p) /\ (records[p].grant # None => Used(records[p].grant))
      BY <1>0, <1>1, <2>1 DEF GrantOK, Stored
    <3>2. (records[p].grant # None => Used(records[p].grant))'
      BY <2>1, <3>1, UsedKept
    <3> QED  BY <1>0, <2>1, <3>1, <3>2, GrantsKept DEF GrantOK, Used, Keeps
  <2>2. CASE Fresh(p)
    BY <2>2, NoneIsNoValue DEF Fresh, RequestStatus
  <2>3. CASE Blocked(p)
    BY <1>0, <2>3, UsedKept DEF Blocked, GrantOK
  <2>4. ASSUME NEW c \in Calls, MadeReady(c, p)
        PROVE  /\ Used(records[p].grant)'
               /\ records'[p].grant # None
               /\ approvals'[records'[p].grant].expires <= records'[p].expires
    <3>1. GivenTo(call[c].grant, c, call[c].plan)
      BY <2>4 DEF MadeReady, IInv, CallOK, WithGrant, Holding
    <3> QED  BY <2>4, <3>1, GrantsKept DEF MadeReady, GivenTo, Keeps, Used
  <2> QED  BY <1>1, <2>1, <2>2, <2>3, <2>4, RecordMoves DEF RecordMove, Stored
<1>2. ASSUME NEW p \in Plans, handed'[p] # None PROVE Used(handed[p])'
  <2>1. CASE handed'[p] = handed[p]
    BY <1>0, <1>2, <2>1, UsedKept DEF GrantOK
  <2>2. ASSUME NEW q \in Plans, FetchReadyPlan(q) PROVE Used(handed[p])'
    <3>1. Used(handed'[p])
      BY <1>0, <1>2, <2>2 DEF FetchReadyPlan, GrantOK, TypeOK
    <3> QED  BY <3>1, UsedKept DEF Used
  <2>3. UNCHANGED handed \/ \E q \in Plans : FetchReadyPlan(q)
    BY DEF Next, vars, storeVars, callVars, Tick, SweepExpired, Restart, StoreStep, Authorize,
           Deny, Revoke, DiscardUncommitted, ConsumeGrant, CallStep, Approve,
           EnsureWritable, NativeGrant, NativeRefuses, RecordApproved, RecordFailure,
           BeginApply, NativeVerify, FinishApply
  <2> QED  BY <2>1, <2>2, <2>3
<1>3. ASSUME NEW g \in Grants, approvals'[g] # None, approvals'[g].status = "consumed"
      PROVE  Used(g)'
  <2>1. CASE approvals'[g] = approvals[g]
    BY <1>0, <1>3, <2>1, UsedKept DEF GrantOK
  <2>2. ASSUME NEW p \in Plans, ConsumeGrant(p) PROVE Used(g)'
    BY <1>0, <1>3, <2>1, <2>2, UsedKept DEF ConsumeGrant, GrantOK, TypeOK
  <2>3. ASSUME NEW c \in Calls, NEW k \in Grants, NativeGrant(c, k) PROVE Used(g)'
    BY <1>0, <1>3, <2>1, <2>3 DEF NativeGrant, TypeOK
  <2>4. UNCHANGED approvals \/ (\E p \in Plans : ConsumeGrant(p))
        \/ \E c \in Calls, k \in Grants : NativeGrant(c, k)
    BY DEF Next, vars, storeVars, callVars, Tick, SweepExpired, Restart, StoreStep, Authorize,
           Deny, Revoke, DiscardUncommitted, FetchReadyPlan, CallStep, Approve,
           EnsureWritable, NativeRefuses, RecordApproved, RecordFailure,
           BeginApply, NativeVerify, FinishApply
  <2> QED  BY <2>1, <2>2, <2>3, <2>4
<1> QED  BY <1>1, <1>2, <1>3 DEF GrantOK

LEMMA RequestStep ==
    ASSUME IInv, [Next]_vars
    PROVE  RequestAgrees'
<1> SUFFICES ASSUME NEW p \in Plans, Stored(p)', records'[p].request # None
             PROVE  /\ records'[p].state = "awaiting_approval" <=> records'[p].request = "pending"
                    /\ records'[p].state = "ready" <=> records'[p].request = "granted"
  BY DEF RequestAgrees
<1>1. CASE records'[p] = records[p]
  BY <1>1 DEF IInv, RequestAgrees, Stored
<1>2. CASE Fresh(p) \/ Blocked(p) \/ \E c \in Calls : MadeReady(c, p)
  BY <1>2 DEF Fresh, Blocked, MadeReady
<1> QED  BY <1>1, <1>2, RecordMoves DEF RecordMove, Stored

\* A call between the two checks of applyApproval found its plan pending.
LEMMA NewVerifier ==
    ASSUME IInv, [Next]_vars, NEW d \in Calls, pc'[d] \in Verifying
    PROVE  /\ call'[d].plan = call[d].plan
           /\ \/ pc[d] \in Verifying
              \/ pc[d] = "applying" /\ Pending(call[d].plan)
<1> USE DEF Verifying
<1>1. CASE NoCallStep
  BY <1>1, NoCallStepFrame
<1>2. CASE Restart
  BY <1>2 DEF Restart, IInv, TypeOK
<1>3. ASSUME NEW c \in Calls, CallStep(c), c # d PROVE pc'[d] = pc[d] /\ call'[d] = call[d]
  BY <1>3, OtherCalls DEF IInv
<1>4. CASE CallStep(d)
  <2>1. CASE BeginApply(d)
    <3>1. call[d] \in Held
      BY <2>1 DEF BeginApply, IInv, CallOK, Holding
    <3> QED  BY <2>1, <3>1 DEF BeginApply, Goto, IInv, TypeOK, Held
  <2>2. CASE NativeVerify(d)
    BY <2>2 DEF NativeVerify
  <2>3. ~ \E p \in Plans : Approve(d, p)
    BY DEF Approve, Goto, IInv, TypeOK
  <2>4. ~EnsureWritable(d) /\ ~NativeRefuses(d) /\ ~RecordApproved(d) /\ ~RecordFailure(d)
    BY DEF EnsureWritable, NativeRefuses, RecordApproved, RecordFailure, Goto, IInv, TypeOK
  <2>5. ~FinishApply(d) /\ ~ \E g \in Grants : NativeGrant(d, g)
    BY DEF FinishApply, NativeGrant, Goto, IInv, TypeOK
  <2> QED  BY <1>4, <2>1, <2>2, <2>3, <2>4, <2>5 DEF CallStep
<1> QED  BY <1>1, <1>2, <1>3, <1>4, NextCases

\* A call becomes approved by making its plan ready on a grant nobody has used.
LEMMA NewApproval ==
    ASSUME IInv, [Next]_vars, NEW c \in Calls, pc'[c] = "approved", pc[c] # "approved"
    PROVE  /\ pc[c] = "verified"
           /\ call'[c] = call[c]
           /\ records'[call[c].plan].state = "ready"
           /\ \A d \in Calls \ {c} : pc'[d] = pc[d] /\ call'[d] = call[d]
<1>1. ~NoCallStep /\ ~Restart
  BY NoCallStepFrame DEF Restart, IInv, TypeOK
<1>2. ASSUME NEW d \in Calls, CallStep(d) PROVE d = c
  BY <1>2, OtherCalls DEF IInv
<1>3. CallStep(c)
  BY <1>1, <1>2, NextCases
<1>4. FinishApply(c)
  <2>1. ~ \E p \in Plans : Approve(c, p)
    BY DEF Approve, Goto, IInv, TypeOK
  <2>2. ~EnsureWritable(c) /\ ~NativeRefuses(c) /\ ~RecordApproved(c) /\ ~RecordFailure(c)
    BY DEF EnsureWritable, NativeRefuses, RecordApproved, RecordFailure, Goto, IInv, TypeOK
  <2>3. ~BeginApply(c) /\ ~NativeVerify(c) /\ ~ \E g \in Grants : NativeGrant(c, g)
    BY DEF BeginApply, NativeVerify, NativeGrant, Goto, IInv, TypeOK
  <2> QED  BY <1>3, <2>1, <2>2, <2>3 DEF CallStep
<1>5. call[c].plan \in Plans /\ call[c].record \in Record
  BY <1>4 DEF FinishApply, IInv, CallOK, Holding, Verifying, Held
<1>6. /\ pc[c] = "verified" /\ call' = call
      /\ records'[call[c].plan].state = "ready"
  <2> DEFINE h == call[c]
             ready == [h.record EXCEPT !.state = "ready", !.request = "granted",
                                       !.grant = h.grant]
  <2>1. ready.state = "ready"
    BY <1>5 DEF Record
  <2>2. /\ pc[c] = "verified" /\ call' = call
        /\ records' = [records EXCEPT ![h.plan] = ready]
    BY <1>4 DEF FinishApply, Goto, IInv, TypeOK
  <2> QED  BY <1>5, <2>1, <2>2 DEF IInv, TypeOK
<1> QED  BY <1>3, <1>6, OtherCalls DEF IInv

\* Two calls that both verify a grant of one plan hold the same grant: no grant
\* is spent before its plan is ready, and the native store keeps one live grant.
LEMMA VerifiersShare ==
    ASSUME IInv, NEW c \in Calls, NEW d \in Calls,
           pc[c] \in Verifying, pc[d] \in Verifying, call[c].plan = call[d].plan
    PROVE  c = d
<1>1. /\ GivenTo(call[c].grant, c, call[c].plan)
      /\ GivenTo(call[d].grant, d, call[d].plan)
  BY DEF IInv, CallOK, Verifying, WithGrant, Holding
<1>2. ASSUME NEW e \in Calls, pc[e] \in Verifying, NEW g, GivenTo(g, e, call[e].plan)
      PROVE  approvals[g].status = "granted"
  BY <1>2 DEF GivenTo, IInv, TypeOK, Approval, GrantOK, Used, Verifying
<1>3. call[c].grant = call[d].grant
  BY <1>1, <1>2 DEF GivenTo, IInv, OneLiveGrant
<1> QED  BY <1>1, <1>3 DEF GivenTo

LEMMA ApprovedStep ==
    ASSUME IInv, [Next]_vars
    PROVE  ApprovedOK' /\ OneApprovalPerPlan'
<1>1. ASSUME NEW c \in Calls, pc[c] = "approved"
      PROVE  /\ pc'[c] = "approved" /\ call'[c] = call[c]
             /\ call[c].plan \in minted /\ call[c].plan \in Plans
             /\ ~Pending(call[c].plan)
             /\ \A d \in Calls : pc[d] \in Verifying => call[d].plan # call[c].plan
  BY <1>1, CallsRest DEF Rests, IInv, CallOK, Holding, Held, ApprovedOK
<1>2. ASSUME NEW c \in Calls, pc'[c] = "approved"
      PROVE  /\ ~Pending(call[c].plan)'
             /\ \A d \in Calls : pc'[d] \in Verifying => call'[d].plan # call'[c].plan
  <2>1. CASE pc[c] = "approved"
    <3>1. ~Pending(call[c].plan)'
      BY <1>1, <2>1, RecordMoves
         DEF RecordMove, Fresh, Blocked, MadeReady, Pending, Stored
    <3> QED  BY <1>1, <2>1, <3>1, NewVerifier
  <2>2. CASE pc[c] # "approved"
    <3>1. pc[c] \in Verifying /\ call'[c] = call[c]
          /\ records'[call'[c].plan].state = "ready"
      BY <1>2, <2>2, NewApproval DEF Verifying
    <3>2. ASSUME NEW d \in Calls, pc'[d] \in Verifying PROVE call'[d].plan # call'[c].plan
      <4>1. d # c /\ pc[d] \in Verifying /\ call'[d] = call[d]
        BY <1>2, <2>2, <3>2, NewApproval DEF Verifying
      <4> QED  BY <3>1, <4>1, VerifiersShare
    <3> QED  BY <3>1, <3>2 DEF Pending
  <2> QED  BY <2>1, <2>2
<1>3. ASSUME NEW c \in Calls, NEW d \in Calls, pc'[c] = "approved", pc'[d] = "approved",
             call'[c].plan = call'[d].plan
      PROVE  c = d
  <2>1. CASE pc[c] = "approved" /\ pc[d] = "approved"
    BY <1>1, <1>3, <2>1 DEF IInv, OneApprovalPerPlan
  <2>2. ASSUME NEW e \in Calls, NEW f \in Calls, pc[e] = "approved", pc[f] # "approved",
               pc'[f] = "approved", call'[e].plan = call'[f].plan
        PROVE  FALSE
    BY <1>1, <2>2, NewApproval DEF Verifying
  <2>3. CASE pc[c] # "approved" /\ pc[d] # "approved"
    BY <1>3, <2>3, NewApproval
  <2> QED  BY <1>3, <2>1, <2>2, <2>3
<1> QED  BY <1>2, <1>3 DEF ApprovedOK, OneApprovalPerPlan
-----------------------------------------------------------------------------
(* Theorems *)

LEMMA IInvStep == IInv /\ [Next]_vars => IInv'
<1> SUFFICES ASSUME IInv, [Next]_vars PROVE IInv'
  OBVIOUS
<1>1. TypeOK' /\ CallOK'
  BY TypeStep, CallOKStep DEF IInv
<1>2. GrantOK' /\ RequestAgrees'
  BY GrantStep, RequestStep
<1>3. OneLiveGrant' /\ ApprovedOK' /\ OneApprovalPerPlan'
  BY LiveGrantStep, ApprovedStep
<1> QED  BY <1>1, <1>2, <1>3 DEF IInv

LEMMA IInvAudited == IInv => ApprovedIsAudited
<1> SUFFICES ASSUME IInv, NEW g \in Grants, Used(g)
             PROVE  [call |-> approvals[g].by, result |-> "approved"] \in audit
  BY DEF IInv, GrantOK, ApprovedIsAudited
<1>1. approvals[g].by \in Calls /\ pc[approvals[g].by] \in Audited
  BY DEF Used, IInv, TypeOK, Approval, Audited, WithGrant, Holding
<1> QED  BY <1>1 DEF IInv, CallOK

\* The invariant of the authorization flow: calls, grants, records and audit
\* agree after any interleaving, restart, sweep or failure of approvals.
THEOREM Inductive == Spec => []IInv
  BY InitIInv, IInvStep, PTL DEF Spec

\* Every variable keeps its type.
THEOREM TypeCorrect == Spec => []TypeOK
<1>1. IInv => TypeOK
  BY DEF IInv
<1> QED  BY <1>1, Inductive, PTL

\* However many sessions approve a plan at once, one of them succeeds at most.
THEOREM SingleApproval == Spec => []OneApprovalPerPlan
<1>1. IInv => OneApprovalPerPlan
  BY DEF IInv
<1> QED  BY <1>1, Inductive, PTL

\* A grant that made a plan ready, or that was spent on an execution, belongs to
\* a call whose approval is in the durable audit.
THEOREM AuditFirst == Spec => []ApprovedIsAudited
  BY IInvAudited, Inductive, PTL

\* The state of a plan and the status of its request tell one story.
THEOREM RequestsAgree == Spec => []RequestAgrees
<1>1. IInv => RequestAgrees
  BY DEF IInv
<1> QED  BY <1>1, Inductive, PTL

\* An approval in flight never writes back a plan that was discarded or lost.
THEOREM GoneForGood == Spec => GoneStaysGone
<1>1. IInv /\ [Next]_vars =>
        [\A p \in minted : records[p] = None => records'[p] = None]_vars
  BY GoneStep
<1> QED  BY <1>1, Inductive, PTL DEF Spec, GoneStaysGone
===============================================================================
