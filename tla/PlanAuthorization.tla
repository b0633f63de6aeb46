------------------------- MODULE PlanAuthorization -------------------------
(***************************************************************************)
(* The approval of a plan in the Brain server: the in-memory authorization *)
(* store (brain-server/src/approval/authorization-store.ts), the lifecycle *)
(* of its records (authorization-service.ts), and the control facade that  *)
(* drives an approval (control/approval-facade.ts) through the native      *)
(* approval store, the durable audit (control/audit.ts) and back.          *)
(*                                                                         *)
(* The server runs on one JavaScript thread: an action is the code between *)
(* two awaits of one approve call.  While a call waits, other calls and    *)
(* the other transitions of the store run, and time passes.                *)
(***************************************************************************)
EXTENDS Naturals, FiniteSets, FiniteSetsExt

CONSTANTS
    Plans,          \* plan ids, generated by the server and never used twice
    Calls,          \* calls of approve(), each made once
    Grants,         \* native approval ids
    PlanTTL,        \* longest life of a plan (DEFAULT_MAX_APPROVAL_TTL_MS)
    GrantTTL,       \* longest life of a grant (5 minutes in the facade)
    MaxRecords,     \* capacity of the authorization store
    MaxEvents,      \* capacity of the audit
    MaxClock,       \* bound of the model: the last instant
    None            \* no record, request or grant

ASSUME PlanAuthorizationAssumption ==
    /\ {PlanTTL, GrantTTL} \subseteq Nat \ {0}
    /\ {MaxRecords, MaxEvents, MaxClock} \subseteq Nat
    /\ None \notin Grants

VARIABLES
    clock,      \* the time both processes read
    minted,     \* plan ids generated so far
    records,    \* [Plans -> authorization record, or None]
    approvals,  \* [Grants -> native approval record, or None]
    audit,      \* the events appended to control_approval_audit
    pc, call,   \* [Calls -> where the call is, and what it holds]
    handed      \* [Plans -> grant of the ready plan the desktop fetched, or None]

storeVars == <<minted, records>>
callVars == <<pc, call>>
vars == <<clock, storeVars, approvals, audit, callVars, handed>>

-----------------------------------------------------------------------------
(* Types *)

PlanState == {"awaiting_approval", "ready", "blocked"}
RequestStatus == {"pending", "granted", "denied", "revoked", "expired"}
Instant == 0 .. MaxClock + PlanTTL

Record == [state : PlanState, request : RequestStatus \cup {None},
           grant : Grants \cup {None}, expires : Instant]
Approval == [plan : Plans, by : Calls, expires : Instant,
             status : {"granted", "consumed"}]
Event == [call : Calls, result : {"approved", "rejected", "failed"}]

ASSUME NoneIsNoValue == None \notin Approval \cup RequestStatus

\* What a call keeps across its awaits: the plan, the expiry it asked for, the
\* native grant, and the record and the time that applyApproval read.
Held == [plan : Plans, until : Instant, grant : Grants \cup {None},
         record : Record \cup {None}, now : Instant]

PC == {"idle", "checking", "granting", "granted", "applying", "verifying",
       "verified", "rejected", "failed", "approved", "error"}

TypeOK ==
    /\ clock \in 0 .. MaxClock
    /\ minted \in SUBSET Plans
    /\ records \in [Plans -> Record \cup {None}]
    /\ approvals \in [Grants -> Approval \cup {None}]
    /\ audit \in SUBSET Event
    /\ pc \in [Calls -> PC]
    /\ call \in [Calls -> Held \cup {None}]
    /\ handed \in [Plans -> Grants \cup {None}]

Init ==
    /\ clock = 0
    /\ minted = {}
    /\ records = [p \in Plans |-> None]
    /\ approvals = [g \in Grants |-> None]
    /\ audit = {}
    /\ pc = [c \in Calls |-> "idle"]
    /\ call = [c \in Calls |-> None]
    /\ handed = [p \in Plans |-> None]

-----------------------------------------------------------------------------
(* Helpers *)

\* Faulty variants (names ending in _Bug) are never used by the specification:
\* each shows that a property would notice that mistake in the code.

Expired(instant) == clock >= instant

\* A requested expiry may shorten the policy's bound and never extends it.
PlanExpiries_Bug == clock + 1 .. clock + PlanTTL + 1    \* extends it
PlanExpiries == clock + 1 .. clock + PlanTTL

Stored(p) == records[p] # None

Pending(p) ==
    /\ Stored(p)
    /\ records[p].state = "awaiting_approval"
    /\ records[p].request = "pending"

\* AuthorizationStore.replace refuses a plan the store does not hold.
Replaceable_Bug(p) ==     \* inserts what is missing
    p \in minted
Replaceable(p) == Stored(p)

Goto(c, l) == pc' = [pc EXCEPT ![c] = l]

\* A conditional INSERT: no row beyond the bound.
AuditHasRoom == Cardinality(audit) < MaxEvents

-----------------------------------------------------------------------------
(* The authorization store *)

\* A request becomes a plan: ready at once when the policy asks for no
\* approval, else awaiting one.  A full store refuses.
Authorize(p) ==
    /\ p \notin minted
    /\ Cardinality({q \in Plans : Stored(q)}) < MaxRecords
    /\ minted' = minted \cup {p}
    /\ \E expires \in PlanExpiries, required \in BOOLEAN :
        records' = [records EXCEPT ![p] =
            [state   |-> IF required THEN "awaiting_approval" ELSE "ready",
             request |-> IF required THEN "pending" ELSE None,
             grant   |-> None,
             expires |-> expires]]
    /\ UNCHANGED <<clock, approvals, audit, callVars, handed>>

Block(p, request) ==
    records' = [records EXCEPT ![p].state = "blocked", ![p].request = request]

Deny(p) ==
    /\ Pending(p)
    /\ Block(p, "denied")
    /\ UNCHANGED <<clock, minted, approvals, audit, callVars, handed>>

Revoke(p) ==
    /\ Stored(p)
    /\ records[p].state = "ready"
    /\ records[p].request = "granted"
    /\ Block(p, "revoked")
    /\ UNCHANGED <<clock, minted, approvals, audit, callVars, handed>>

\* What the sweep makes of a record: an expired request or grant blocks the
\* plan, and so does the expiry of a plan that needed no approval.
Lapsed_Bug(r) ==    \* the request keeps its status
    IF \/ r.state = "awaiting_approval" /\ Expired(r.expires)
       \/ r.state = "ready" /\ r.grant # None /\ Expired(approvals[r.grant].expires)
       \/ r.state = "ready" /\ Expired(r.expires)
    THEN [r EXCEPT !.state = "blocked"]
    ELSE r

Lapsed(r) ==
    LET request == /\ r.state = "awaiting_approval" /\ r.request = "pending"
                   /\ Expired(r.expires)
        grant   == /\ r.state = "ready" /\ r.request = "granted"
                   /\ Expired(approvals[r.grant].expires)
        plan    == r.state # "blocked" /\ Expired(r.expires)
    IN  IF request \/ grant
        THEN [r EXCEPT !.state = "blocked", !.request = "expired"]
        ELSE IF plan THEN [r EXCEPT !.state = "blocked"] ELSE r

SweepExpired ==
    /\ records' = [p \in Plans |-> IF Stored(p) THEN Lapsed(records[p]) ELSE None]
    /\ UNCHANGED <<clock, minted, approvals, audit, callVars, handed>>

\* A revision that lost its idempotency race takes its fresh plan back.
DiscardUncommitted(p) ==
    /\ Pending(p)
    /\ records[p].grant = None
    /\ records' = [records EXCEPT ![p] = None]
    /\ UNCHANGED <<clock, minted, approvals, audit, callVars, handed>>

\* The Brain server stops and starts: the store is memory, the audit is not.
Restart ==
    /\ records' = [p \in Plans |-> None]
    /\ pc' = [c \in Calls |-> IF pc[c] \in {"idle", "approved"} THEN pc[c] ELSE "error"]
    /\ call' = [c \in Calls |-> IF pc[c] = "approved" THEN call[c] ELSE None]
    /\ UNCHANGED <<clock, minted, approvals, audit, handed>>

Tick ==
    /\ clock < MaxClock
    /\ clock' = clock + 1
    /\ UNCHANGED <<storeVars, approvals, audit, callVars, handed>>

-----------------------------------------------------------------------------
(* approve(): the facade up to the native grant *)

\* The plan must be pending and unexpired.  The grant will end with the plan or
\* after GrantTTL, whichever comes first.
Approve(c, p) ==
    /\ pc[c] = "idle"
    /\ p \in minted
    /\ IF Pending(p) /\ ~Expired(records[p].expires)
       THEN /\ Goto(c, "checking")
            /\ call' = [call EXCEPT ![c] =
                    [plan |-> p, until |-> Min({records[p].expires, clock + GrantTTL}),
                     grant |-> None, record |-> None, now |-> clock]]
       ELSE Goto(c, "rejected") /\ UNCHANGED call
    /\ UNCHANGED <<clock, storeVars, approvals, audit, handed>>

\* A full or failing audit stops the call before it has a native effect.
EnsureWritable(c) ==
    /\ pc[c] = "checking"
    /\ \/ AuditHasRoom /\ Goto(c, "granting")
       \/ Goto(c, "error")
    /\ UNCHANGED <<clock, storeVars, approvals, audit, call, handed>>

HasLiveGrant_Bug(p) ==      \* an expired grant makes room for another
    \E g \in Grants : /\ approvals[g] # None
                      /\ approvals[g].plan = p
                      /\ approvals[g].status = "granted"
                      /\ ~Expired(approvals[g].expires)

\* An expired grant that nobody consumed still counts.
HasLiveGrant(p) ==
    \E g \in Grants : /\ approvals[g] # None
                      /\ approvals[g].plan = p
                      /\ approvals[g].status = "granted"

\* The native authority records the grant.  The call may still see a failure:
\* the record stays when its file is not written or when the reply is lost.
NativeGrant(c, g) ==
    /\ pc[c] = "granting"
    /\ approvals[g] = None
    /\ ~Expired(call[c].until)
    /\ ~HasLiveGrant(call[c].plan)
    /\ approvals' = [approvals EXCEPT ![g] =
            [plan |-> call[c].plan, by |-> c, expires |-> call[c].until,
             status |-> "granted"]]
    /\ \/ Goto(c, "granted") /\ call' = [call EXCEPT ![c].grant = g]
       \/ Goto(c, "failed") /\ UNCHANGED call
    /\ UNCHANGED <<clock, storeVars, audit, handed>>

\* A live grant of the plan is a conflict; a request past its expiry, or a
\* bridge that does not answer, is a failure.
NativeRefuses(c) ==
    /\ pc[c] = "granting"
    /\ \/ HasLiveGrant(call[c].plan) /\ Goto(c, "rejected")
       \/ Goto(c, "failed")
    /\ UNCHANGED <<clock, storeVars, approvals, audit, call, handed>>

-----------------------------------------------------------------------------
(* approve(): audit, then applyApproval *)

RecordApproved_Bug(c) ==    \* goes on when the audit is full
    /\ pc[c] = "granted"
    /\ Goto(c, "applying")
    /\ audit' = IF AuditHasRoom
                THEN audit \cup {[call |-> c, result |-> "approved"]} ELSE audit
    /\ UNCHANGED <<clock, storeVars, approvals, call, handed>>

\* The approval is on record before the plan may become ready; no record, no
\* transition.
RecordApproved(c) ==
    /\ pc[c] = "granted"
    /\ \/ /\ AuditHasRoom
          /\ audit' = audit \cup {[call |-> c, result |-> "approved"]}
          /\ Goto(c, "applying")
       \/ /\ UNCHANGED audit
          /\ Goto(c, "error")
    /\ UNCHANGED <<clock, storeVars, approvals, call, handed>>

\* Every refusal and failure is recorded when there is room, then returned.
RecordFailure(c) ==
    /\ pc[c] \in {"rejected", "failed"}
    /\ \/ AuditHasRoom /\ audit' = audit \cup {[call |-> c, result |-> pc[c]]}
       \/ UNCHANGED audit
    /\ Goto(c, "error")
    /\ UNCHANGED <<clock, storeVars, approvals, call, handed>>

\* applyApproval up to its await: the record and the time it reads here are the
\* ones it uses when the verifier answers.
BeginApply(c) ==
    LET p == call[c].plan IN
    /\ pc[c] = "applying"
    /\ IF Pending(p) /\ ~Expired(records[p].expires)
       THEN /\ Goto(c, "verifying")
            /\ call' = [call EXCEPT ![c].record = records[p], ![c].now = clock]
       ELSE Goto(c, "failed") /\ UNCHANGED call
    /\ UNCHANGED <<clock, storeVars, approvals, audit, handed>>

NativeVerify(c) ==
    LET approval == approvals[call[c].grant] IN
    /\ pc[c] = "verifying"
    /\ \/ /\ approval.plan = call[c].plan
          /\ approval.status = "granted"
          /\ ~Expired(approval.expires)
          /\ Goto(c, "verified")
       \/ Goto(c, "failed")
    /\ UNCHANGED <<clock, storeVars, approvals, audit, call, handed>>

\* The rest of applyApproval: the record read before the await becomes ready.
FinishApply(c) ==
    LET h == call[c]
        expires == approvals[h.grant].expires
    IN
    /\ pc[c] = "verified"
    /\ IF h.now < expires /\ expires <= h.record.expires /\ Replaceable(h.plan)
       THEN /\ records' = [records EXCEPT ![h.plan] =
                    [h.record EXCEPT !.state = "ready", !.request = "granted",
                                     !.grant = h.grant]]
            /\ Goto(c, "approved")
       ELSE Goto(c, "failed") /\ UNCHANGED records
    /\ UNCHANGED <<clock, minted, approvals, audit, call, handed>>

-----------------------------------------------------------------------------
(* The desktop: fetch a ready plan, then have the broker consume its grant *)

FetchReadyPlan(p) ==
    /\ Stored(p)
    /\ records[p].state = "ready"
    /\ handed' = [handed EXCEPT ![p] = records[p].grant]
    /\ UNCHANGED <<clock, storeVars, approvals, audit, callVars>>

ConsumeGrant(p) ==
    LET g == handed[p] IN
    /\ g # None
    /\ approvals[g].status = "granted"
    /\ ~Expired(approvals[g].expires)
    /\ approvals' = [approvals EXCEPT ![g].status = "consumed"]
    /\ UNCHANGED <<clock, storeVars, audit, callVars, handed>>

-----------------------------------------------------------------------------
(* Specification *)

StoreStep(p) ==
    Authorize(p) \/ Deny(p) \/ Revoke(p) \/ DiscardUncommitted(p)

CallStep(c) ==
    \/ \E p \in Plans : Approve(c, p)
    \/ EnsureWritable(c)
    \/ \E g \in Grants : NativeGrant(c, g)
    \/ NativeRefuses(c)
    \/ RecordApproved(c)
    \/ RecordFailure(c)
    \/ BeginApply(c)
    \/ NativeVerify(c)
    \/ FinishApply(c)

Next ==
    \/ Tick
    \/ SweepExpired
    \/ Restart
    \/ \E p \in Plans : StoreStep(p) \/ FetchReadyPlan(p) \/ ConsumeGrant(p)
    \/ \E c \in Calls : CallStep(c)

Spec == Init /\ [][Next]_vars

-----------------------------------------------------------------------------
(* Properties that hold *)

\* Owners approving one plan from two sessions at once get one success: the
\* second is stopped by the native store, by the state of the plan, or by the
\* verifier, wherever the calls interleave and whatever fails in between.
OneApprovalPerPlan ==
    \A c, d \in Calls :
        pc[c] = "approved" /\ pc[d] = "approved" /\ call[c].plan = call[d].plan => c = d

\* A grant that made a plan ready, and a grant that was spent on an execution,
\* belong to a call whose approval is in the durable audit (fail closed: the
\* audit is written first, approval-facade.ts).
ApprovedIsAudited ==
    \A g \in Grants :
        \/ \E p \in Plans : Stored(p) /\ records[p].state = "ready" /\ records[p].grant = g
        \/ approvals[g] # None /\ approvals[g].status = "consumed"
        => [call |-> approvals[g].by, result |-> "approved"] \in audit

\* The state of a plan and the status of its request tell one story after any
\* mix of approvals, denials, revocations and sweeps: no blocked plan keeps an
\* open request, and no plan is ready on a request that was not granted.
RequestAgrees ==
    \A p \in Plans :
        Stored(p) /\ records[p].request # None =>
            /\ records[p].state = "awaiting_approval" <=> records[p].request = "pending"
            /\ records[p].state = "ready" <=> records[p].request = "granted"

\* A plan that was discarded, or lost in a restart, stays gone: an approval that
\* was waiting for the native verifier does not write it back.
GoneStaysGone ==
    [][\A p \in minted : records[p] = None => records'[p] = None]_vars

-----------------------------------------------------------------------------
(* What authorization-service.ts says of applyApproval, which the code does    *)
(* not do: it checks before its await and writes after it.                     *)

BecomesReady(p) ==
    /\ Stored(p)
    /\ records[p].state # "ready"
    /\ records'[p] # None
    /\ records'[p].state = "ready"

\* A plan becomes ready on an unexpired grant only.
ReadyOnLiveGrant ==
    [][\A p \in Plans :
        BecomesReady(p) => ~Expired(approvals[records'[p].grant].expires)]_vars
=============================================================================
