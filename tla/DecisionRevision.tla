-------------------------- MODULE DecisionRevision --------------------------
(***************************************************************************)
(* Reopening a concluded decision (revision/service.ts, revision/store.ts) *)
(* on top of OutcomeVerification: a reopen requalifies the evidence,       *)
(* prepares a fresh plan, and commits the revision and its links in one    *)
(* transaction; a revised decision is approved, executed and verified like *)
(* any other, and reopened in its turn.  Revisions are in SQLite and       *)
(* survive a restart; the plans they prepared do not.                      *)
(*                                                                         *)
(* withTransaction (db/sqlite.ts, module SqliteTransactions) serves        *)
(* transactions in the order they were asked for, and holds every other    *)
(* statement back while one is waiting or running.                         *)
(***************************************************************************)
EXTENDS OutcomeVerification, FiniteSets, Sequences

CONSTANTS
    Reopens,    \* calls of reopen() at a time
    Reasons     \* [Reopens -> reasons the owner gives in that call]

Reason == UNION {Reasons[c] : c \in Reopens}

VARIABLES
    revisions,  \* rows of decision_revisions
    minted,     \* decision ids generated so far
    reopen,     \* [Reopens -> reopen in progress, or None]
    queue       \* the reopens whose transaction waits or runs, in order

rvars == <<revisions, minted, reopen, queue>>
vars == <<ovars, rvars>>

-----------------------------------------------------------------------------
(* Types *)

\* Plan, capability, actor and outcome are functions of the decision, so the
\* idempotency digest is the decision and the reason.
Revision == [root : Roots, parent : Decisions, index : 1 .. Cardinality(Decisions),
             reason : Reason, new : Decisions]
Reopen == [at : {"lookup", "chain", "evidence", "commit"},
           parent : Decisions, reason : Reason,
           root : Decisions, index : 0 .. Cardinality(Decisions) + 1,
           new : Decisions \cup {None}, decide : BOOLEAN]

ASSUME RevisionAssumption ==
    /\ IsFiniteSet(Decisions) /\ IsFiniteSet(Reopens)
    /\ None \notin Decisions \cup Reopen

TypeOK ==
    /\ OutcomeTypeOK
    /\ revisions \in SUBSET Revision
    /\ minted \in SUBSET Decisions
    /\ reopen \in [Reopens -> Reopen \cup {None}]
    /\ queue \in Seq(Reopens) /\ Len(queue) <= Cardinality(Reopens)

Init ==
    /\ OutcomeInit
    /\ revisions = {}
    /\ minted = Roots
    /\ reopen = [c \in Reopens |-> None]
    /\ queue = <<>>

GateOpen_Bug == TRUE  \* statements run while a transaction is pending

\* A statement outside the transactions starts only when none is pending.
GateOpen == queue = <<>>

At(c, at) == reopen[c] # None /\ reopen[c].at = at

Chain(root) == {v \in revisions : v.root = root}

SameIntent(c, v) == v.parent = reopen[c].parent /\ v.reason = reopen[c].reason

Latest(root) ==
    IF Chain(root) = {} THEN root
    ELSE (CHOOSE v \in Chain(root) : \A u \in Chain(root) : u.index <= v.index).new

-----------------------------------------------------------------------------
(* reopen(): one action per await *)

\* Only a decision whose plan is in the store and whose outcome is concluded is
\* reopened; a failed verification does not qualify.
StartReopen(c, d, reason) ==
    /\ reopen[c] = None
    /\ plan[d] # "none"
    /\ case[d] = "linked"
    /\ outcome[d] \in {"mismatch", "inconclusive", "verified"}
    /\ reopen' = [reopen EXCEPT ![c] =
           [at |-> "lookup", parent |-> d, reason |-> reason, root |-> d,
            index |-> 0, new |-> None, decide |-> FALSE]]
    /\ UNCHANGED <<ovars, revisions, minted, queue>>

\* The root is the root of the revision that made this decision, and the same
\* intent again is answered with the revision there is: two reads in a row, of
\* rows that never change once they are there.
ReadIntent(c) ==
    /\ At(c, "lookup") /\ GateOpen
    /\ LET made == {v \in revisions : v.new = reopen[c].parent} IN
       reopen' = IF \E v \in revisions : SameIntent(c, v)
                 THEN [reopen EXCEPT ![c] = None]
                 ELSE [reopen EXCEPT ![c].at = "chain",
                     ![c].root = IF made = {} THEN @
                                 ELSE (CHOOSE v \in made : TRUE).root]
    /\ UNCHANGED <<ovars, revisions, minted, queue>>

\* Only the latest decision of a chain goes on.
ReadChain(c) ==
    /\ At(c, "chain") /\ GateOpen
    /\ LET root == reopen[c].root IN
       reopen' = IF Chain(root) # {} /\ Latest(root) # reopen[c].parent
                 THEN [reopen EXCEPT ![c] = None]
                 ELSE [reopen EXCEPT ![c].at = "evidence",
                                     ![c].index = Cardinality(Chain(root)) + 1]
    /\ UNCHANGED <<ovars, revisions, minted, queue>>

FreshDecision == CHOOSE d \in Decisions : d \notin minted

\* The evidence is requalified.  On DECIDE a fresh plan is authorized, which
\* awaits an approval of its own; any other disposition has no plan.  Either the
\* requalification or the authorization may fail.  The transaction is asked for at
\* once.
Prepare(c) ==
    /\ At(c, "evidence")
    /\ \/ /\ minted # Decisions
          /\ \E decide \in BOOLEAN : LET new == FreshDecision IN
             /\ minted' = minted \cup {new}
             /\ plan' = IF decide THEN [plan EXCEPT ![new] = "awaiting"] ELSE plan
             /\ reopen' = [reopen EXCEPT ![c].at = "commit", ![c].new = new,
                                         ![c].decide = decide]
             /\ queue' = Append(queue, c)
       \/ /\ reopen' = [reopen EXCEPT ![c] = None]
          /\ UNCHANGED <<plan, minted, queue>>
    /\ UNCHANGED <<executed, post, runtimeVars, restarts, revisions>>

MayInsert_Bug(c) ==  \* trusts the chain that was read before the evidence
    \A v \in revisions : reopen[c].new \notin {v.root, v.parent, v.new}

\* What createResolvedOrGet() checks again inside its transaction.
MayInsert(c) ==
    LET r == reopen[c] IN
    /\ \A v \in revisions : r.new \notin {v.root, v.parent, v.new}
    /\ \A v \in revisions : v.new # r.root
    /\ r.index = Cardinality(Chain(r.root)) + 1
    /\ r.parent = Latest(r.root)
    /\ \A v \in revisions : v.parent # r.parent

Discard_Bug(c) == UNCHANGED plan  \* the prepared plan stays

\* The plan of a revision that is not there is removed, unless the owner has
\* approved it meanwhile.
Discard(c) ==
    plan' = IF reopen[c].decide /\ plan[reopen[c].new] = "awaiting"
            THEN [plan EXCEPT ![reopen[c].new] = "none"] ELSE plan

\* The transaction: the row and its events; or an existing revision of the same
\* intent, an integrity error or a failure of the database, and the plan goes.
Commit(c) ==
    /\ At(c, "commit") /\ Head(queue) = c
    /\ LET r == reopen[c] IN
       \/ /\ ~ \E v \in revisions : SameIntent(c, v)
          /\ MayInsert(c)
          /\ revisions' = revisions \cup
                {[root |-> r.root, parent |-> r.parent, index |-> r.index,
                  reason |-> r.reason, new |-> r.new]}
          /\ UNCHANGED plan
       \/ Discard(c) /\ UNCHANGED revisions
    /\ reopen' = [reopen EXCEPT ![c] = None]
    /\ queue' = Tail(queue)
    /\ UNCHANGED <<executed, post, runtimeVars, restarts, minted>>

Continue(c) ==
    \/ ReadIntent(c) \/ ReadChain(c) \/ Prepare(c) \/ Commit(c)

\* The Brain restarts: a reopen in progress is over, its revision committed or not.
Restart ==
    /\ ForgetRuntime
    /\ reopen' = [c \in Reopens |-> None]
    /\ queue' = <<>>
    /\ UNCHANGED <<revisions, minted>>

\* The audit of the approval is a statement like any other.
ApprovePlan(d) == GateOpen /\ Approve(d) /\ UNCHANGED rvars

Verify == OutcomeNext /\ UNCHANGED rvars

Next ==
    \/ Verify
    \/ \E d \in Decisions : ApprovePlan(d)
    \/ \E c \in Reopens :
          \/ Continue(c)
          \/ \E d \in Decisions, reason \in Reasons[c] : StartReopen(c, d, reason)
    \/ Restart

\* Code that has started runs on: the event loop comes back to every await.
Spec ==
    /\ Init /\ [][Next]_vars
    /\ \A d \in Decisions : \A n \in Attempts(d) :
          WF_vars(Handle(d, n) /\ UNCHANGED rvars)
    /\ \A c \in Reopens : WF_vars(Continue(c))

-----------------------------------------------------------------------------
(* Properties *)

\* No plan can be approved or executed for a revision that does not exist: when a
\* reopen loses to another one, finds its intent recorded or cannot commit, the
\* plan it prepared goes with it, before an approval of it can be audited.
NoOrphanPlan ==
    \A d \in Decisions \ Roots :
        plan[d] \in {"awaiting", "ready"} =>
            \/ \E v \in revisions : v.new = d
            \/ \E c \in Reopens : At(c, "commit") /\ reopen[c].new = d

Nth(rows, i) == {v \in rows : v.index = i}

\* The decisions of a chain by the index of their row; None for an index that no
\* row has.
Line(rows) ==
    [i \in 1 .. Cardinality(rows) |->
        IF Nth(rows, i) = {} THEN None ELSE (CHOOSE v \in Nth(rows, i) : TRUE).new]

Abstract == INSTANCE DecisionChain WITH
    verdict <- concluded, line <- [root \in Roots |-> Line(Chain(root))]

\* Whatever the order of posts, verifications and concurrent reopens, and across
\* restarts that forget every outcome: each decision is concluded at most once,
\* and each root has one line of revisions, which grows at its end and only past
\* a concluded decision.
DecisionChainSpec == Abstract!Spec
=============================================================================
