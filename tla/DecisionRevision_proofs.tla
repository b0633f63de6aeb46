----------------------- MODULE DecisionRevision_proofs -----------------------
(***************************************************************************)
(* Proofs about DecisionRevision, for any finite set of decisions and of   *)
(* concurrent reopens, any number of read-backs, reasons and restarts:     *)
(* types, the attempt in flight, no orphan plan, and that reopening and    *)
(* verification together implement DecisionChain.                          *)
(***************************************************************************)
EXTENDS DecisionRevision, FiniteSetTheorems, SequenceTheorems, TLAPS

(* Verification *)

OutcomeType ==
    /\ plan \in [Decisions -> PlanState]
    /\ executed \in [Decisions -> {"no", "not_started", "effect"}]
    /\ case \in [Decisions -> {"none", "registered", "linked"}]
    /\ outcome \in [Decisions -> VerificationStatus \cup {None}]
    /\ slot \in [Decisions -> Attempt \cup {None}]
    /\ concluded \in [Decisions -> Verdicts \cup {"open"}]
    /\ restarts \in 0 .. MaxRestarts

PostType ==
    /\ post = [d \in Decisions |-> post[d]]
    /\ \A d \in Decisions : post[d] \in [Attempts(d) -> Stage]

\* The attempt in flight is of the request that began it, until it is over.
SlotOK ==
    \A d \in Decisions : \A n \in Attempts(d) :
        post[d][n] \in {"begun", "finishing"} => slot[d] = n

\* A receipt is posted once; before it arrives there is no outcome, and while its
\* outcome is opened there is a case.
ReceiptOK ==
    \A d \in Decisions :
        /\ executed[d] = "no" => post[d][0] = "unsent"
        /\ post[d][0] \in {"unsent", "wire"} => outcome[d] = None /\ concluded[d] = "open"
        /\ post[d][0] = "opening" => case[d] # "none"

\* The history agrees with the outcomes that are still known.
ConcludedOK ==
    \A d \in Decisions :
        /\ outcome[d] = "pending" => concluded[d] = "open"
        /\ outcome[d] \in Verdicts => concluded[d] # "open"

OutcomeInv == OutcomeType /\ PostType /\ SlotOK /\ ReceiptOK /\ ConcludedOK

(* Revisions *)

Successors == {v.new : v \in revisions}
Made == Roots \cup Successors

RevisionType ==
    /\ revisions \in SUBSET Revision
    /\ minted \in SUBSET Decisions
    /\ reopen \in [Reopens -> Reopen \cup {None}]
    /\ queue \in Seq(Reopens)

\* Each row has a decision of its own, and the rows of a root are numbered.
RowsOK ==
    /\ IsFiniteSet(revisions)
    /\ Cardinality(Successors) = Cardinality(revisions)
    /\ Successors \cap Roots = {}
    /\ Made \subseteq minted
    /\ \A root \in Roots : \A u, v \in Chain(root) : u.index = v.index => u = v
    /\ \A root \in Roots : \A v \in Chain(root) : v.index \in 1 .. Cardinality(Chain(root))
    /\ \A root \in Roots : \A i \in 1 .. Cardinality(Chain(root)) :
           \E v \in Chain(root) : v.index = i

\* A plan belongs to a decision there is, a ready one to a root or a revision.
PlanOK ==
    \A d \in Decisions :
        /\ plan[d] # "none" => d \in minted
        /\ plan[d] = "ready" \/ case[d] # "none" => d \in Made

\* What the locals of a reopen are good for after its awaits.
LocalsOK ==
    \A c \in Reopens : reopen[c] # None =>
        /\ reopen[c].parent \in Made
        /\ concluded[reopen[c].parent] # "open"
        /\ IF reopen[c].at = "lookup" THEN reopen[c].root = reopen[c].parent
                                       ELSE reopen[c].root \in Roots

\* The decision of a reopen that is about to commit is nobody else's, and its
\* plan is not approved.
CommitOK ==
    \A c \in Reopens : At(c, "commit") =>
        /\ reopen[c].new \in minted \ Made
        /\ plan[reopen[c].new] # "ready"
        /\ ~reopen[c].decide => plan[reopen[c].new] \in {"none"}
        /\ \A b \in Reopens : At(b, "commit") /\ reopen[b].new = reopen[c].new => b = c

\* The queue is the reopens about to commit.
QueueOK ==
    /\ \A c \in Reopens : At(c, "commit") => \E i \in DOMAIN queue : queue[i] = c
    /\ \A i \in DOMAIN queue : At(queue[i], "commit")
    /\ \A i, j \in DOMAIN queue : queue[i] = queue[j] => i = j

RevisionInv ==
    RevisionType /\ RowsOK /\ PlanOK /\ LocalsOK /\ CommitOK /\ QueueOK /\ NoOrphanPlan

IInv == OutcomeInv /\ RevisionInv
-----------------------------------------------------------------------------
USE OutcomeAssumption, NoneIsNoStatus, RevisionAssumption

(* Verification *)

LEMMA AttemptsAreNumbers ==
    ASSUME NEW d \in Decisions
    PROVE  /\ 0 \in Attempts(d) /\ Attempts(d) \subseteq Nat /\ Attempts(d) \subseteq Attempt
           /\ Observations(d) \subseteq Attempts(d) /\ 0 \notin Observations(d)
<1>1. Observations(d) \subseteq Nat /\ 0 \notin Observations(d)
  BY DEF Observations
<1> QED  BY <1>1 DEF Attempts, Attempt

\* A post moves one stage and no other post does.
LEMMA GoesOnce ==
    ASSUME PostType, NEW d \in Decisions, NEW n \in Attempts(d), NEW stage \in Stage,
           Goes(d, n, stage)
    PROVE  /\ PostType'
           /\ post'[d][n] = stage
           /\ \A e \in Decisions : \A m \in Attempts(e) :
                 e # d \/ m # n => post'[e][m] = post[e][m]
<1>1. /\ post = [e \in Decisions |-> post[e]]
      /\ \A e \in Decisions : post[e] \in [Attempts(e) -> Stage]
  BY DEF PostType
<1>2. post' = [e \in Decisions |-> IF e = d THEN [post[d] EXCEPT ![n] = stage] ELSE post[e]]
  BY <1>1 DEF Goes
<1>3. [post[d] EXCEPT ![n] = stage] \in [Attempts(d) -> Stage]
  BY <1>1
<1>4. \A e \in Decisions : post'[e] = IF e = d THEN [post[d] EXCEPT ![n] = stage] ELSE post[e]
  BY <1>2
<1>5. post' = [e \in Decisions |-> post'[e]]
  BY <1>2, <1>4
<1>6. \A e \in Decisions : post'[e] \in [Attempts(e) -> Stage]
  BY <1>1, <1>3, <1>4
<1>7. post'[d][n] = stage
  BY <1>1, <1>4
<1>8. \A e \in Decisions : \A m \in Attempts(e) :
          e # d \/ m # n => post'[e][m] = post[e][m]
  BY <1>1, <1>4
<1> QED  BY <1>5, <1>6, <1>7, <1>8 DEF PostType

LEMMA InitOutcomeInv == OutcomeInit => OutcomeInv
<1> SUFFICES ASSUME OutcomeInit PROVE OutcomeInv
  OBVIOUS
<1>1. OutcomeType
  BY DEF OutcomeInit, OutcomeType, PlanState
<1>2. \A d \in Decisions : post[d] = [n \in Attempts(d) |-> "unsent"]
  BY DEF OutcomeInit
<1>3. post = [d \in Decisions |-> post[d]]
  BY DEF OutcomeInit
<1>4. \A d \in Decisions : post[d] \in [Attempts(d) -> Stage]
  BY <1>2 DEF Stage
<1>5. \A d \in Decisions : \A n \in Attempts(d) : post[d][n] = "unsent"
  BY <1>2
<1>6. \A d \in Decisions : post[d][0] = "unsent" /\ outcome[d] = None /\ concluded[d] = "open"
  BY <1>5, AttemptsAreNumbers DEF OutcomeInit
<1>7. ConcludedOK
  BY <1>6 DEF ConcludedOK, VerificationStatus
<1> QED
  BY <1>1, <1>3, <1>4, <1>5, <1>6, <1>7 DEF OutcomeInv, PostType, SlotOK, ReceiptOK

\* What a post may do without anything but its own stage, and where it may go.
LEMMA QuietPost ==
    ASSUME OutcomeInv, NEW d \in Decisions, NEW n \in Attempts(d), NEW stage \in Stage,
           Goes(d, n, stage), stage \notin {"begun", "finishing", "opening"},
           n = 0 => stage \notin {"unsent", "wire"} \/ post[d][0] = "unsent",
           n = 0 => executed'[d] # "no" \/ post[d][0] # "unsent",
           executed' \in [Decisions -> {"no", "not_started", "effect"}],
           \A e \in Decisions : executed'[e] = "no" => executed[e] = "no",
           UNCHANGED <<plan, runtimeVars, restarts>>
    PROVE  OutcomeInv'
<1> USE AttemptsAreNumbers DEF OutcomeInv
<1>1. /\ PostType' /\ post'[d][n] = stage
      /\ \A e \in Decisions : \A m \in Attempts(e) :
            e # d \/ m # n => post'[e][m] = post[e][m]
  BY GoesOnce
<1>2. OutcomeType' /\ ConcludedOK'
  BY DEF OutcomeType, ConcludedOK, runtimeVars
<1>3. SlotOK'
  BY <1>1 DEF SlotOK, runtimeVars
<1>4. ReceiptOK'
  BY <1>1 DEF ReceiptOK, runtimeVars
<1> QED  BY <1>1, <1>2, <1>3, <1>4

LEMMA ExecuteKeeps ==
    ASSUME OutcomeInv, NEW d \in Decisions, ExecuteReadyPlan(d)
    PROVE  OutcomeInv'
<1>1. executed \in [Decisions -> {"no", "not_started", "effect"}] /\ executed[d] = "no"
  BY DEF OutcomeInv, OutcomeType, ExecuteReadyPlan
<1>2. PICK state \in {"not_started", "effect"} : executed' = [executed EXCEPT ![d] = state]
  BY DEF ExecuteReadyPlan
<1>3. /\ executed' \in [Decisions -> {"no", "not_started", "effect"}]
      /\ executed'[d] # "no"
      /\ \A e \in Decisions : executed'[e] = "no" => executed[e] = "no"
  BY <1>1, <1>2
<1>4. PICK stage \in {"wire", "over"} : Goes(d, 0, stage)
  BY DEF ExecuteReadyPlan, Sends
<1>5. post[d][0] = "unsent" /\ stage \in Stage /\ stage \notin {"begun", "finishing", "opening"}
  BY <1>1 DEF OutcomeInv, ReceiptOK, Stage
<1>6. UNCHANGED <<plan, runtimeVars, restarts>>
  BY DEF ExecuteReadyPlan
<1> QED  BY <1>3, <1>4, <1>5, <1>6, AttemptsAreNumbers, QuietPost

LEMMA ObservationKeeps ==
    ASSUME OutcomeInv, NEW d \in Decisions, NEW n \in Observations(d),
           VerifyPendingPlan(d, n) \/ ReceiveObservation(d, n)
    PROVE  OutcomeInv'
<1>1. n \in Attempts(d) /\ n # 0
  BY AttemptsAreNumbers
<1>2. PICK stage \in {"wire", "over", "parsing"} : Goes(d, n, stage)
  BY DEF VerifyPendingPlan, ReceiveObservation, Sends
<1>3. UNCHANGED <<plan, executed, runtimeVars, restarts>>
  BY DEF VerifyPendingPlan, ReceiveObservation
<1>4. executed' \in [Decisions -> {"no", "not_started", "effect"}]
  BY <1>3 DEF OutcomeInv, OutcomeType
<1>5. stage \in Stage /\ stage \notin {"begun", "finishing", "opening"}
  BY DEF Stage
<1> QED  BY <1>1, <1>2, <1>3, <1>4, <1>5, QuietPost

LEMMA RegisterKeeps ==
    ASSUME OutcomeInv, NEW d \in Decisions, RegisterNativeReceipt(d)
    PROVE  OutcomeInv'
<1> USE AttemptsAreNumbers DEF OutcomeInv
<1>1. CASE plan[d] = "ready" /\ case[d] = "none"
  <2>1. /\ case' = [case EXCEPT ![d] = "registered"]
        /\ outcome' = [outcome EXCEPT ![d] = InitialStatus(d)]
        /\ Goes(d, 0, "opening") /\ post[d][0] = "wire"
        /\ UNCHANGED <<plan, executed, slot, concluded, restarts>>
    BY <1>1 DEF RegisterNativeReceipt
  <2>2. InitialStatus(d) \in {"pending", "not_required"}
    BY DEF InitialStatus
  <2>3. /\ PostType' /\ post'[d][0] = "opening"
        /\ \A e \in Decisions : \A m \in Attempts(e) :
              e # d \/ m # 0 => post'[e][m] = post[e][m]
    BY <2>1, GoesOnce DEF Stage
  <2>4. OutcomeType'
    BY <2>1, <2>2 DEF OutcomeType, VerificationStatus
  <2>5. SlotOK' /\ ReceiptOK'
    BY <2>1, <2>3 DEF SlotOK, ReceiptOK, OutcomeType
  <2>6. concluded[d] = "open"
    BY <2>1 DEF ReceiptOK
  <2>7. ConcludedOK'
    BY <2>1, <2>2, <2>6 DEF ConcludedOK, OutcomeType, Verdicts
  <2> QED  BY <2>3, <2>4, <2>5, <2>7
<1>2. CASE ~(plan[d] = "ready" /\ case[d] = "none")
  <2>1. /\ Goes(d, 0, "over") /\ post[d][0] = "wire"
        /\ UNCHANGED <<plan, executed, runtimeVars, restarts>>
    BY <1>2 DEF RegisterNativeReceipt, runtimeVars
  <2>2. executed' \in [Decisions -> {"no", "not_started", "effect"}]
    BY <2>1 DEF OutcomeType
  <2> QED  BY <2>1, <2>2, QuietPost DEF Stage
<1> QED  BY <1>1, <1>2

LEMMA LinkKeeps ==
    ASSUME OutcomeInv, NEW d \in Decisions, LinkOutcome(d)
    PROVE  OutcomeInv'
<1> USE AttemptsAreNumbers DEF OutcomeInv
<1>1. /\ case' = [case EXCEPT ![d] = "linked"] /\ Goes(d, 0, "over") /\ post[d][0] = "opening"
      /\ UNCHANGED <<plan, executed, outcome, slot, concluded, restarts>>
  BY DEF LinkOutcome
<1>2. /\ PostType' /\ post'[d][0] = "over"
      /\ \A e \in Decisions : \A m \in Attempts(e) :
            e # d \/ m # 0 => post'[e][m] = post[e][m]
  BY <1>1, GoesOnce DEF Stage
<1>3. OutcomeType' /\ ConcludedOK'
  BY <1>1 DEF OutcomeType, ConcludedOK
<1>4. SlotOK' /\ ReceiptOK'
  BY <1>1, <1>2 DEF SlotOK, ReceiptOK
<1> QED  BY <1>2, <1>3, <1>4

LEMMA BeginKeeps ==
    ASSUME OutcomeInv, NEW d \in Decisions, NEW n \in Observations(d), BeginAttempt(d, n)
    PROVE  OutcomeInv'
<1> USE AttemptsAreNumbers DEF OutcomeInv
<1>0. n \in Attempts(d) /\ n \in Attempt /\ n # 0
  OBVIOUS
<1>1. CASE /\ CanBegin(d) /\ slot' = [slot EXCEPT ![d] = n] /\ Goes(d, n, "begun")
           /\ UNCHANGED <<plan, executed, case, outcome, concluded, restarts>>
  <2>1. /\ PostType' /\ post'[d][n] = "begun"
        /\ \A e \in Decisions : \A m \in Attempts(e) :
              e # d \/ m # n => post'[e][m] = post[e][m]
    BY <1>0, <1>1, GoesOnce DEF Stage
  <2>2. OutcomeType' /\ ConcludedOK'
    BY <1>0, <1>1 DEF OutcomeType, ConcludedOK
  <2>3. slot[d] = None /\ slot'[d] = n /\ \A e \in Decisions : e # d => slot'[e] = slot[e]
    BY <1>1 DEF CanBegin, OutcomeType
  <2>4. \A m \in Attempts(d) : post[d][m] \notin {"begun", "finishing"}
    BY <2>3 DEF SlotOK
  <2>5. SlotOK'
    BY <2>1, <2>3, <2>4 DEF SlotOK
  <2>6. ReceiptOK'
    BY <1>0, <1>1, <2>1 DEF ReceiptOK
  <2> QED  BY <2>1, <2>2, <2>5, <2>6
<1>2. CASE /\ Goes(d, n, "over")
           /\ UNCHANGED <<plan, executed, runtimeVars, restarts>>
  <2>1. executed' \in [Decisions -> {"no", "not_started", "effect"}]
    BY <1>2 DEF OutcomeType
  <2> QED  BY <1>0, <1>2, <2>1, QuietPost DEF Stage
<1> QED  BY <1>1, <1>2 DEF BeginAttempt, runtimeVars

\* When an attempt ends, no other one is under way.
LEMMA ReleaseKeeps ==
    ASSUME OutcomeInv, NEW d \in Decisions, NEW n \in Observations(d), Release(d),
           Goes(d, n, "over"), post[d][n] \in {"begun", "finishing"},
           UNCHANGED <<plan, executed, case, outcome, concluded, restarts>>
    PROVE  OutcomeInv'
<1> USE AttemptsAreNumbers DEF OutcomeInv
<1>0. n \in Attempts(d) /\ n # 0
  OBVIOUS
<1>1. /\ PostType' /\ post'[d][n] = "over"
      /\ \A e \in Decisions : \A m \in Attempts(e) :
            e # d \/ m # n => post'[e][m] = post[e][m]
  BY <1>0, GoesOnce DEF Stage
<1>2. slot' = [slot EXCEPT ![d] = None] /\ slot[d] = n
  BY <1>0 DEF Release, SlotOK
<1>3. OutcomeType' /\ ConcludedOK'
  BY <1>2 DEF OutcomeType, ConcludedOK
<1>4. \A m \in Attempts(d) : m # n => post[d][m] \notin {"begun", "finishing"}
  BY <1>2 DEF SlotOK
<1>5. SlotOK'
  BY <1>1, <1>2, <1>4 DEF SlotOK, OutcomeType
<1>6. ReceiptOK'
  BY <1>0, <1>1 DEF ReceiptOK
<1> QED  BY <1>1, <1>3, <1>5, <1>6

LEMMA CompleteKeeps ==
    ASSUME OutcomeInv, NEW d \in Decisions, NEW n \in Observations(d), CompleteAttempt(d, n)
    PROVE  OutcomeInv'
<1> USE AttemptsAreNumbers DEF OutcomeInv
<1>0. n \in Attempts(d) /\ n # 0 /\ post[d][n] = "begun"
  BY DEF CompleteAttempt
<1>1. ASSUME NEW verdict \in Conclusions,
             /\ slot[d] = n /\ outcome[d] = "pending"
             /\ outcome' = [outcome EXCEPT ![d] = verdict]
             /\ concluded' = [concluded EXCEPT ![d] = verdict]
             /\ Goes(d, n, "finishing")
             /\ UNCHANGED <<slot, plan, executed, case, restarts>>
      PROVE  OutcomeInv'
  <2>1. /\ PostType' /\ post'[d][n] = "finishing"
        /\ \A e \in Decisions : \A m \in Attempts(e) :
              e # d \/ m # n => post'[e][m] = post[e][m]
    BY <1>0, <1>1, GoesOnce DEF Stage
  <2>2. verdict \in Verdicts
    BY DEF Verdicts
  <2>3. OutcomeType'
    BY <1>1, <2>2 DEF OutcomeType, VerificationStatus
  <2>4. ConcludedOK'
    BY <1>1, <2>2 DEF ConcludedOK, OutcomeType, Verdicts
  <2>5. SlotOK'
    BY <1>0, <1>1, <2>1 DEF SlotOK
  <2>6. post[d][0] \notin {"unsent", "wire"}
    BY <1>1 DEF ReceiptOK, VerificationStatus
  <2>7. ReceiptOK'
    BY <1>0, <1>1, <2>1, <2>6 DEF ReceiptOK, OutcomeType
  <2> QED  BY <2>1, <2>3, <2>4, <2>5, <2>7
<1>2. CASE /\ Release(d) /\ Goes(d, n, "over")
           /\ UNCHANGED <<plan, executed, case, outcome, concluded, restarts>>
  BY <1>0, <1>2, ReleaseKeeps
<1> QED  BY <1>1, <1>2 DEF CompleteAttempt

LEMMA VerifyPlanKeeps ==
    ASSUME OutcomeInv, NEW d \in Decisions, VerifyPlan(d)
    PROVE  OutcomeInv'
<1> USE AttemptsAreNumbers DEF OutcomeInv, VerifyPlan
<1>1. slot[d] = None
  BY DEF CanBegin
<1>2. OutcomeType' /\ PostType' /\ ConcludedOK' /\ ReceiptOK'
  BY DEF OutcomeType, PostType, ConcludedOK, ReceiptOK
<1>3. \A m \in Attempts(d) : post[d][m] \notin {"begun", "finishing"}
  BY <1>1 DEF SlotOK
<1>4. SlotOK'
  BY <1>3 DEF SlotOK, OutcomeType
<1> QED  BY <1>2, <1>4

LEMMA ForgetKeeps ==
    ASSUME OutcomeInv, ForgetRuntime
    PROVE  OutcomeInv'
<1> USE AttemptsAreNumbers DEF OutcomeInv, ForgetRuntime
<1>1. \A d \in Decisions : \A n \in Attempts(d) :
          post'[d][n] = IF post[d][n] \in {"unsent", "wire"} THEN post[d][n] ELSE "over"
  OBVIOUS
<1>2. PostType'
  <2>1. post' = [d \in Decisions |-> post'[d]]
    OBVIOUS
  <2>2. \A d \in Decisions : post'[d] = [n \in Attempts(d) |->
            IF post[d][n] \in {"unsent", "wire"} THEN post[d][n] ELSE "over"]
    OBVIOUS
  <2>3. \A d \in Decisions : post'[d] \in [Attempts(d) -> Stage]
    BY <2>2 DEF PostType, Stage
  <2> QED  BY <2>1, <2>3 DEF PostType
<1>3. OutcomeType'
  BY DEF OutcomeType, PlanState
<1>4. SlotOK' /\ ReceiptOK'
  BY <1>1 DEF SlotOK, ReceiptOK
<1>5. ConcludedOK'
  BY DEF ConcludedOK, VerificationStatus
<1> QED  BY <1>2, <1>3, <1>4, <1>5

\* What a step of the revisions is to the verification.
PlanMove ==
    /\ plan' \in [Decisions -> PlanState]
    /\ UNCHANGED <<executed, post, runtimeVars, restarts>>

LEMMA PlanMoveKeeps ==
    ASSUME OutcomeInv, PlanMove
    PROVE  OutcomeInv'
  BY DEF OutcomeInv, PlanMove, OutcomeType, PostType, SlotOK, ReceiptOK, ConcludedOK, runtimeVars

LEMMA OutcomeStep ==
    ASSUME OutcomeInv, OutcomeNext \/ ForgetRuntime \/ PlanMove
    PROVE  OutcomeInv'
<1>1. ASSUME NEW d \in Decisions, Block(d) PROVE OutcomeInv'
  <2>1. plan' \in [Decisions -> PlanState]
    BY <1>1 DEF Block, OutcomeInv, OutcomeType, PlanState
  <2> QED  BY <1>1, <2>1, PlanMoveKeeps DEF Block, PlanMove
<1>2. ASSUME NEW d \in Decisions, NEW n \in Observations(d), ClearSlot(d, n) PROVE OutcomeInv'
  BY <1>2, ReleaseKeeps DEF ClearSlot
<1>3. ASSUME NEW d \in Decisions, NEW n \in Attempts(d), Handle(d, n) PROVE OutcomeInv'
  <2>1. CASE n = 0
    BY <1>3, <2>1, LinkKeeps DEF Handle
  <2>2. CASE n # 0
    <3>1. n \in Observations(d)
      BY <2>2 DEF Attempts
    <3> QED  BY <1>2, <1>3, <2>2, <3>1, BeginKeeps, CompleteKeeps DEF Handle
  <2> QED  BY <2>1, <2>2
<1> QED
  BY <1>1, <1>3, ExecuteKeeps, RegisterKeeps, VerifyPlanKeeps, ObservationKeeps, ForgetKeeps,
     PlanMoveKeeps DEF OutcomeNext

\* A decision is concluded once: only a pending outcome gets a verdict.
LEMMA VerdictStep ==
    ASSUME OutcomeInv, OutcomeNext
    PROVE  \/ concluded' = concluded
           \/ \E d \in Decisions : /\ concluded[d] = "open"
                                   /\ \E v \in Verdicts : concluded' = [concluded EXCEPT ![d] = v]
<1>1. ASSUME NEW d \in Decisions, NEW n \in Attempts(d), CompleteAttempt(d, n)
      PROVE  \/ concluded' = concluded
             \/ /\ concluded[d] = "open"
                /\ \E v \in Verdicts : concluded' = [concluded EXCEPT ![d] = v]
  BY <1>1 DEF CompleteAttempt, OutcomeInv, ConcludedOK, Verdicts
<1>2. ASSUME NEW d \in Decisions, NEW n \in Attempts(d), Handle(d, n)
      PROVE  concluded' = concluded \/ CompleteAttempt(d, n)
  BY <1>2 DEF Handle, LinkOutcome, BeginAttempt, ClearSlot
<1>3. ASSUME NEW d \in Decisions, NEW n \in Observations(d),
             VerifyPendingPlan(d, n) \/ ReceiveObservation(d, n)
      PROVE  concluded' = concluded
  BY <1>3 DEF VerifyPendingPlan, ReceiveObservation, runtimeVars
<1>4. ASSUME NEW d \in Decisions,
             Block(d) \/ ExecuteReadyPlan(d) \/ RegisterNativeReceipt(d) \/ VerifyPlan(d)
      PROVE  concluded' = concluded
  BY <1>4 DEF Block, ExecuteReadyPlan, RegisterNativeReceipt, VerifyPlan, runtimeVars
<1> QED  BY <1>1, <1>2, <1>3, <1>4 DEF OutcomeNext

LEMMA ConcludedStays ==
    ASSUME OutcomeInv, OutcomeNext, NEW d \in Decisions, concluded[d] # "open"
    PROVE  concluded'[d] # "open"
<1>1. "open" \notin Verdicts /\ concluded \in [Decisions -> Verdicts \cup {"open"}]
  BY DEF Verdicts, OutcomeInv, OutcomeType
<1> QED  BY <1>1, VerdictStep

\* What verification does to the plans and cases.
LEMMA VerificationMoves ==
    ASSUME OutcomeInv, OutcomeNext, NEW d \in Decisions
    PROVE  /\ plan'[d] = plan[d] \/ (plan[d] \in {"awaiting", "ready"} /\ plan'[d] = "blocked")
           /\ case'[d] # "none" => case[d] # "none" \/ plan[d] = "ready"
<1>0. plan \in [Decisions -> PlanState] /\ case \in [Decisions -> {"none", "registered", "linked"}]
  BY DEF OutcomeInv, OutcomeType
<1> DEFINE Goal == /\ plan'[d] = plan[d] \/ (plan[d] \in {"awaiting", "ready"} /\ plan'[d] = "blocked")
                   /\ case'[d] # "none" => case[d] # "none" \/ plan[d] = "ready"
<1>1. ASSUME NEW e \in Decisions, Block(e) PROVE Goal
  BY <1>0, <1>1 DEF Block, runtimeVars
<1>2. ASSUME NEW e \in Decisions, ExecuteReadyPlan(e) \/ VerifyPlan(e) PROVE Goal
  BY <1>2 DEF ExecuteReadyPlan, VerifyPlan, runtimeVars
<1>3. ASSUME NEW e \in Decisions, RegisterNativeReceipt(e) PROVE Goal
  BY <1>0, <1>3 DEF RegisterNativeReceipt
<1>4. ASSUME NEW e \in Decisions, NEW n \in Observations(e),
             VerifyPendingPlan(e, n) \/ ReceiveObservation(e, n)
      PROVE  Goal
  BY <1>4 DEF VerifyPendingPlan, ReceiveObservation, runtimeVars
<1>5. ASSUME NEW e \in Decisions, NEW n \in Attempts(e), Handle(e, n) PROVE Goal
  <2>1. CASE LinkOutcome(e)
    <3>1. plan' = plan /\ case' = [case EXCEPT ![e] = "linked"] /\ post[e][0] = "opening"
      BY <2>1 DEF LinkOutcome
    <3>2. case[e] # "none"
      BY <3>1 DEF OutcomeInv, ReceiptOK
    <3> QED  BY <1>0, <3>1, <3>2
  <2>2. CASE BeginAttempt(e, n) \/ CompleteAttempt(e, n) \/ ClearSlot(e, n)
    BY <2>2 DEF BeginAttempt, CompleteAttempt, ClearSlot
  <2> QED  BY <1>5, <2>1, <2>2 DEF Handle
<1> QED  BY <1>1, <1>2, <1>3, <1>4, <1>5 DEF OutcomeNext

-----------------------------------------------------------------------------
(* Revisions: the steps that leave the rows alone *)

LEMMA InitRevisionInv == Init => RevisionInv
<1> SUFFICES ASSUME Init PROVE RevisionInv
  OBVIOUS
<1>1. RevisionType
  BY DEF Init, RevisionType
<1>2. Successors = {} /\ \A root \in Roots : Chain(root) = {}
  BY DEF Init, Successors, Chain
<1>3. RowsOK
  <2>1. Cardinality({}) = 0 /\ IsFiniteSet({}) /\ 1 .. 0 = {}
    BY FS_EmptySet
  <2>2. revisions = {} /\ minted = Roots /\ Made = Roots
    BY <1>2 DEF Init, Made
  <2> QED  BY <1>2, <2>1, <2>2 DEF RowsOK
<1>4. PlanOK
  BY DEF Init, OutcomeInit, PlanOK, Made
<1>5. LocalsOK /\ CommitOK /\ QueueOK /\ NoOrphanPlan
  BY DEF Init, OutcomeInit, LocalsOK, CommitOK, QueueOK, NoOrphanPlan, At
<1> QED  BY <1>1, <1>3, <1>4, <1>5 DEF RevisionInv

LEMMA SameRows ==
    ASSUME RevisionInv, revisions' = revisions
    PROVE  /\ Made' = Made /\ Successors' = Successors
           /\ \A root \in Roots : Chain(root)' = Chain(root)
           /\ minted \subseteq minted' => RowsOK'
<1>1. Successors' = Successors /\ \A root \in Roots : Chain(root)' = Chain(root)
  BY DEF Successors, Chain
<1>2. Made' = Made
  BY <1>1 DEF Made
<1>3. minted \subseteq minted' => RowsOK'
  BY <1>1, <1>2 DEF RevisionInv, RowsOK
<1> QED  BY <1>1, <1>2, <1>3

\* No reopen is about to commit while statements are served.
LEMMA GateMeansNoCommit ==
    ASSUME RevisionInv, GateOpen, NEW c \in Reopens
    PROVE  ~At(c, "commit")
  BY DEF RevisionInv, QueueOK, GateOpen

LEMMA VerifyKeeps ==
    ASSUME IInv, Verify
    PROVE  RevisionInv'
<1>0. OutcomeInv /\ RevisionInv /\ OutcomeNext /\ UNCHANGED rvars
  BY DEF IInv, Verify
<1>1. /\ \A d \in Decisions : \/ plan'[d] = plan[d]
                              \/ plan[d] \in {"awaiting", "ready"} /\ plan'[d] = "blocked"
      /\ \A d \in Decisions : case'[d] # "none" => case[d] # "none" \/ plan[d] = "ready"
      /\ \A d \in Decisions : concluded[d] # "open" => concluded'[d] # "open"
  BY <1>0, VerificationMoves, ConcludedStays
<1>2. RevisionType' /\ RowsOK' /\ Made' = Made /\ Made \subseteq Decisions /\ Successors' = Successors
  BY <1>0, SameRows DEF rvars, RevisionInv, RevisionType, RowsOK
<1>3. PlanOK'
  BY <1>0, <1>1, <1>2 DEF rvars, RevisionInv, PlanOK
<1>4. LocalsOK'
  BY <1>0, <1>1, <1>2 DEF rvars, RevisionInv, LocalsOK
<1>5. CommitOK'
  BY <1>0, <1>1, <1>2 DEF rvars, RevisionInv, CommitOK, At, RevisionType
<1>6. QueueOK'
  BY <1>0 DEF rvars, RevisionInv, QueueOK, At
<1>7. NoOrphanPlan'
  BY <1>0, <1>1 DEF rvars, RevisionInv, NoOrphanPlan, At
<1> QED  BY <1>2, <1>3, <1>4, <1>5, <1>6, <1>7 DEF RevisionInv

LEMMA ApproveKeeps ==
    ASSUME IInv, NEW d \in Decisions, ApprovePlan(d)
    PROVE  RevisionInv' /\ PlanMove
<1>0. /\ OutcomeInv /\ RevisionInv /\ GateOpen /\ UNCHANGED rvars
      /\ plan[d] = "awaiting" /\ plan' = [plan EXCEPT ![d] = "ready"]
      /\ UNCHANGED <<executed, post, case, outcome, slot, concluded, restarts>>
      /\ plan \in [Decisions -> PlanState]
  BY DEF IInv, ApprovePlan, Approve, runtimeVars, OutcomeInv, OutcomeType
<1>1. PlanMove
  BY <1>0 DEF PlanMove, runtimeVars, PlanState
<1>2. RevisionType' /\ RowsOK' /\ Made' = Made /\ Successors' = Successors
  BY <1>0, SameRows DEF rvars, RevisionInv, RevisionType
<1>3. \A c \in Reopens : ~At(c, "commit") /\ ~At(c, "commit")'
  BY <1>0, GateMeansNoCommit DEF rvars, At
<1>4. d \in Made
  BY <1>0, <1>3 DEF RevisionInv, NoOrphanPlan, Made, Successors
<1>5. PlanOK'
  BY <1>0, <1>2, <1>4 DEF rvars, RevisionInv, PlanOK
<1>6. LocalsOK' /\ CommitOK'
  BY <1>0, <1>2, <1>3 DEF rvars, RevisionInv, LocalsOK, CommitOK
<1>7. QueueOK'
  BY <1>0 DEF rvars, RevisionInv, QueueOK, At
<1>8. NoOrphanPlan'
  BY <1>0, <1>3 DEF rvars, RevisionInv, NoOrphanPlan
<1> QED  BY <1>1, <1>2, <1>5, <1>6, <1>7, <1>8 DEF RevisionInv

\* A reopen that is not about to commit changes its locals, or is over.
LEMMA LocalKeeps ==
    ASSUME IInv, NEW c \in Reopens, NEW r \in Reopen \cup {None},
           ~At(c, "commit"), reopen' = [reopen EXCEPT ![c] = r],
           r # None => /\ r.at # "commit"
                       /\ r.parent \in Made /\ concluded[r.parent] # "open"
                       /\ IF r.at = "lookup" THEN r.root = r.parent ELSE r.root \in Roots,
           UNCHANGED <<ovars, revisions, minted, queue>>
    PROVE  RevisionInv' /\ PlanMove
<1>0. /\ RevisionInv /\ reopen \in [Reopens -> Reopen \cup {None}]
      /\ UNCHANGED <<plan, executed, post, case, outcome, slot, concluded, restarts>>
  BY DEF IInv, RevisionInv, RevisionType, ovars, runtimeVars
<1>1. RevisionType' /\ RowsOK' /\ Made' = Made /\ Successors' = Successors
  BY <1>0, SameRows DEF RevisionInv, RevisionType
<1>2. PlanOK'
  BY <1>0, <1>1 DEF RevisionInv, PlanOK
<1>3. LocalsOK'
  BY <1>0, <1>1 DEF RevisionInv, LocalsOK
<1>4. \A b \in Reopens : /\ At(b, "commit")' <=> At(b, "commit")
                         /\ At(b, "commit") => reopen'[b] = reopen[b]
  BY <1>0 DEF At
<1>5. CommitOK'
  BY <1>0, <1>1, <1>4 DEF RevisionInv, CommitOK
<1>6. QueueOK'
  BY <1>0, <1>4, ElementOfSeq DEF RevisionInv, QueueOK, RevisionType
<1>7. NoOrphanPlan'
  BY <1>0, <1>4 DEF RevisionInv, NoOrphanPlan
<1>8. PlanMove
  BY <1>0 DEF PlanMove, IInv, OutcomeInv, OutcomeType, runtimeVars
<1> QED  BY <1>1, <1>2, <1>3, <1>5, <1>6, <1>7, <1>8 DEF RevisionInv

\* Every row made a decision, so a chain is no longer than there are decisions.
LEMMA RowsAreFew ==
    ASSUME RevisionType, RowsOK, NEW root \in Roots
    PROVE  /\ IsFiniteSet(Chain(root)) /\ Cardinality(Chain(root)) \in Nat
           /\ Cardinality(Chain(root)) <= Cardinality(revisions)
           /\ Cardinality(revisions) \in Nat /\ Cardinality(Decisions) \in Nat
           /\ Cardinality(revisions) <= Cardinality(Decisions)
<1>1. Chain(root) \in SUBSET revisions /\ IsFiniteSet(revisions)
  BY DEF Chain, RowsOK
<1>2. /\ IsFiniteSet(Chain(root)) /\ Cardinality(Chain(root)) <= Cardinality(revisions)
  BY <1>1, FS_Subset
<1>3. Successors \in SUBSET Decisions
  BY DEF RevisionType, Revision, Successors
<1>4. IsFiniteSet(Successors) /\ Cardinality(Successors) <= Cardinality(Decisions)
  BY <1>3, FS_Subset
<1>5. /\ Cardinality(Chain(root)) \in Nat /\ Cardinality(revisions) \in Nat
      /\ Cardinality(Decisions) \in Nat
  BY <1>1, <1>2, FS_CardinalityType
<1> QED  BY <1>2, <1>4, <1>5 DEF RowsOK

LEMMA StartKeeps ==
    ASSUME IInv, NEW c \in Reopens, NEW d \in Decisions, NEW reason \in Reasons[c],
           StartReopen(c, d, reason)
    PROVE  RevisionInv' /\ PlanMove
<1> DEFINE r == [at |-> "lookup", parent |-> d, reason |-> reason, root |-> d,
                 index |-> 0, new |-> None, decide |-> FALSE]
<1>1. /\ reopen[c] = None /\ case[d] = "linked" /\ outcome[d] \in Verdicts
      /\ reopen' = [reopen EXCEPT ![c] = r]
      /\ UNCHANGED <<ovars, revisions, minted, queue>>
  BY DEF StartReopen, Verdicts
<1>2. d \in Made /\ concluded[d] # "open"
  BY <1>1 DEF IInv, OutcomeInv, ConcludedOK, RevisionInv, PlanOK
<1>3. reason \in Reason
  BY DEF Reason
<1>4. r \in Reopen
  <2>1. Cardinality(Decisions) \in Nat
    BY FS_CardinalityType
  <2> QED  BY <1>3, <2>1 DEF Reopen
<1>5. ~At(c, "commit")
  BY <1>1 DEF At
<1>6. r.at = "lookup" /\ r.parent = d /\ r.root = d
  OBVIOUS
<1> HIDE DEF r
<1> QED  BY <1>1, <1>2, <1>4, <1>5, <1>6, LocalKeeps

LEMMA ReadIntentKeeps ==
    ASSUME IInv, NEW c \in Reopens, ReadIntent(c)
    PROVE  RevisionInv' /\ PlanMove
<1>0. /\ RevisionInv /\ reopen[c] \in Reopen /\ reopen[c].at = "lookup"
      /\ reopen[c].parent \in Made /\ concluded[reopen[c].parent] # "open"
      /\ reopen[c].root = reopen[c].parent
      /\ ~At(c, "commit") /\ UNCHANGED <<ovars, revisions, minted, queue>>
  BY DEF IInv, RevisionInv, RevisionType, LocalsOK, ReadIntent, At
<1> DEFINE made == {v \in revisions : v.new = reopen[c].parent}
           root == IF made = {} THEN reopen[c].root ELSE (CHOOSE v \in made : TRUE).root
           r == [reopen[c] EXCEPT !.at = "chain", !.root = root]
<1>1. root \in Roots
  <2>1. CASE made = {}
    BY <1>0, <2>1 DEF Made, Successors
  <2>2. CASE made # {}
    <3>1. (CHOOSE v \in made : TRUE) \in Revision
      BY <1>0, <2>2 DEF RevisionInv, RevisionType
    <3> QED  BY <2>2, <3>1 DEF Revision
  <2> QED  BY <2>1, <2>2
<1>2. reopen' = [reopen EXCEPT ![c] = None] \/ reopen' = [reopen EXCEPT ![c] = r]
  BY <1>0 DEF ReadIntent
<1>3. Roots \subseteq Decisions
  OBVIOUS
<1> HIDE DEF root
<1>4. r \in Reopen /\ r.at = "chain" /\ r.parent = reopen[c].parent /\ r.root = root
  BY <1>0, <1>1, <1>3 DEF Reopen
<1> HIDE DEF r
<1> QED  BY <1>0, <1>1, <1>2, <1>4, LocalKeeps

LEMMA ReadChainKeeps ==
    ASSUME IInv, NEW c \in Reopens, ReadChain(c)
    PROVE  RevisionInv' /\ PlanMove
<1>0. /\ RevisionInv /\ reopen[c] \in Reopen /\ reopen[c].at = "chain"
      /\ reopen[c].parent \in Made /\ concluded[reopen[c].parent] # "open"
      /\ reopen[c].root \in Roots
      /\ ~At(c, "commit") /\ UNCHANGED <<ovars, revisions, minted, queue>>
  BY DEF IInv, RevisionInv, RevisionType, LocalsOK, ReadChain, At
<1> DEFINE index == Cardinality(Chain(reopen[c].root)) + 1
           r == [reopen[c] EXCEPT !.at = "evidence", !.index = index]
<1>1. index \in 0 .. Cardinality(Decisions) + 1
  BY <1>0, RowsAreFew DEF RevisionInv
<1>2. reopen' = [reopen EXCEPT ![c] = None] \/ reopen' = [reopen EXCEPT ![c] = r]
  BY <1>0 DEF ReadChain
<1> HIDE DEF index
<1>4. r \in Reopen /\ r.at = "evidence" /\ r.parent = reopen[c].parent /\ r.root = reopen[c].root
  BY <1>0, <1>1 DEF Reopen
<1> HIDE DEF r
<1> QED  BY <1>0, <1>1, <1>2, <1>4, LocalKeeps

\* The plan of a fresh decision.
LEMMA PreparedKeeps ==
    ASSUME IInv, NEW c \in Reopens, NEW decide \in BOOLEAN, NEW new,
           new = FreshDecision, minted # Decisions,
           At(c, "evidence"),
           minted' = minted \cup {new},
           plan' = IF decide THEN [plan EXCEPT ![new] = "awaiting"] ELSE plan,
           reopen' = [reopen EXCEPT ![c].at = "commit", ![c].new = new, ![c].decide = decide],
           queue' = Append(queue, c),
           UNCHANGED <<executed, post, runtimeVars, restarts, revisions>>
    PROVE  RevisionInv' /\ PlanMove
<1>0. /\ RevisionInv /\ RevisionType /\ RowsOK /\ reopen[c] \in Reopen /\ reopen[c].at = "evidence"
      /\ plan \in [Decisions -> PlanState]
      /\ UNCHANGED <<executed, post, case, outcome, slot, concluded, restarts>>
  BY DEF IInv, RevisionInv, RevisionType, OutcomeInv, OutcomeType, At, runtimeVars
<1>1. new \in Decisions \ minted
  BY <1>0 DEF FreshDecision, RevisionType
<1>2. new \notin Made /\ plan[new] = "none"
  BY <1>0, <1>1 DEF RowsOK, RevisionInv, PlanOK
<1>3. PlanMove
  BY <1>0, <1>1 DEF PlanMove, PlanState, runtimeVars
<1> DEFINE r == [reopen[c] EXCEPT !.at = "commit", !.new = new, !.decide = decide]
<1>4. /\ r \in Reopen /\ r.at = "commit" /\ r.new = new /\ r.decide = decide
      /\ r.parent = reopen[c].parent /\ r.root = reopen[c].root
  BY <1>0, <1>1 DEF Reopen
<1>5. reopen' = [reopen EXCEPT ![c] = r]
  BY <1>0 DEF RevisionType
<1> HIDE DEF r
<1>6. /\ reopen'[c] = r /\ r # None
      /\ \A b \in Reopens : b # c => reopen'[b] = reopen[b]
  BY <1>0, <1>4, <1>5 DEF RevisionType
<1>7. RevisionType'
  <2>1. reopen' \in [Reopens -> Reopen \cup {None}]
    BY <1>0, <1>4, <1>5 DEF RevisionType
  <2>2. queue' \in Seq(Reopens)
    BY <1>0, AppendProperties DEF RevisionType
  <2> QED  BY <1>0, <1>1, <2>1, <2>2 DEF RevisionType
<1>8. RowsOK' /\ Made' = Made /\ Successors' = Successors
  BY <1>0, SameRows
<1>9. PlanOK'
  BY <1>0, <1>1, <1>2, <1>8 DEF RevisionInv, PlanOK
<1>10. LocalsOK'
  <2>1. /\ reopen[c] # None /\ reopen[c].parent \in Made /\ concluded[reopen[c].parent] # "open"
        /\ reopen[c].root \in Roots
    BY <1>0 DEF RevisionInv, LocalsOK, At
  <2>2. r.parent \in Made' /\ concluded'[r.parent] # "open" /\ r.root \in Roots /\ r.at # "lookup"
    BY <1>0, <1>4, <1>8, <2>1
  <2>3. \A b \in Reopens : b # c /\ reopen[b] # None =>
            /\ reopen[b].parent \in Made' /\ concluded'[reopen[b].parent] # "open"
            /\ IF reopen[b].at = "lookup" THEN reopen[b].root = reopen[b].parent
                                          ELSE reopen[b].root \in Roots
    BY <1>0, <1>8 DEF RevisionInv, LocalsOK
  <2> QED  BY <1>6, <2>2, <2>3 DEF LocalsOK
<1>11. /\ At(c, "commit")' /\ ~At(c, "commit")
       /\ \A b \in Reopens : b # c => (At(b, "commit")' <=> At(b, "commit"))
  BY <1>0, <1>4, <1>6 DEF At
<1>12. CommitOK'
  <2>1. ASSUME NEW b \in Reopens, b # c, At(b, "commit")
        PROVE  reopen[b].new \in minted \ Made /\ reopen[b].new # new
    BY <1>0, <1>1, <2>1 DEF RevisionInv, CommitOK
  <2>2. \A d \in Decisions : d # new => plan'[d] = plan[d]
    BY <1>0, <1>1
  <2>3. plan'[new] # "ready" /\ (~decide => plan'[new] = "none")
    BY <1>0, <1>1, <1>2
  <2>4. ASSUME NEW b \in Reopens, b # c, At(b, "commit")
        PROVE  /\ reopen'[b].new \in minted' \ Made'
               /\ plan'[reopen'[b].new] # "ready"
               /\ ~reopen'[b].decide => plan'[reopen'[b].new] \in {"none"}
               /\ \A a \in Reopens : At(a, "commit")' /\ reopen'[a].new = reopen'[b].new => a = b
    <3>1. reopen[b].new \in Decisions
      BY <1>0, <2>1, <2>4 DEF RevisionType
    <3>2. reopen'[b] = reopen[b] /\ plan'[reopen[b].new] = plan[reopen[b].new]
      BY <1>6, <2>1, <2>2, <2>4, <3>1
    <3>3. reopen'[b].new \in minted' \ Made'
      BY <1>8, <2>1, <2>4, <3>2
    <3>4. /\ plan[reopen[b].new] # "ready"
          /\ ~reopen[b].decide => plan[reopen[b].new] \in {"none"}
      BY <1>0, <2>4 DEF RevisionInv, CommitOK
    <3>5. ASSUME NEW a \in Reopens, At(a, "commit")', reopen'[a].new = reopen'[b].new PROVE a = b
      <4>1. a # c
        <5>1. reopen'[c].new = new
          BY <1>4, <1>6
        <5>2. reopen[b].new # new
          BY <2>1, <2>4
        <5> QED  BY <3>2, <3>5, <5>1, <5>2
      <4>2. At(a, "commit") /\ reopen[a].new = reopen[b].new
        BY <1>6, <1>11, <3>2, <3>5, <4>1
      <4> QED  BY <1>0, <2>4, <4>2 DEF RevisionInv, CommitOK
    <3> QED  BY <3>2, <3>3, <3>4, <3>5
  <2>5. /\ reopen'[c].new \in minted' \ Made'
        /\ plan'[reopen'[c].new] # "ready"
        /\ ~reopen'[c].decide => plan'[reopen'[c].new] \in {"none"}
        /\ \A a \in Reopens : At(a, "commit")' /\ reopen'[a].new = reopen'[c].new => a = c
    <3>1. reopen'[c].new = new /\ reopen'[c].decide = decide
      BY <1>4, <1>6
    <3>2. new \in minted' \ Made'
      BY <1>2, <1>8
    <3>3. ASSUME NEW a \in Reopens, At(a, "commit")', reopen'[a].new = new PROVE a = c
      BY <1>6, <1>11, <2>1, <3>3
    <3> QED  BY <2>3, <3>1, <3>2, <3>3
  <2> QED  BY <1>11, <2>4, <2>5 DEF CommitOK
<1>13. QueueOK'
  <2>1. /\ queue \in Seq(Reopens) /\ Len(queue) \in Nat
        /\ Len(queue') = Len(queue) + 1 /\ queue'[Len(queue) + 1] = c
        /\ \A i \in 1 .. Len(queue) : queue'[i] = queue[i]
        /\ DOMAIN queue = 1 .. Len(queue) /\ DOMAIN queue' = 1 .. Len(queue')
    BY <1>0, <1>7, AppendProperties, LenProperties DEF RevisionType
  <2>2. \A i \in 1 .. Len(queue) : queue[i] # c /\ queue[i] \in Reopens
    BY <1>0, <1>11, <2>1, ElementOfSeq DEF RevisionInv, QueueOK
  <2>3. \A b \in Reopens : At(b, "commit")' => \E i \in DOMAIN queue' : queue'[i] = b
    <3>1. Len(queue) + 1 \in DOMAIN queue' /\ \A i \in DOMAIN queue : i \in DOMAIN queue'
      BY <2>1
    <3>2. \A b \in Reopens : At(b, "commit") => \E i \in DOMAIN queue : queue[i] = b
      BY <1>0 DEF RevisionInv, QueueOK
    <3> QED  BY <1>11, <2>1, <3>1, <3>2
  <2>4. \A i \in DOMAIN queue' : \A b \in Reopens : b = queue'[i] => At(b, "commit")'
    <3>1. \A i \in DOMAIN queue : At(queue[i], "commit")
      BY <1>0 DEF RevisionInv, QueueOK
    <3>2. ASSUME NEW i \in DOMAIN queue' PROVE i \in DOMAIN queue \/ i = Len(queue) + 1
      BY <2>1
    <3>3. \A i \in DOMAIN queue : \A b \in Reopens : b = queue[i] => At(b, "commit")'
      BY <1>11, <2>1, <2>2, <3>1
    <3> QED  BY <1>11, <2>1, <3>2, <3>3
  <2>5. \A i, j \in DOMAIN queue' : queue'[i] = queue'[j] => i = j
    <3>1. \A i, j \in DOMAIN queue : queue[i] = queue[j] => i = j
      BY <1>0 DEF RevisionInv, QueueOK
    <3> QED  BY <2>1, <2>2, <3>1
  <2>6. \A i \in DOMAIN queue' : queue'[i] \in Reopens
    BY <1>7, <2>1, ElementOfSeq DEF RevisionType
  <2>7. \A i \in DOMAIN queue' : reopen'[queue'[i]] # None /\ reopen'[queue'[i]].at = "commit"
    BY <2>4, <2>6 DEF At
  <2> QED  BY <2>3, <2>5, <2>7 DEF QueueOK, At
<1>14. NoOrphanPlan'
  <2>1. ASSUME NEW d \in Decisions \ Roots, plan'[d] \in {"awaiting", "ready"}, d # new
        PROVE  \/ \E v \in revisions : v.new = d
               \/ \E b \in Reopens : At(b, "commit") /\ reopen[b].new = d
    BY <1>0, <1>1, <2>1 DEF RevisionInv, NoOrphanPlan
  <2>2. At(c, "commit")' /\ reopen'[c].new = new
    BY <1>4, <1>6, <1>11
  <2>3. \A b \in Reopens : At(b, "commit") => At(b, "commit")' /\ reopen'[b] = reopen[b]
    BY <1>6, <1>11
  <2>4. revisions' = revisions
    BY <1>0
  <2>5. ASSUME NEW d \in Decisions \ Roots, plan'[d] \in {"awaiting", "ready"}
        PROVE  \/ \E v \in revisions' : v.new = d
               \/ \E b \in Reopens : At(b, "commit")' /\ reopen'[b].new = d
    <3>1. CASE d = new
      BY <2>2, <3>1
    <3>2. CASE d # new
      <4>1. CASE \E v \in revisions : v.new = d
        BY <2>4, <4>1
      <4>2. CASE \E b \in Reopens : At(b, "commit") /\ reopen[b].new = d
        BY <2>3, <4>2
      <4> QED  BY <2>1, <2>5, <3>2, <4>1, <4>2
    <3> QED  BY <3>1, <3>2
  <2> QED  BY <2>5 DEF NoOrphanPlan
<1> QED  BY <1>3, <1>7, <1>8, <1>9, <1>10, <1>12, <1>13, <1>14 DEF RevisionInv

LEMMA PrepareKeeps ==
    ASSUME IInv, NEW c \in Reopens, Prepare(c)
    PROVE  RevisionInv' /\ PlanMove
<1>1. CASE reopen' = [reopen EXCEPT ![c] = None] /\ UNCHANGED <<plan, minted, queue>>
  BY <1>1, LocalKeeps DEF Prepare, At, ovars
<1>2. CASE ~(reopen' = [reopen EXCEPT ![c] = None] /\ UNCHANGED <<plan, minted, queue>>)
  <2>1. PICK decide \in BOOLEAN : LET new == FreshDecision IN
             /\ minted' = minted \cup {new}
             /\ plan' = IF decide THEN [plan EXCEPT ![new] = "awaiting"] ELSE plan
             /\ reopen' = [reopen EXCEPT ![c].at = "commit", ![c].new = new,
                                         ![c].decide = decide]
             /\ queue' = Append(queue, c)
    BY <1>2 DEF Prepare
  <2>2. At(c, "evidence") /\ minted # Decisions
        /\ UNCHANGED <<executed, post, runtimeVars, restarts, revisions>>
    BY <1>2 DEF Prepare
  <2> QED  BY <2>1, <2>2, PreparedKeeps
<1> QED  BY <1>1, <1>2

-----------------------------------------------------------------------------
(* Revisions: the transaction *)

\* What both outcomes of the transaction do to the reopens and the queue.
LEMMA LeaveQueue ==
    ASSUME IInv, NEW c \in Reopens, At(c, "commit"), Head(queue) = c,
           reopen' = [reopen EXCEPT ![c] = None], queue' = Tail(queue)
    PROVE  /\ reopen' \in [Reopens -> Reopen \cup {None}] /\ queue' \in Seq(Reopens)
           /\ reopen'[c] = None /\ ~At(c, "commit")'
           /\ \A b \in Reopens : b # c =>
                 reopen'[b] = reopen[b] /\ (At(b, "commit")' <=> At(b, "commit"))
           /\ QueueOK'
<1>0. /\ RevisionType /\ QueueOK /\ queue \in Seq(Reopens)
  BY DEF IInv, RevisionInv, RevisionType
<1>1. /\ reopen' \in [Reopens -> Reopen \cup {None}]
      /\ reopen'[c] = None
      /\ \A b \in Reopens : b # c => reopen'[b] = reopen[b]
  BY <1>0 DEF RevisionType
<1>2. ~At(c, "commit")' /\ \A b \in Reopens : b # c => (At(b, "commit")' <=> At(b, "commit"))
  BY <1>1 DEF At
<1>3. /\ DOMAIN queue = 1 .. Len(queue) /\ Len(queue) \in Nat /\ queue # <<>>
  BY <1>0, LenProperties DEF QueueOK
<1>4. /\ queue' \in Seq(Reopens) /\ Len(queue') = Len(queue) - 1 /\ DOMAIN queue' = 1 .. Len(queue')
      /\ \A i \in 1 .. Len(queue') : queue'[i] = queue[i + 1]
  BY <1>0, <1>3, HeadTailProperties, LenProperties
<1>5. queue[1] = c /\ \A i \in DOMAIN queue : queue[i] \in Reopens
  BY <1>0, <1>3, HeadTailProperties, ElementOfSeq
<1>6. \A i \in DOMAIN queue' : i + 1 \in DOMAIN queue /\ queue[i + 1] # c /\ i \in Nat
  BY <1>0, <1>3, <1>4, <1>5 DEF QueueOK
<1>7. \A b \in Reopens : At(b, "commit")' => \E i \in DOMAIN queue' : queue'[i] = b
  <2>1. SUFFICES ASSUME NEW b \in Reopens, b # c, At(b, "commit")
                 PROVE  \E i \in DOMAIN queue' : queue'[i] = b
    BY <1>2
  <2>2. PICK i \in DOMAIN queue : queue[i] = b
    BY <1>0, <2>1 DEF QueueOK
  <2>3. i \in 2 .. Len(queue)
    BY <1>3, <1>5, <2>1, <2>2
  <2>4. i - 1 \in 1 .. Len(queue') /\ (i - 1) + 1 = i
    BY <1>3, <1>4, <2>3
  <2>5. queue'[i - 1] = b
    BY <1>4, <2>2, <2>4
  <2> QED  BY <1>4, <2>4, <2>5
<1>8. \A i \in DOMAIN queue' : At(queue[i + 1], "commit") /\ queue[i + 1] \in Reopens
  BY <1>0, <1>5, <1>6 DEF QueueOK
<1>9. \A i \in DOMAIN queue' : reopen'[queue'[i]] # None /\ reopen'[queue'[i]].at = "commit"
  BY <1>1, <1>4, <1>6, <1>8 DEF At
<1>10. \A i, j \in DOMAIN queue' : queue'[i] = queue'[j] => i = j
  <2>1. SUFFICES ASSUME NEW i \in DOMAIN queue', NEW j \in DOMAIN queue', queue[i + 1] = queue[j + 1]
                 PROVE  i = j
    BY <1>4
  <2>2. i + 1 = j + 1
    BY <1>0, <1>6, <2>1 DEF QueueOK
  <2> QED  BY <1>6, <2>2
<1>11. QueueOK'
  BY <1>7, <1>9, <1>10 DEF QueueOK, At
<1> QED  BY <1>1, <1>2, <1>4, <1>11

LEMMA DiscardKeeps ==
    ASSUME IInv, NEW c \in Reopens, At(c, "commit"), Head(queue) = c, Discard(c),
           reopen' = [reopen EXCEPT ![c] = None], queue' = Tail(queue),
           UNCHANGED <<executed, post, runtimeVars, restarts, minted, revisions>>
    PROVE  RevisionInv' /\ PlanMove
<1>0. /\ RevisionInv /\ plan \in [Decisions -> PlanState] /\ reopen[c] \in Reopen
      /\ UNCHANGED <<executed, post, case, outcome, slot, concluded, restarts>>
  BY DEF IInv, RevisionInv, RevisionType, OutcomeInv, OutcomeType, runtimeVars, At
<1>1. /\ reopen' \in [Reopens -> Reopen \cup {None}] /\ queue' \in Seq(Reopens)
      /\ reopen'[c] = None /\ ~At(c, "commit")'
      /\ \A b \in Reopens : b # c =>
            reopen'[b] = reopen[b] /\ (At(b, "commit")' <=> At(b, "commit"))
      /\ QueueOK'
  BY LeaveQueue
<1>2. RevisionType' /\ RowsOK' /\ Made' = Made /\ Successors' = Successors
  BY <1>0, <1>1, SameRows DEF RevisionInv, RevisionType
<1>3. reopen[c].new \in Decisions /\ plan[reopen[c].new] # "ready"
      /\ (~reopen[c].decide => plan[reopen[c].new] = "none")
  BY <1>0 DEF RevisionInv, RevisionType, CommitOK
<1>4. /\ plan'[reopen[c].new] \notin {"awaiting", "ready"}
      /\ \A d \in Decisions : plan'[d] = plan[d] \/ plan'[d] = "none"
      /\ \A d \in Decisions : d # reopen[c].new => plan'[d] = plan[d]
      /\ plan' \in [Decisions -> PlanState]
  BY <1>0, <1>3 DEF Discard, PlanState
<1>5. PlanOK'
  BY <1>0, <1>2, <1>4 DEF RevisionInv, PlanOK
<1>6. LocalsOK'
  <2>1. \A b \in Reopens : reopen'[b] # None => reopen'[b] = reopen[b]
    BY <1>1
  <2> QED  BY <1>0, <1>2, <2>1 DEF RevisionInv, LocalsOK
<1>7. \A b \in Reopens : At(b, "commit")' =>
          At(b, "commit") /\ reopen'[b] = reopen[b] /\ reopen[b].new # reopen[c].new
  BY <1>0, <1>1 DEF RevisionInv, CommitOK
<1>8. CommitOK'
  <2>1. \A b \in Reopens : At(b, "commit") => reopen[b].new \in Decisions
    BY <1>0 DEF RevisionInv, RevisionType, CommitOK
  <2> QED  BY <1>0, <1>2, <1>4, <1>7, <2>1 DEF RevisionInv, CommitOK
<1>9. NoOrphanPlan'
  <2>1. SUFFICES ASSUME NEW d \in Decisions \ Roots, plan'[d] \in {"awaiting", "ready"}
                 PROVE  \/ \E v \in revisions : v.new = d
                        \/ \E b \in Reopens : At(b, "commit")' /\ reopen'[b].new = d
    BY <1>0 DEF NoOrphanPlan
  <2>2. d # reopen[c].new /\ plan[d] \in {"awaiting", "ready"}
    BY <1>4, <2>1
  <2> QED  BY <1>0, <1>1, <2>2 DEF RevisionInv, NoOrphanPlan
<1> QED  BY <1>0, <1>1, <1>2, <1>4, <1>5, <1>6, <1>8, <1>9 DEF RevisionInv, PlanMove, runtimeVars

Row(c) == [root |-> reopen[c].root, parent |-> reopen[c].parent, index |-> reopen[c].index,
           reason |-> reopen[c].reason, new |-> reopen[c].new]

\* The row that is inserted is the next one of its root's chain.
LEMMA InsertRow ==
    ASSUME IInv, NEW c \in Reopens, At(c, "commit"), MayInsert(c), NEW v, v = Row(c),
           revisions' = revisions \cup {v}, minted' = minted
    PROVE  /\ revisions' \subseteq Revision /\ RowsOK'
           /\ v.root \in Roots /\ v.index = Cardinality(Chain(v.root)) + 1
           /\ v.new \in Decisions \ Made
           /\ Successors' = Successors \cup {v.new} /\ Made' = Made \cup {v.new}
           /\ v \notin revisions
           /\ Chain(v.root)' = Chain(v.root) \cup {v}
           /\ Cardinality(Chain(v.root)') = Cardinality(Chain(v.root)) + 1
           /\ \A root \in Roots : root # v.root => Chain(root)' = Chain(root)
<1>0. /\ RevisionType /\ RowsOK /\ reopen[c] \in Reopen
      /\ v.root = reopen[c].root /\ v.new = reopen[c].new /\ v.index = reopen[c].index
      /\ v.parent = reopen[c].parent /\ v.reason = reopen[c].reason
      /\ v = [root |-> v.root, parent |-> v.parent, index |-> v.index,
              reason |-> v.reason, new |-> v.new]
  BY DEF IInv, RevisionInv, RevisionType, At, Row
<1>1. v.root \in Roots
  BY <1>0 DEF IInv, RevisionInv, LocalsOK, At
<1>2. v.new \in minted \ Made
  BY <1>0 DEF IInv, RevisionInv, CommitOK
<1>3. v.index = Cardinality(Chain(v.root)) + 1
  BY <1>0 DEF MayInsert
<1>4. v.parent \in Decisions /\ v.reason \in Reason /\ v.new \in Decisions
  BY <1>0, <1>2 DEF Reopen, RevisionType
<1>5. Successors' = Successors \cup {v.new} /\ Made' = Made \cup {v.new}
  BY DEF Successors, Made
<1>6. v.new \notin Successors /\ v \notin revisions /\ v.new \notin Roots
  BY <1>2 DEF Successors, Made
<1>7. Chain(v.root)' = Chain(v.root) \cup {v}
  BY DEF Chain
<1>8. \A root \in Roots : root # v.root => Chain(root)' = Chain(root)
  BY DEF Chain
<1>9. /\ IsFiniteSet(revisions') /\ IsFiniteSet(revisions) /\ IsFiniteSet(Successors)
      /\ Cardinality(revisions') = Cardinality(revisions) + 1
      /\ Cardinality(Successors') = Cardinality(Successors) + 1
  <2>1. Successors \in SUBSET Decisions
    BY <1>0 DEF RevisionType, Revision, Successors
  <2>2. IsFiniteSet(Successors) /\ IsFiniteSet(revisions)
    BY <1>0, <2>1, FS_Subset DEF RowsOK
  <2>3. revisions' = revisions \cup {v}
    OBVIOUS
  <2>4. IsFiniteSet(revisions') /\ Cardinality(revisions') = Cardinality(revisions) + 1
    <3>1. /\ IsFiniteSet(revisions \cup {v})
          /\ Cardinality(revisions \cup {v}) = Cardinality(revisions) + 1
      BY <1>6, <2>2, FS_AddElement
    <3> QED  BY <2>3, <3>1, Zenon
  <2>5. Cardinality(Successors') = Cardinality(Successors) + 1
    BY <1>5, <1>6, <2>2, FS_AddElement
  <2> QED  BY <2>2, <2>4, <2>5
<1>10. /\ IsFiniteSet(Chain(v.root)) /\ Cardinality(Chain(v.root)) \in Nat
       /\ Cardinality(Chain(v.root)) <= Cardinality(revisions) /\ Cardinality(revisions) \in Nat
       /\ Cardinality(Decisions) \in Nat
  BY <1>0, <1>1, RowsAreFew
<1>11. Cardinality(Chain(v.root)') = Cardinality(Chain(v.root)) + 1
  <2>1. v \notin Chain(v.root)
    BY <1>6 DEF Chain
  <2> QED  BY <1>7, <1>10, <2>1, FS_AddElement
<1>12. Cardinality(revisions) + 1 <= Cardinality(Decisions)
  <2>1. Successors' \in SUBSET Decisions
    BY <1>0, <1>4, <1>5 DEF RevisionType, Revision, Successors
  <2>2. Cardinality(Successors') <= Cardinality(Decisions)
    BY <2>1, FS_Subset
  <2> QED  BY <1>0, <1>9, <2>2 DEF RowsOK
<1>13. v \in Revision
  <2>1. v.index \in 1 .. Cardinality(Decisions)
    BY <1>3, <1>10, <1>12
  <2> QED  BY <1>0, <1>1, <1>4, <2>1 DEF Revision
<1>14. \A root \in Roots : \A u, w \in Chain(root)' : u.index = w.index => u = w
  <2>1. \A u \in Chain(v.root) : u.index \in Nat /\ u.index # v.index
    BY <1>0, <1>1, <1>3, <1>10 DEF RowsOK
  <2>2. \A u, w \in Chain(v.root)' : u.index = w.index => u = w
    BY <1>0, <1>1, <1>7, <2>1 DEF RowsOK
  <2> QED  BY <1>0, <1>8, <2>2 DEF RowsOK
<1>15. \A root \in Roots : \A w \in Chain(root)' : w.index \in 1 .. Cardinality(Chain(root)')
  <2>1. \A w \in Chain(v.root) : w.index \in 1 .. Cardinality(Chain(v.root))
    BY <1>0, <1>1 DEF RowsOK
  <2>2. \A w \in Chain(v.root)' : w.index \in 1 .. Cardinality(Chain(v.root)')
    BY <1>3, <1>7, <1>10, <1>11, <2>1
  <2> QED  BY <1>0, <1>8, <2>2 DEF RowsOK
<1>16. \A root \in Roots : \A i \in 1 .. Cardinality(Chain(root)') :
           \E w \in Chain(root)' : w.index = i
  <2>1. ASSUME NEW i \in 1 .. Cardinality(Chain(v.root)') PROVE \E w \in Chain(v.root)' : w.index = i
    <3>1. i \in 1 .. Cardinality(Chain(v.root)) \/ i = v.index
      BY <1>3, <1>10, <1>11
    <3> QED  BY <1>0, <1>1, <1>7, <3>1 DEF RowsOK
  <2> QED  BY <1>0, <1>8, <2>1 DEF RowsOK
<1>17. RowsOK'
  BY <1>0, <1>2, <1>5, <1>6, <1>9, <1>14, <1>15, <1>16 DEF RowsOK
<1>18. revisions' \subseteq Revision
  BY <1>0, <1>13 DEF RevisionType
<1> QED
  BY <1>1, <1>2, <1>3, <1>4, <1>5, <1>6, <1>7, <1>8, <1>11, <1>17, <1>18

LEMMA InsertKeeps ==
    ASSUME IInv, NEW c \in Reopens, At(c, "commit"), Head(queue) = c, MayInsert(c),
           NEW v, v = Row(c), revisions' = revisions \cup {v},
           reopen' = [reopen EXCEPT ![c] = None], queue' = Tail(queue),
           UNCHANGED <<plan, executed, post, runtimeVars, restarts, minted>>
    PROVE  RevisionInv' /\ PlanMove
<1>0. /\ RevisionInv /\ plan \in [Decisions -> PlanState] /\ reopen[c] \in Reopen
      /\ UNCHANGED <<executed, post, case, outcome, slot, concluded, restarts>>
  BY DEF IInv, RevisionInv, RevisionType, OutcomeInv, OutcomeType, runtimeVars, At
<1>1. /\ reopen' \in [Reopens -> Reopen \cup {None}] /\ queue' \in Seq(Reopens)
      /\ reopen'[c] = None /\ ~At(c, "commit")'
      /\ \A b \in Reopens : b # c =>
            reopen'[b] = reopen[b] /\ (At(b, "commit")' <=> At(b, "commit"))
      /\ QueueOK'
  BY LeaveQueue
<1>2. /\ revisions' \subseteq Revision /\ RowsOK'
      /\ Made' = Made \cup {v.new} /\ v.new = reopen[c].new /\ v \in revisions'
  BY InsertRow DEF Row
<1>3. RevisionType'
  BY <1>0, <1>1, <1>2 DEF RevisionInv, RevisionType
<1>4. PlanOK'
  BY <1>0, <1>2 DEF RevisionInv, PlanOK
<1>5. LocalsOK'
  <2>1. \A b \in Reopens : reopen'[b] # None => reopen'[b] = reopen[b]
    BY <1>1
  <2> QED  BY <1>0, <1>2, <2>1 DEF RevisionInv, LocalsOK
<1>6. \A b \in Reopens : At(b, "commit")' =>
          At(b, "commit") /\ reopen'[b] = reopen[b] /\ reopen[b].new # v.new
  BY <1>0, <1>1, <1>2 DEF RevisionInv, CommitOK
<1>7. CommitOK'
  BY <1>0, <1>2, <1>6 DEF RevisionInv, CommitOK
<1>8. NoOrphanPlan'
  <2>1. SUFFICES ASSUME NEW d \in Decisions \ Roots, plan'[d] \in {"awaiting", "ready"}
                 PROVE  \/ \E w \in revisions' : w.new = d
                        \/ \E b \in Reopens : At(b, "commit")' /\ reopen'[b].new = d
    BY DEF NoOrphanPlan
  <2>2. \/ \E w \in revisions : w.new = d
        \/ \E b \in Reopens : At(b, "commit") /\ reopen[b].new = d
    BY <1>0, <2>1 DEF RevisionInv, NoOrphanPlan
  <2> QED  BY <1>1, <1>2, <2>2
<1> QED  BY <1>0, <1>1, <1>2, <1>3, <1>4, <1>5, <1>7, <1>8 DEF RevisionInv, PlanMove, runtimeVars

LEMMA CommitKeeps ==
    ASSUME IInv, NEW c \in Reopens, Commit(c)
    PROVE  RevisionInv' /\ PlanMove
<1>1. /\ At(c, "commit") /\ Head(queue) = c
      /\ reopen' = [reopen EXCEPT ![c] = None] /\ queue' = Tail(queue)
      /\ UNCHANGED <<executed, post, runtimeVars, restarts, minted>>
  BY DEF Commit
<1>2. CASE MayInsert(c) /\ revisions' = revisions \cup {Row(c)} /\ UNCHANGED plan
  BY <1>1, <1>2, InsertKeeps
<1>3. CASE Discard(c) /\ UNCHANGED revisions
  BY <1>1, <1>3, DiscardKeeps
<1> QED  BY <1>2, <1>3 DEF Commit, Row

LEMMA RestartKeeps ==
    ASSUME IInv, Restart
    PROVE  RevisionInv'
<1>0. /\ RevisionInv /\ UNCHANGED <<revisions, minted, executed, concluded>>
      /\ plan' = [d \in Decisions |-> "none"] /\ case' = [d \in Decisions |-> "none"]
      /\ reopen' = [c \in Reopens |-> None] /\ queue' = <<>>
  BY DEF IInv, Restart, ForgetRuntime
<1>1. RevisionType' /\ RowsOK' /\ Made' = Made
  BY <1>0, SameRows DEF RevisionInv, RevisionType
<1>2. PlanOK' /\ LocalsOK' /\ NoOrphanPlan'
  BY <1>0 DEF PlanOK, LocalsOK, NoOrphanPlan
<1>3. \A c \in Reopens : ~At(c, "commit")'
  BY <1>0 DEF At
<1>4. CommitOK' /\ QueueOK'
  BY <1>0, <1>3 DEF CommitOK, QueueOK
<1> QED  BY <1>1, <1>2, <1>4 DEF RevisionInv

-----------------------------------------------------------------------------
(* The invariant *)

LEMMA ReopenKeeps ==
    ASSUME IInv, NEW c \in Reopens,
           Continue(c) \/ \E d \in Decisions, reason \in Reasons[c] : StartReopen(c, d, reason)
    PROVE  RevisionInv' /\ PlanMove
  BY StartKeeps, ReadIntentKeeps, ReadChainKeeps, PrepareKeeps, CommitKeeps DEF Continue

LEMMA InitIInv == Init => IInv
  BY InitOutcomeInv, InitRevisionInv DEF Init, IInv

LEMMA IInvStep == IInv /\ [Next]_vars => IInv'
<1> SUFFICES ASSUME IInv, [Next]_vars PROVE IInv'
  OBVIOUS
<1>0. OutcomeInv /\ RevisionInv
  BY DEF IInv
<1>1. CASE Verify
  BY <1>0, <1>1, VerifyKeeps, OutcomeStep DEF IInv, Verify
<1>2. ASSUME NEW d \in Decisions, ApprovePlan(d) PROVE IInv'
  BY <1>0, <1>2, ApproveKeeps, OutcomeStep DEF IInv
<1>3. ASSUME NEW c \in Reopens,
             Continue(c) \/ \E d \in Decisions, reason \in Reasons[c] : StartReopen(c, d, reason)
      PROVE  IInv'
  BY <1>0, <1>3, ReopenKeeps, OutcomeStep DEF IInv
<1>4. CASE Restart
  BY <1>0, <1>4, RestartKeeps, OutcomeStep DEF IInv, Restart
<1>5. CASE UNCHANGED vars
  <2>1. UNCHANGED <<plan, executed, post, case, outcome, slot, concluded, restarts>>
    BY <1>5 DEF vars, ovars, runtimeVars
  <2>2. OutcomeInv'
    BY <1>0, <2>1 DEF OutcomeInv, OutcomeType, PostType, SlotOK, ReceiptOK, ConcludedOK
  <2>3. UNCHANGED <<revisions, minted, reopen, queue>>
    BY <1>5 DEF vars, rvars
  <2>4. RevisionType' /\ RowsOK' /\ Made' = Made
    BY <1>0, <2>3, SameRows DEF RevisionInv, RevisionType
  <2>5. PlanOK' /\ LocalsOK' /\ CommitOK' /\ QueueOK' /\ NoOrphanPlan'
    BY <1>0, <2>1, <2>3, <2>4
       DEF RevisionInv, PlanOK, LocalsOK, CommitOK, QueueOK, NoOrphanPlan, At
  <2> QED  BY <2>2, <2>4, <2>5 DEF IInv, RevisionInv
<1> QED  BY <1>1, <1>2, <1>3, <1>4, <1>5 DEF Next

-----------------------------------------------------------------------------
(* Theorems *)

\* IInv holds in every reachable state.
THEOREM Inductive == Spec => []IInv
  BY InitIInv, IInvStep, PTL DEF Spec

LEMMA QueueIsShort == IInv => Len(queue) <= Cardinality(Reopens)
<1> SUFFICES ASSUME IInv PROVE Len(queue) <= Cardinality(Reopens)
  OBVIOUS
<1>1. queue \in Seq(Reopens) /\ QueueOK
  BY DEF IInv, RevisionInv, RevisionType
<1>2. /\ Len(queue) \in Nat /\ DOMAIN queue = 1 .. Len(queue)
      /\ queue \in [1 .. Len(queue) -> Reopens]
  BY <1>1, LenProperties
<1>3. queue \in Injection(1 .. Len(queue), Reopens)
  BY <1>1, <1>2 DEF QueueOK, Injection, IsInjective
<1>4. Cardinality(1 .. Len(queue)) <= Cardinality(Reopens)
  BY <1>3, FS_Injection
<1>5. Cardinality(1 .. Len(queue)) = Len(queue)
  BY <1>2, FS_Interval
<1> QED  BY <1>4, <1>5

\* The variables have their types: in particular a chain is never longer than
\* there are decisions, and the transactions that wait never outnumber the calls
\* of reopen() there are.
THEOREM TypeCorrect == Spec => []TypeOK
<1>1. IInv => TypeOK
  BY QueueIsShort
     DEF IInv, OutcomeInv, OutcomeType, PostType, RevisionInv, RevisionType, TypeOK, OutcomeTypeOK
<1> QED  BY <1>1, Inductive, PTL

\* An attempt that a request has begun is the one in flight when the request
\* completes it (completeVerificationAttempt()).
THEOREM AttemptStays == Spec => []BegunHoldsSlot
<1>1. IInv => BegunHoldsSlot
  BY DEF IInv, OutcomeInv, SlotOK, BegunHoldsSlot
<1> QED  BY <1>1, Inductive, PTL

\* A plan that can be approved or executed belongs to a root or to a revision
\* that is in the database or about to be (createResolvedOrGet()).
THEOREM NoPlanWithoutRevision == Spec => []NoOrphanPlan
<1>1. IInv => NoOrphanPlan
  BY DEF IInv, RevisionInv
<1> QED  BY <1>1, Inductive, PTL

-----------------------------------------------------------------------------
(* DecisionRevision implements DecisionChain *)

\* Rows that are numbered as a chain is.
Numbered(rows) ==
    /\ Cardinality(rows) \in Nat
    /\ \A v \in rows : v.new \in Decisions /\ v.index \in 1 .. Cardinality(rows)
    /\ \A u, v \in rows : u.index = v.index => u = v
    /\ \A i \in 1 .. Cardinality(rows) : \E v \in rows : v.index = i

LEMMA LineOfRows ==
    ASSUME NEW rows, Numbered(rows)
    PROVE  /\ Line(rows) \in Seq(Decisions)
           /\ Len(Line(rows)) = Cardinality(rows) /\ DOMAIN Line(rows) = 1 .. Cardinality(rows)
           /\ \A v \in rows : Line(rows)[v.index] = v.new
<1> DEFINE n == Cardinality(rows)
<1>0. n \in Nat
  BY DEF Numbered
<1>1. \A i \in 1 .. n : Nth(rows, i) # {}
  BY DEF Numbered, Nth
<1>2. \A i \in 1 .. n : (CHOOSE v \in Nth(rows, i) : TRUE) \in Nth(rows, i)
  BY <1>1
<1>3. \A v \in rows : v.index \in 1 .. n /\ Nth(rows, v.index) = {v}
  BY DEF Numbered, Nth
<1>4. \A i \in 1 .. n : Line(rows)[i] = (CHOOSE v \in Nth(rows, i) : TRUE).new
  BY <1>1 DEF Line
<1>5. \A i \in 1 .. n : Line(rows)[i] \in Decisions
  <2>1. \A i \in 1 .. n : Nth(rows, i) \subseteq rows
    BY DEF Nth
  <2> QED  BY <1>2, <1>4, <2>1 DEF Numbered
<1>6. Line(rows) \in [1 .. n -> Decisions]
  <2>1. Line(rows) = [i \in 1 .. n |-> Line(rows)[i]]
    BY DEF Line
  <2> QED  BY <1>5, <2>1
<1>7. Line(rows) \in Seq(Decisions) /\ Len(Line(rows)) = n /\ DOMAIN Line(rows) = 1 .. n
  BY <1>0, <1>6, SeqDef, LenProperties
<1>8. \A v \in rows : Line(rows)[v.index] = v.new
  <2>1. SUFFICES ASSUME NEW v \in rows PROVE Line(rows)[v.index] = v.new
    OBVIOUS
  <2>2. v.index \in 1 .. n /\ Nth(rows, v.index) = {v}
    BY <1>3
  <2>3. (CHOOSE u \in Nth(rows, v.index) : TRUE) = v
    BY <1>2, <2>2
  <2> QED  BY <1>4, <2>2, <2>3
<1> QED  BY <1>7, <1>8

LEMMA ChainsAreNumbered ==
    ASSUME RevisionType, RowsOK, NEW root \in Roots
    PROVE  Numbered(Chain(root))
<1>1. Cardinality(Chain(root)) \in Nat
  BY RowsAreFew
<1>2. \A v \in Chain(root) : v.new \in Decisions
  BY DEF Chain, RevisionType, Revision
<1> QED  BY <1>1, <1>2 DEF Numbered, RowsOK

\* A row with the next number extends the line.
LEMMA NextRow ==
    ASSUME NEW rows, NEW v, Numbered(rows), Numbered(rows \cup {v}),
           v.index = Cardinality(rows) + 1,
           Cardinality(rows \cup {v}) = Cardinality(rows) + 1
    PROVE  Line(rows \cup {v}) = Append(Line(rows), v.new)
<1> DEFINE n == Cardinality(rows)
           s == Line(rows)
           t == Line(rows \cup {v})
<1>0. n \in Nat /\ v.new \in Decisions
  BY DEF Numbered
<1>1. s \in Seq(Decisions) /\ Len(s) = n /\ \A u \in rows : s[u.index] = u.new
  BY LineOfRows
<1>2. t \in Seq(Decisions) /\ Len(t) = n + 1 /\ \A u \in rows \cup {v} : t[u.index] = u.new
  BY LineOfRows
<1>3. \A i \in 1 .. n : t[i] = s[i]
  <2>1. SUFFICES ASSUME NEW i \in 1 .. n PROVE t[i] = s[i]
    OBVIOUS
  <2>2. PICK u \in rows : u.index = i
    BY DEF Numbered
  <2>3. s[u.index] = u.new /\ t[u.index] = u.new
    BY <1>1, <1>2
  <2> QED  BY <2>2, <2>3
<1>4. t[n + 1] = v.new
  BY <1>2
<1> HIDE DEF s, t
<1>5. /\ Append(s, v.new) \in Seq(Decisions) /\ Len(Append(s, v.new)) = n + 1
      /\ \A i \in 1 .. n : Append(s, v.new)[i] = s[i]
      /\ Append(s, v.new)[n + 1] = v.new
  BY <1>0, <1>1, AppendProperties
<1>6. \A i \in 1 .. n + 1 : t[i] = Append(s, v.new)[i]
  BY <1>0, <1>3, <1>4, <1>5
<1>7. t = Append(s, v.new)
  BY <1>0, <1>2, <1>5, <1>6, SeqEqual
<1> QED  BY <1>7 DEF s, t

Lines == [root \in Roots |-> Line(Chain(root))]

\* The latest decision of a chain is the end of its line.
LEMMA LatestIsCurrent ==
    ASSUME IInv, NEW root \in Roots
    PROVE  Latest(root) = Abstract!Current(root)
<1>0. RevisionType /\ RowsOK
  BY DEF IInv, RevisionInv
<1> DEFINE rows == Chain(root)
           n == Cardinality(rows)
<1>1. Numbered(rows)
  BY <1>0, ChainsAreNumbered
<1>2. /\ Line(rows) \in Seq(Decisions) /\ Len(Line(rows)) = n
      /\ \A v \in rows : Line(rows)[v.index] = v.new
  BY <1>1, LineOfRows
<1>3. IsFiniteSet(rows) /\ n \in Nat
  BY <1>0, RowsAreFew
<1>4. CASE rows = {}
  <2>1. Line(rows) = <<>>
    BY <1>2, <1>4, FS_EmptySet, EmptySeq
  <2> QED  BY <1>4, <2>1 DEF Latest, Abstract!Current
<1>5. CASE rows # {}
  <2>1. n # 0 /\ Line(rows) # <<>>
    <3>1. n # 0
      BY <1>3, <1>5, FS_EmptySet
    <3>2. Len(<<>>) = 0
      OBVIOUS
    <3> QED  BY <1>2, <3>1, <3>2
  <2>2. PICK v \in rows : v.index = n
    BY <1>1, <1>3, <2>1 DEF Numbered
  <2>3. \A u \in rows : u.index \in 1 .. n
    BY <1>1 DEF Numbered
  <2>4. \A u \in rows : u.index <= v.index
    BY <1>3, <2>2, <2>3
  <2> DEFINE w == CHOOSE x \in rows : \A u \in rows : u.index <= x.index
  <2>5. w \in rows /\ \A u \in rows : u.index <= w.index
    BY <2>4
  <2>6. w = v
    <3>1. v.index <= w.index /\ w.index <= v.index /\ v.index \in Nat /\ w.index \in Nat
      BY <1>3, <2>2, <2>3, <2>4, <2>5
    <3> QED  BY <1>1, <2>5, <3>1 DEF Numbered
  <2>7. Latest(root) = v.new
    BY <1>5, <2>6 DEF Latest
  <2>8. Abstract!Current(root) = Line(rows)[n]
    BY <1>2, <2>1 DEF Abstract!Current
  <2>9. Line(rows)[v.index] = v.new
    BY <1>2
  <2> QED  BY <2>2, <2>7, <2>8, <2>9
<1> QED  BY <1>4, <1>5

\* Every decision that a line uses is a root or made by a row.
LEMMA UsedIsMade ==
    ASSUME IInv
    PROVE  Abstract!Used \subseteq Made
<1>0. RevisionType /\ RowsOK
  BY DEF IInv, RevisionInv
<1>1. ASSUME NEW root \in Roots, NEW i \in DOMAIN Line(Chain(root))
      PROVE  Line(Chain(root))[i] \in Made
  <2>1. Numbered(Chain(root))
    BY <1>0, ChainsAreNumbered
  <2>2. /\ DOMAIN Line(Chain(root)) = 1 .. Cardinality(Chain(root))
        /\ \A v \in Chain(root) : Line(Chain(root))[v.index] = v.new
    BY <2>1, LineOfRows
  <2>3. PICK v \in Chain(root) : v.index = i
    BY <2>1, <2>2 DEF Numbered
  <2>4. v.new \in Successors
    BY <2>3 DEF Successors, Chain
  <2> QED  BY <2>2, <2>3, <2>4 DEF Made
<1> QED  BY <1>1 DEF Abstract!Used, Made

\* The transaction that inserts a row revises its root.
LEMMA InsertRevises ==
    ASSUME IInv, NEW c \in Reopens, At(c, "commit"), MayInsert(c), NEW v, v = Row(c),
           revisions' = revisions \cup {v}, minted' = minted, concluded' = concluded,
           RevisionType'
    PROVE  Abstract!Next
<1>0. RevisionType /\ RowsOK /\ reopen[c] # None
  BY DEF IInv, RevisionInv, At
<1>1. /\ RowsOK'
      /\ v.root \in Roots /\ v.index = Cardinality(Chain(v.root)) + 1
      /\ v.new \in Decisions \ Made
      /\ Chain(v.root)' = Chain(v.root) \cup {v}
      /\ Cardinality(Chain(v.root)') = Cardinality(Chain(v.root)) + 1
      /\ \A root \in Roots : root # v.root => Chain(root)' = Chain(root)
  BY InsertRow
<1>2. Numbered(Chain(v.root)) /\ Numbered(Chain(v.root) \cup {v})
  <2>1. Numbered(Chain(v.root))
    BY <1>0, <1>1, ChainsAreNumbered
  <2>2. /\ Cardinality(Chain(v.root) \cup {v}) \in Nat
        /\ \A w \in Chain(v.root) \cup {v} : w.new \in Decisions
    BY <1>1, <2>1 DEF Numbered
  <2>3. /\ \A w \in Chain(v.root)' : w.index \in 1 .. Cardinality(Chain(v.root)')
        /\ \A u, w \in Chain(v.root)' : u.index = w.index => u = w
        /\ \A i \in 1 .. Cardinality(Chain(v.root)') : \E w \in Chain(v.root)' : w.index = i
    BY <1>1 DEF RowsOK
  <2> QED  BY <1>1, <2>1, <2>2, <2>3 DEF Numbered
<1>3. Line(Chain(v.root)') = Append(Line(Chain(v.root)), v.new)
  BY <1>1, <1>2, NextRow
<1>4. Lines' = [Lines EXCEPT ![v.root] = Append(@, v.new)]
  <2>1. Lines' = [root \in Roots |-> Line(Chain(root)')]
    BY DEF Lines
  <2>2. \A root \in Roots :
            Line(Chain(root)') = IF root = v.root THEN Append(Lines[v.root], v.new) ELSE Lines[root]
    BY <1>1, <1>3 DEF Lines
  <2> QED  BY <2>1, <2>2 DEF Lines
<1>5. concluded[Abstract!Current(v.root)] # "open"
  <2>1. v.parent = reopen[c].parent /\ v.root = reopen[c].root
    BY DEF Row
  <2>2. v.parent = Latest(v.root)
    BY <2>1 DEF MayInsert
  <2> QED  BY <1>0, <1>1, <2>1, <2>2, LatestIsCurrent DEF IInv, RevisionInv, LocalsOK
<1>6. v.new \in Decisions \ Abstract!Used
  BY <1>1, UsedIsMade
<1>7. Abstract!Revise(v.root)
  BY <1>4, <1>5, <1>6 DEF Abstract!Revise, Lines
<1> QED  BY <1>1, <1>7 DEF Abstract!Next

LEMMA SameLines ==
    ASSUME revisions' = revisions
    PROVE  Lines' = Lines
  BY DEF Lines, Chain

LEMMA ChainStep ==
    ASSUME IInv, [Next]_vars
    PROVE  Abstract!Next \/ UNCHANGED <<concluded, Lines>>
<1>0. OutcomeInv /\ RevisionInv /\ IInv'
  BY IInvStep DEF IInv
<1>1. CASE Verify
  <2>1. Lines' = Lines
    BY <1>1, SameLines DEF Verify, rvars
  <2>2. \/ concluded' = concluded
        \/ \E d \in Decisions : Abstract!Conclude(d)
    BY <1>0, <1>1, <2>1, VerdictStep DEF Verify, Lines, Abstract!Conclude
  <2> QED  BY <2>1, <2>2 DEF Abstract!Next
<1>2. ASSUME NEW c \in Reopens, Commit(c)
      PROVE  Abstract!Next \/ UNCHANGED <<concluded, Lines>>
  <2>1. At(c, "commit") /\ minted' = minted /\ concluded' = concluded
    BY <1>2 DEF Commit, runtimeVars
  <2>2. CASE MayInsert(c) /\ revisions' = revisions \cup {Row(c)}
    BY <1>0, <2>1, <2>2, InsertRevises DEF IInv, RevisionInv
  <2>3. CASE UNCHANGED revisions
    BY <2>1, <2>3, SameLines
  <2> QED  BY <1>2, <2>2, <2>3 DEF Commit, Row
<1>3. ASSUME NEW c \in Reopens,
             \/ ReadIntent(c) \/ ReadChain(c) \/ Prepare(c)
             \/ \E d \in Decisions, reason \in Reasons[c] : StartReopen(c, d, reason)
      PROVE  UNCHANGED <<concluded, Lines>>
  <2>1. revisions' = revisions /\ concluded' = concluded
    BY <1>3 DEF ReadIntent, ReadChain, Prepare, StartReopen, ovars, runtimeVars
  <2> QED  BY <2>1, SameLines
<1>4. CASE Restart \/ (\E d \in Decisions : ApprovePlan(d)) \/ UNCHANGED vars
  <2>1. revisions' = revisions /\ concluded' = concluded
    BY <1>4 DEF Restart, ForgetRuntime, ApprovePlan, Approve, vars, ovars, rvars, runtimeVars
  <2> QED  BY <2>1, SameLines
<1> QED  BY <1>1, <1>2, <1>3, <1>4 DEF Next, Continue

\* Whatever the order of posts, verifications and concurrent reopens, and across
\* restarts: each decision is concluded at most once, and each root has one line
\* of revisions, which grows at its end and only past a concluded decision.
THEOREM ImplementsDecisionChain == Spec => DecisionChainSpec
<1>1. Init => Abstract!Init
  <2>1. ASSUME Init PROVE Lines = [root \in Roots |-> <<>>]
    <3>1. \A root \in Roots : Chain(root) = {}
      BY <2>1 DEF Init, Chain
    <3>2. Cardinality({}) = 0 /\ 1 .. 0 = {}
      BY FS_EmptySet
    <3>3. Line({}) = <<>>
      BY <3>2 DEF Line
    <3> QED  BY <3>1, <3>3 DEF Lines
  <2> QED  BY <2>1 DEF Init, OutcomeInit, Lines, Abstract!Init
<1>2. IInv /\ [Next]_vars => [Abstract!Next]_(Abstract!vars)
  BY ChainStep DEF Lines, Abstract!vars
<1> QED  BY <1>1, <1>2, Inductive, PTL DEF Spec, DecisionChainSpec, Abstract!Spec
=============================================================================
