------------------------ MODULE OutcomeVerification ------------------------
(***************************************************************************)
(* From an executed plan to a trusted outcome: the desktop executes a      *)
(* ready plan, posts its native receipt once and each read-back            *)
(* observation once (commands.rs), and the Brain opens an outcome and      *)
(* concludes it (control/verification-runtime.ts, outcome/service.ts,      *)
(* outcome/store.ts).  Every map of the Brain is in memory; the desktop's  *)
(* receipts are on disk.                                                   *)
(*                                                                         *)
(* The Brain is one JavaScript thread: an action is the code between two   *)
(* awaits of a request.  A decision has one plan, so the decision names    *)
(* its plan, case and outcome.  The runtime allows one verification        *)
(* attempt, so every completed attempt is final.                           *)
(***************************************************************************)
EXTENDS Naturals

CONSTANTS
    Roots,          \* decisions made for a request
    Decisions,      \* all decision ids, those of revisions included
    Executable,     \* decisions the desktop executes (bound of the model)
    Conclusions,    \* verdicts the evaluators give (bound of the model)
    Readbacks,      \* [Decisions -> bound on read-backs of its receipt]
    MaxRestarts,    \* bound of the model: restarts of the Brain
    None

ASSUME OutcomeAssumption ==
    /\ Roots \subseteq Decisions /\ Executable \subseteq Decisions
    /\ Conclusions \subseteq {"verified", "mismatch", "inconclusive",
                              "verification_failed"}
    /\ Readbacks \in [Decisions -> Nat]
    /\ MaxRestarts \in Nat

VARIABLES
    plan,       \* [Decisions -> state of its record in the authorization store]
    executed,   \* [Decisions -> what the desktop's receipt says]
    post,       \* [Decisions -> [attempt -> stage of that post]]
    case,       \* [Decisions -> entry of the runtime's cases]
    outcome,    \* [Decisions -> verification_status of its outcome, or None]
    slot,       \* [Decisions -> attempt in pendingAttempts, or None]
    concluded,  \* history: [Decisions -> the conclusion ever reached, or "open"]
    restarts

runtimeVars == <<case, outcome, slot, concluded>>
ovars == <<plan, executed, post, runtimeVars, restarts>>

-----------------------------------------------------------------------------
(* Types *)

PlanState == {"none", "awaiting", "ready", "blocked"}
Verdicts == {"verified", "mismatch", "inconclusive", "verification_failed"}
VerificationStatus == Verdicts \cup {"not_required", "pending"}

ASSUME NoneIsNoStatus == None \notin Nat \cup VerificationStatus

\* Attempt 0 posts the receipt, the others the observation of the read-back the
\* native runner reserved under that number.  The attempt that verifyPlan begins
\* for itself is 0 as well.
Observations(d) == 1 .. Readbacks[d]
Attempts(d) == {0} \cup Observations(d)
Attempt == UNION {Attempts(d) : d \in Decisions}
Stage == {"unsent", "wire", "opening", "parsing", "begun", "finishing", "over"}

OutcomeTypeOK ==
    /\ plan \in [Decisions -> PlanState]
    /\ executed \in [Decisions -> {"no", "not_started", "effect"}]
    /\ \A d \in Decisions : post[d] \in [Attempts(d) -> Stage]
    /\ case \in [Decisions -> {"none", "registered", "linked"}]
    /\ outcome \in [Decisions -> VerificationStatus \cup {None}]
    /\ slot \in [Decisions -> Attempt \cup {None}]
    /\ concluded \in [Decisions -> Verdicts \cup {"open"}]
    /\ restarts \in 0 .. MaxRestarts

OutcomeInit ==
    /\ plan = [d \in Decisions |-> IF d \in Roots THEN "awaiting" ELSE "none"]
    /\ executed = [d \in Decisions |-> "no"]
    /\ post = [d \in Decisions |-> [n \in Attempts(d) |-> "unsent"]]
    /\ case = [d \in Decisions |-> "none"]
    /\ outcome = [d \in Decisions |-> None]
    /\ slot = [d \in Decisions |-> None]
    /\ concluded = [d \in Decisions |-> "open"]
    /\ restarts = 0

-----------------------------------------------------------------------------
(* The plan, as PlanAuthorization leaves it, and the desktop *)

Approve(d) ==
    /\ plan[d] = "awaiting"
    /\ plan' = [plan EXCEPT ![d] = "ready"]
    /\ UNCHANGED <<executed, post, runtimeVars, restarts>>

\* A denial, a revocation or the sweep of expired plans.
Block(d) ==
    /\ plan[d] \in {"awaiting", "ready"}
    /\ plan' = [plan EXCEPT ![d] = "blocked"]
    /\ UNCHANGED <<executed, post, runtimeVars, restarts>>

Goes(d, n, stage) == post' = [post EXCEPT ![d][n] = stage]

\* A post leaves once.  It may be lost, and nobody sends it again.
Sends(d, n) == Goes(d, n, "wire") \/ Goes(d, n, "over")

\* The broker runs the plan at most once, and the receipt is posted when it ends.
ExecuteReadyPlan(d) ==
    /\ d \in Executable
    /\ plan[d] = "ready"
    /\ executed[d] = "no"
    /\ \E state \in {"not_started", "effect"} :
           executed' = [executed EXCEPT ![d] = state]
    /\ Sends(d, 0)
    /\ UNCHANGED <<plan, runtimeVars, restarts>>

\* A read-back reserves the next attempt; its observation carries the number.
VerifyPendingPlan(d, n) ==
    /\ executed[d] = "effect"
    /\ post[d][n] = "unsent"
    /\ \A m \in 1 .. n - 1 : post[d][m] # "unsent"
    /\ Sends(d, n)
    /\ UNCHANGED <<plan, executed, runtimeVars, restarts>>

-----------------------------------------------------------------------------
(* Receipts *)

\* openOutcome() up to its await: an outcome is pending when an effect may exist.
InitialStatus(d) == IF executed[d] = "effect" THEN "pending" ELSE "not_required"

\* A receipt is taken for a ready plan that has no case.  Anything else is an
\* error, or the answer to a receipt already registered; neither changes a thing.
RegisterNativeReceipt(d) ==
    /\ post[d][0] = "wire"
    /\ IF plan[d] = "ready" /\ case[d] = "none"
       THEN /\ case' = [case EXCEPT ![d] = "registered"]
            /\ outcome' = [outcome EXCEPT ![d] = InitialStatus(d)]
            /\ Goes(d, 0, "opening")
       ELSE /\ Goes(d, 0, "over")
            /\ UNCHANGED <<case, outcome>>
    /\ UNCHANGED <<plan, executed, slot, concluded, restarts>>

\* openOutcome() has returned: only now does the case know its outcome.
LinkOutcome(d) ==
    /\ post[d][0] = "opening"
    /\ case' = [case EXCEPT ![d] = "linked"]
    /\ Goes(d, 0, "over")
    /\ UNCHANGED <<plan, executed, outcome, slot, concluded, restarts>>

-----------------------------------------------------------------------------
(* Observations *)

\* Without a case the observation is refused.  A case that is not linked yet
\* makes the handler open the outcome a second time, which the store refuses.
ReceiveObservation(d, n) ==
    /\ post[d][n] = "wire"
    /\ Goes(d, n, IF case[d] = "linked" THEN "parsing" ELSE "over")
    /\ UNCHANGED <<plan, executed, runtimeVars, restarts>>

CanBegin_Bug(d) == outcome[d] = "pending"  \* no look at the attempt in flight

\* beginVerificationAttempt(): a pending outcome without an attempt in flight.
CanBegin(d) == outcome[d] = "pending" /\ slot[d] = None

\* The outcome is read after the await.  A conclusion is answered as it is; the
\* attempt may also be refused as too early or too late.
BeginAttempt(d, n) ==
    /\ post[d][n] = "parsing"
    /\ \/ /\ CanBegin(d)
          /\ slot' = [slot EXCEPT ![d] = n]
          /\ Goes(d, n, "begun")
       \/ /\ Goes(d, n, "over")
          /\ UNCHANGED slot
    /\ UNCHANGED <<plan, executed, case, outcome, concluded, restarts>>

Release_Bug(d) == UNCHANGED slot  \* the slot is kept

\* The finally block of completeVerificationAttempt().
Release(d) == slot' = [slot EXCEPT ![d] = None]

\* completeVerificationAttempt() up to the store's update.  The attempt must be
\* the one in flight; an unbound, stale or consumed observation is an error too.
\* An error clears the slot on the way out, whoever's attempt is in it.
CompleteAttempt(d, n) ==
    /\ post[d][n] = "begun"
    /\ \/ /\ slot[d] = n
          /\ outcome[d] = "pending"
          /\ \E verdict \in Conclusions :
                /\ outcome' = [outcome EXCEPT ![d] = verdict]
                /\ concluded' = [concluded EXCEPT ![d] = verdict]
          /\ Goes(d, n, "finishing")
          /\ UNCHANGED slot
       \/ /\ Release(d)
          /\ Goes(d, n, "over")
          /\ UNCHANGED <<outcome, concluded>>
    /\ UNCHANGED <<plan, executed, case, restarts>>

\* After the awaited update.
ClearSlot(d, n) ==
    /\ post[d][n] = "finishing"
    /\ Release(d)
    /\ Goes(d, n, "over")
    /\ UNCHANGED <<plan, executed, case, outcome, concluded, restarts>>

\* The owner asks for a verification.  Only completeNativeVerification() gives a
\* case its observation, after concluding it: while the outcome is pending there
\* is none, so the attempt begins, the answer is INCONCLUSIVE, and the attempt
\* stays in flight.
VerifyPlan(d) ==
    /\ case[d] = "linked"
    /\ CanBegin(d)
    /\ slot' = [slot EXCEPT ![d] = 0]
    /\ UNCHANGED <<plan, executed, post, case, outcome, concluded, restarts>>

-----------------------------------------------------------------------------

\* A new Brain process: nothing of the plans, cases and outcomes is left, and
\* the requests it was handling fail.
ForgetRuntime ==
    /\ restarts < MaxRestarts
    /\ restarts' = restarts + 1
    /\ plan' = [d \in Decisions |-> "none"]
    /\ case' = [d \in Decisions |-> "none"]
    /\ outcome' = [d \in Decisions |-> None]
    /\ slot' = [d \in Decisions |-> None]
    /\ post' = [d \in Decisions |-> [n \in Attempts(d) |->
           IF post[d][n] \in {"unsent", "wire"} THEN post[d][n] ELSE "over"]]
    /\ UNCHANGED <<executed, concluded>>

Handle(d, n) ==
    \/ n = 0 /\ LinkOutcome(d)
    \/ n > 0 /\ (BeginAttempt(d, n) \/ CompleteAttempt(d, n) \/ ClearSlot(d, n))

OutcomeNext ==
    \E d \in Decisions :
        \/ Block(d) \/ ExecuteReadyPlan(d)
        \/ RegisterNativeReceipt(d) \/ VerifyPlan(d)
        \/ \E n \in Observations(d) :
              VerifyPendingPlan(d, n) \/ ReceiveObservation(d, n)
        \/ \E n \in Attempts(d) : Handle(d, n)

-----------------------------------------------------------------------------
(* Properties *)

\* An attempt that a request has begun is still the one in flight when the
\* request completes it.  completeVerificationAttempt() refuses any other
\* attempt, and clears the slot while refusing: two observations that both got
\* an attempt would lose both.
BegunHoldsSlot ==
    \A d \in Decisions : \A n \in Attempts(d) :
        post[d][n] = "begun" => slot[d] = n

\* An attempt the desktop reserved never blocks an outcome for good: whether its
\* observation concludes or is refused, the slot is free again.  Only the
\* attempt of verifyPlan, which nobody completes, stays.
NativeAttemptReleased ==
    \A d \in Decisions :
        (slot[d] \in Observations(d)) ~> (slot[d] = None)
=============================================================================
