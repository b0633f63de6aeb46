------------------------- MODULE SingleUseExecution -------------------------
(***************************************************************************)
(* What the native execution broker promises about every approved plan,    *)
(* whatever threads, processes, crashes and failed writes do: a plan id is *)
(* first committed (from then on no restart can take it up again), then    *)
(* its process is created at most once, and nothing ever takes a plan back *)
(* to an earlier phase.  A committed plan may never be executed: the       *)
(* broker gives up availability, never single use.                         *)
(***************************************************************************)
CONSTANT Plans

VARIABLE phase      \* [Plans -> {"fresh", "committed", "executed"}]

Phases == {"fresh", "committed", "executed"}

Init == phase = [p \in Plans |-> "fresh"]

\* One write may commit several plans: also those an earlier call could not write.
Commit(S) ==
    /\ \A p \in S : phase[p] = "fresh"
    /\ phase' = [p \in Plans |-> IF p \in S THEN "committed" ELSE phase[p]]

Execute(p) ==
    /\ phase[p] = "committed"
    /\ phase' = [phase EXCEPT ![p] = "executed"]

Next == (\E S \in SUBSET Plans : Commit(S)) \/ (\E p \in Plans : Execute(p))

Spec == Init /\ [][Next]_phase
=============================================================================
