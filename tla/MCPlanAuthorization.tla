------------------------ MODULE MCPlanAuthorization ------------------------
(* Instances of PlanAuthorization for TLC. *)
EXTENDS PlanAuthorization, TLC

CallsAndGrants == Permutations(Calls) \cup Permutations(Grants)
=============================================================================
