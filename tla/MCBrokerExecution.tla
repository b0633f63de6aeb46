-------------------------- MODULE MCBrokerExecution --------------------------
(* Instances of BrokerExecution for TLC. *)
EXTENDS BrokerExecution, TLC

\* No plan expires before the last instant of the clock.
LatePlanExpiry == [p \in Plans |-> MaxTime]

AllSymmetry ==
    Permutations(Threads) \cup Permutations(Approvals) \cup Permutations(Instances)
=============================================================================
