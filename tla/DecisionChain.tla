--------------------------- MODULE DecisionChain ---------------------------
(***************************************************************************)
(* What verification and revision promise together, without handlers,      *)
(* processes or restarts: a decision is concluded at most once, and each   *)
(* root decision grows one line of successors, each of which replaces a    *)
(* concluded decision.                                                     *)
(***************************************************************************)
EXTENDS Sequences

CONSTANTS
    Roots,      \* decisions that revise nothing
    Decisions,  \* every decision
    Verdicts    \* what a verification can conclude

VARIABLES
    verdict,    \* [Decisions -> conclusion, or "open"]
    line        \* [Roots -> the successive revisions of the root]

vars == <<verdict, line>>

Init ==
    /\ verdict = [d \in Decisions |-> "open"]
    /\ line = [r \in Roots |-> <<>>]

Conclude(d) ==
    /\ verdict[d] = "open"
    /\ \E v \in Verdicts : verdict' = [verdict EXCEPT ![d] = v]
    /\ UNCHANGED line

Current(r) == IF line[r] = <<>> THEN r ELSE line[r][Len(line[r])]

Used == Roots \cup UNION {{line[r][i] : i \in DOMAIN line[r]} : r \in Roots}

Revise(r) ==
    /\ verdict[Current(r)] # "open"
    /\ \E d \in Decisions \ Used : line' = [line EXCEPT ![r] = Append(@, d)]
    /\ UNCHANGED verdict

Next == (\E d \in Decisions : Conclude(d)) \/ (\E r \in Roots : Revise(r))

Spec == Init /\ [][Next]_vars
=============================================================================
