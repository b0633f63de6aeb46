------------------------ MODULE MCDecisionRevision -------------------------
EXTENDS DecisionRevision, TLC

CONSTANTS d0, d1, d2, c1, c2, why1, why2

\* Two read-backs race for the outcome of the root; the revised decisions are
\* read back once.
MCDecisions == {d0, d1, d2}
MCReadbacks == d0 :> 2 @@ d1 :> 1 @@ d2 :> 0

\* Two calls of one intent, or of two.
MCReasons == c1 :> {why1} @@ c2 :> {why1, why2}
=============================================================================
