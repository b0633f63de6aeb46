---------------------------- MODULE SerialStore ----------------------------
(***************************************************************************)
(* What a user of withTransaction may believe: the database is a log to    *)
(* which transactions and single statements are added one after the other, *)
(* a transaction with all of its statements or not at all.                 *)
(***************************************************************************)
EXTENDS Naturals, Sequences

CONSTANTS
    Txns, Calls,    \* transactions and single statements
    Size,           \* [Txns -> number of statements]
    Tolerant        \* transactions that go on past a statement that fails

VARIABLE log  \* executed statements, in order

Init == log = <<>>

\* The steps of t that took effect, in order: all, or for a tolerant transaction
\* any.
Transaction(t) ==
    /\ \A i \in DOMAIN log : log[i][1] # t
    /\ \E n \in 0 .. Size[t] : \E step \in [1 .. n -> 1 .. Size[t]] :
          /\ \A i, j \in 1 .. n : i < j => step[i] < step[j]
          /\ t \notin Tolerant => n = Size[t]
          /\ log' = log \o [i \in 1 .. n |-> <<t, step[i]>>]

Statement(c) == log' = Append(log, <<c, 1>>)

Next == (\E t \in Txns : Transaction(t)) \/ (\E c \in Calls : Statement(c))

Spec == Init /\ [][Next]_log
=============================================================================
