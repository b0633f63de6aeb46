---------------------------- MODULE StoreClients ----------------------------
(***************************************************************************)
(* Three users of the one connection, as they come together in a running   *)
(* Brain: devices that exchange a pairing code for a token                 *)
(* (security/auth.ts), the decay cycle that reads, then writes in          *)
(* transactions (memory/decay-scheduler.ts), and single calls of anything  *)
(* else.  The desktop starts the Brain, and with every start writes a new  *)
(* pairing code.                                                           *)
(***************************************************************************)
EXTENDS SqliteTransactions

CONSTANTS
    Exchanges,      \* pairing requests; each one's transaction has its name
    Cycle,          \* the tasks of a decay cycle, in order
    MayStop,        \* the calls of Cycle that may find nothing to do
    MaxCode,        \* bound: pairing codes the desktop writes
    MaxRestarts     \* bound: restarts of the Brain

ASSUME ClientsAssumption ==
    /\ Exchanges \subseteq Txns \ Tolerant
    /\ Cycle \in Seq((Txns \ Exchanges) \cup Calls)
    /\ MayStop \subseteq Calls
    /\ \A i \in DOMAIN Cycle : Cycle[i] \in MayStop => i < Len(Cycle)
    /\ MaxCode \in Nat \ {0} /\ MaxRestarts \in Nat

VARIABLES
    pairCode,       \* the code in the desktop's file, by its number
    consumed,       \* consumedPairFingerprint
    pairing,        \* pairingInProgress
    presented,      \* [Exchanges -> the code it was let in with, or None]
    exchange,       \* [Exchanges -> how far the request is]
    cycle,          \* the task of the decay cycle that is next or running
    restarts

pairVars == <<consumed, pairing, presented, exchange>>
vars == <<svars, pairCode, pairVars, cycle, restarts>>

Codes == 1 .. MaxCode

TypeOK ==
    /\ SqliteTypeOK
    /\ pairCode \in Codes
    /\ consumed \in Codes \cup {None}
    /\ pairing = (\E e \in Exchanges : exchange[e] \in {"reading", "storing"})
    /\ \A e \in Exchanges : presented[e] \in Codes \cup {None}
    /\ exchange \in [Exchanges -> {"idle", "reading", "storing", "paired", "refused"}]
    /\ cycle \in 1 .. Len(Cycle) + 1
    /\ restarts \in 0 .. MaxRestarts

Init ==
    /\ SqliteInit
    /\ pairCode = 1 /\ consumed = None /\ pairing = FALSE
    /\ presented = [e \in Exchanges |-> None]
    /\ exchange = [e \in Exchanges |-> "idle"]
    /\ cycle = 1
    /\ restarts = 0

-----------------------------------------------------------------------------
(* Pairing *)

\* The desktop's user asks for another code.
RegeneratePairCode ==
    /\ pairCode < MaxCode
    /\ pairCode' = pairCode + 1
    /\ UNCHANGED <<svars, pairVars, cycle, restarts>>

Admits_Bug(code) == code = pairCode /\ code # consumed

\* One exchange at a time, with the code of the file, which is not used up.
Admits(code) == ~pairing /\ code = pairCode /\ code # consumed

\* Synchronous up to reading the body.  The rate limit and the age of the code
\* refuse as a wrong code does.
StartExchange(e, code) ==
    /\ exchange[e] = "idle"
    /\ \/ /\ Admits(code)
          /\ pairing' = TRUE
          /\ presented' = [presented EXCEPT ![e] = code]
          /\ exchange' = [exchange EXCEPT ![e] = "reading"]
       \/ /\ exchange' = [exchange EXCEPT ![e] = "refused"]
          /\ UNCHANGED <<pairing, presented>>
    /\ UNCHANGED <<svars, pairCode, consumed, cycle, restarts>>

\* The body is there: the old tokens of the device are revoked and the new one
\* stored, in one transaction.
StoreToken(e) ==
    /\ exchange[e] = "reading"
    /\ exchange' = [exchange EXCEPT ![e] = "storing"]
    /\ RequestTxn(e)
    /\ UNCHANGED <<pairCode, consumed, pairing, presented, cycle, restarts>>

FinishExchange_Stuck(e) ==  \* the flag is cleared on success only
    /\ exchange[e] = "storing"
    /\ stage[e] = "committed"
    /\ pairing' = FALSE
    /\ exchange' = [exchange EXCEPT ![e] = "paired"]
    /\ consumed' = presented[e]
    /\ UNCHANGED <<svars, pairCode, presented, cycle, restarts>>

FinishExchange_Early(e) ==  \* answers without waiting for the transaction
    /\ exchange[e] = "storing"
    /\ pairing' = FALSE
    /\ exchange' = [exchange EXCEPT ![e] = "paired"]
    /\ consumed' = presented[e]
    /\ UNCHANGED <<svars, pairCode, presented, cycle, restarts>>

\* The code is used up only by an exchange that stored its token; whatever the
\* outcome, the next exchange may come.
FinishExchange(e) ==
    /\ exchange[e] = "storing"
    /\ stage[e] \in Over
    /\ pairing' = FALSE
    /\ exchange' = [exchange EXCEPT ![e] =
                        IF stage[e] = "committed" THEN "paired" ELSE "refused"]
    /\ consumed' = IF stage[e] = "committed" THEN presented[e] ELSE consumed
    /\ UNCHANGED <<svars, pairCode, presented, cycle, restarts>>

\* A body that is too large, not JSON, not a pairing request or cut off.
BadBody(e) ==
    /\ exchange[e] = "reading"
    /\ exchange' = [exchange EXCEPT ![e] = "refused"]
    /\ pairing' = FALSE
    /\ UNCHANGED <<svars, pairCode, consumed, presented, cycle, restarts>>

ExchangeStep(e) == StoreToken(e) \/ FinishExchange(e) \/ BadBody(e)

-----------------------------------------------------------------------------
(* The decay cycle *)

\* The next task; the cycle itself was started by the timer.
CycleTask ==
    /\ cycle <= Len(Cycle)
    /\ LET task == Cycle[cycle] IN
       IF task \in Txns THEN RequestTxn(task) ELSE RequestCall(task)
    /\ UNCHANGED <<pairCode, pairVars, cycle, restarts>>

\* A task that failed ends the cycle; a read that finds nothing stale skips the
\* transaction that would mark it.
CycleStep ==
    /\ cycle <= Len(Cycle)
    /\ LET task == Cycle[cycle] IN
       \/ stage[task] = "committed" /\ cycle' = cycle + 1
       \/ stage[task] = "committed" /\ task \in MayStop /\ cycle' = cycle + 2
       \/ stage[task] = "failed" /\ cycle' = Len(Cycle) + 1
    /\ UNCHANGED <<svars, pairCode, pairVars, restarts>>

-----------------------------------------------------------------------------
(* Everybody else, and the desktop *)

CycleTasks == {Cycle[i] : i \in DOMAIN Cycle}

SingleCall(c) ==
    /\ c \notin CycleTasks
    /\ RequestCall(c)
    /\ UNCHANGED <<pairCode, pairVars, cycle, restarts>>

StoreStep ==
    /\ (\E t \in Txns : Advance(t)) \/ (\E c \in Calls : Serve(c))
    /\ UNCHANGED <<pairCode, pairVars, cycle, restarts>>

\* The Brain dies and is started again, with a new code.
RestartBrain ==
    /\ restarts < MaxRestarts /\ pairCode < MaxCode
    /\ restarts' = restarts + 1
    /\ pairCode' = pairCode + 1
    /\ CrashStore
    /\ consumed' = None /\ pairing' = FALSE
    /\ exchange' = [e \in Exchanges |->
           IF exchange[e] \in {"reading", "storing"} THEN "refused" ELSE exchange[e]]
    /\ cycle' = Len(Cycle) + 1
    /\ UNCHANGED presented

Next ==
    \/ RegeneratePairCode
    \/ \E e \in Exchanges : (\E code \in Codes : StartExchange(e, code)) \/ ExchangeStep(e)
    \/ CycleTask \/ CycleStep
    \/ \E c \in Calls : SingleCall(c)
    \/ StoreStep
    \/ RestartBrain

\* SQLite answers, the event loop runs what is ready, and an HTTP request ends
\* or is cut off by the server's request timeout.  Nobody has to ask.
Fairness ==
    /\ \A t \in Txns : WF_vars(Advance(t) /\ UNCHANGED <<pairCode, pairVars, cycle, restarts>>)
    /\ \A c \in Calls : WF_vars(Serve(c) /\ UNCHANGED <<pairCode, pairVars, cycle, restarts>>)
    /\ \A e \in Exchanges : WF_vars(ExchangeStep(e))

Spec == Init /\ [][Next]_vars /\ Fairness

-----------------------------------------------------------------------------
(* Properties *)

\* Two devices are never paired by the same code, whatever the desktop does to
\* its file while the first exchange is under way (handlePairExchange keeps its
\* snapshot and consumes that), and over a restart.
PairingCodeOnce ==
    \A e1, e2 \in Exchanges :
        e1 # e2 /\ exchange[e1] = "paired" /\ exchange[e2] = "paired"
        => presented[e1] # presented[e2]

\* A device that was told its token has it on disk, and its old tokens revoked:
\* no later rollback or crash takes that back.
PairedIsDurable ==
    \A e \in Exchanges : exchange[e] = "paired" =>
        \A i \in 1 .. Size[e] : \E j \in DOMAIN Durable : Durable[j] = <<e, i>>

\* An exchange that fails, at whatever point, does not keep the others out.
PairingIsFreed == pairing ~> ~pairing
=============================================================================
