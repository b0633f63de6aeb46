------------------------ MODULE StoreClients_proofs ------------------------
(***************************************************************************)
(* Proofs about StoreClients, for any finite set of transactions of any    *)
(* size, any calls and exchanges, any decay cycle and any number of codes  *)
(* and restarts: types, the pairing code, the durable token, and that the  *)
(* connection implements SerialStore.                                      *)
(***************************************************************************)
EXTENDS StoreClients, SqliteTransactions_proofs

UnderWay(e) == exchange[e] \in {"reading", "storing"}

ClientsType ==
    /\ pairCode \in Codes
    /\ consumed \in Codes \cup {None}
    /\ presented \in [Exchanges -> Codes \cup {None}]
    /\ exchange \in [Exchanges -> {"idle", "reading", "storing", "paired", "refused"}]
    /\ cycle \in 1 .. Len(Cycle) + 1
    /\ restarts \in 0 .. MaxRestarts

\* One exchange is under way at a time, and pairing says so.
PairingOK ==
    /\ pairing = (\E e \in Exchanges : UnderWay(e))
    /\ \A e, f \in Exchanges : UnderWay(e) /\ UnderWay(f) => e = f

\* A code that paired a device is behind the file's, or is the one that is used
\* up; an exchange under way came with a later one.
CodeOK ==
    /\ \A e \in Exchanges : UnderWay(e) \/ exchange[e] = "paired" =>
          presented[e] \in Codes /\ presented[e] <= pairCode
    /\ \A e \in Exchanges :
          exchange[e] = "paired" /\ presented[e] = pairCode => consumed = presented[e]
    /\ \A e, f \in Exchanges :
          exchange[e] = "paired" /\ UnderWay(f) => presented[e] < presented[f]

PairedCommitted ==
    \A e \in Exchanges : exchange[e] = "paired" => stage[e] = "committed"

ClientInv == ClientsType /\ PairingOK /\ CodeOK /\ PairingCodeOnce /\ PairedCommitted

IInv == StoreInv /\ ClientInv
-----------------------------------------------------------------------------
USE SqliteAssumption, ClientsAssumption

LEMMA InitIInv == Init => IInv
<1> SUFFICES ASSUME Init PROVE IInv
  OBVIOUS
<1>1. StoreInv
  BY InitStoreInv DEF Init
<1>2. ClientsType
  <2>1. 1 \in Codes /\ 1 \in 1 .. Len(Cycle) + 1 /\ 0 \in 0 .. MaxRestarts
    BY LenProperties DEF Codes
  <2> QED  BY <2>1 DEF Init, ClientsType
<1>3. PairingOK /\ CodeOK /\ PairingCodeOnce /\ PairedCommitted
  BY DEF Init, PairingOK, CodeOK, PairingCodeOnce, PairedCommitted, UnderWay
<1> QED  BY <1>1, <1>2, <1>3 DEF IInv, ClientInv

LEMMA StoreUnchanged ==
    ASSUME StoreInv, UNCHANGED svars
    PROVE  StoreInv' /\ Durable' = Durable
<1> USE DEF svars, gateVars, txnVars, engineVars
<1>1. SqliteTypeOK' /\ FunctionsOK'
  BY DEF StoreInv, SqliteTypeOK, FunctionsOK
<1>2. \A q : Queue(q) => Queue(q)'
  BY DEF Queue, Active, PreviousOver
<1>3. Asked' = Asked /\ pending' = pending /\ gates' = gates
  BY DEF Asked
<1>4. QueueOK'
  BY <1>2, <1>3 DEF QueueOK, StoreInv
<1>5. Durable' = Durable
  BY DEF Durable
<1>6. FlightOK' /\ LogOK'
  BY <1>5 DEF StoreInv, FlightOK, Owns, LogOK, BodyOK
<1> QED  BY <1>1, <1>4, <1>5, <1>6 DEF StoreInv

\* What a step of the clients is to the connection.
StoreMove ==
    \/ ConnectionStep
    \/ CrashStore
    \/ UNCHANGED svars

LEMMA CycleTaskStep ==
    ASSUME IInv, CycleTask
    PROVE  ConnectionStep
<1>1. cycle \in 1 .. Len(Cycle)
  BY LenProperties DEF IInv, ClientInv, ClientsType, CycleTask
<1>2. Cycle[cycle] \in Txns \cup Calls
  BY <1>1, ElementOfSeq
<1> QED  BY <1>2 DEF CycleTask, ConnectionStep

LEMMA StoreMoves ==
    ASSUME IInv, [Next]_vars
    PROVE  StoreMove
  BY CycleTaskStep
     DEF Next, vars, StoreMove, ConnectionStep, RegeneratePairCode, StartExchange, ExchangeStep,
         StoreToken, FinishExchange, BadBody, CycleStep, SingleCall, StoreStep, RestartBrain

LEMMA StoreMoveKeeps ==
    ASSUME StoreInv, StoreMove
    PROVE  /\ StoreInv'
           /\ Serial!Next \/ Durable' = Durable
           /\ \A t \in Txns : stage[t] \in Over => stage'[t] = stage[t]
<1>1. CASE ConnectionStep
  BY <1>1, ConnectionKeeps, SerialStep, OverStays DEF ConnectionStep
<1>2. CASE CrashStore
  <2>1. \A t \in Txns : stage[t] \in Over => stage'[t] = stage[t]
    BY <1>2 DEF CrashStore
  <2> QED  BY <1>2, <2>1, CrashKeeps
<1>3. CASE UNCHANGED svars
  BY <1>3, StoreUnchanged DEF svars
<1> QED  BY <1>1, <1>2, <1>3 DEF StoreMove

-----------------------------------------------------------------------------
(* The clients *)

LEMMA CodesAreNumbers == Codes \subseteq Nat
  BY DEF Codes

LEMMA ClientsTypeStep ==
    ASSUME IInv, [Next]_vars
    PROVE  ClientsType'
<1>0. ClientsType /\ CodeOK
  BY DEF IInv, ClientInv
<1> USE DEF ClientsType
<1>1. CASE RegeneratePairCode
  BY <1>0, <1>1 DEF RegeneratePairCode, pairVars, Codes
<1>2. ASSUME NEW e \in Exchanges, NEW code \in Codes, StartExchange(e, code) PROVE ClientsType'
  <2>1. /\ exchange' = [exchange EXCEPT ![e] = "reading"] \/ exchange' = [exchange EXCEPT ![e] = "refused"]
        /\ presented' = [presented EXCEPT ![e] = code] \/ presented' = presented
        /\ UNCHANGED <<pairCode, consumed, cycle, restarts>>
    BY <1>2 DEF StartExchange
  <2>2. exchange' \in [Exchanges -> {"idle", "reading", "storing", "paired", "refused"}]
    <3>1. exchange \in [Exchanges -> {"idle", "reading", "storing", "paired", "refused"}]
      BY <1>0
    <3> QED  BY <2>1, <3>1
  <2>3. presented' \in [Exchanges -> Codes \cup {None}]
    <3>1. presented \in [Exchanges -> Codes \cup {None}]
      BY <1>0
    <3> QED  BY <2>1, <3>1
  <2> QED  BY <1>0, <2>1, <2>2, <2>3
<1>3. ASSUME NEW e \in Exchanges, ExchangeStep(e) PROVE ClientsType'
  <2>1. exchange[e] \in {"storing"} => presented[e] \in Codes
    BY <1>0 DEF CodeOK, UnderWay
  <2> QED  BY <1>0, <1>3, <2>1 DEF ExchangeStep, StoreToken, FinishExchange, BadBody
<1>4. CASE CycleStep
  <2>1. cycle \in 1 .. Len(Cycle) /\ DOMAIN Cycle = 1 .. Len(Cycle) /\ Len(Cycle) \in Nat
    BY <1>0, <1>4, LenProperties DEF CycleStep
  <2>2. Cycle[cycle] \in MayStop => cycle < Len(Cycle)
    BY <2>1
  <2>3. cycle' \in 1 .. Len(Cycle) + 1
    BY <1>4, <2>1, <2>2 DEF CycleStep
  <2> QED  BY <1>0, <1>4, <2>3 DEF CycleStep, pairVars
<1>5. CASE RestartBrain
  <2>1. Len(Cycle) + 1 \in 1 .. Len(Cycle) + 1
    BY LenProperties
  <2>2. pairCode' \in Codes /\ restarts' \in 0 .. MaxRestarts
    BY <1>0, <1>5 DEF RestartBrain, Codes
  <2> QED  BY <1>0, <1>5, <2>1, <2>2 DEF RestartBrain
<1>6. CASE UNCHANGED <<pairCode, pairVars, cycle, restarts>>
  BY <1>0, <1>6 DEF pairVars
<1> QED
  BY <1>1, <1>2, <1>3, <1>4, <1>5, <1>6 DEF Next, vars, CycleTask, SingleCall, StoreStep

LEMMA PairingStep ==
    ASSUME IInv, [Next]_vars
    PROVE  PairingOK' /\ CodeOK' /\ PairingCodeOnce'
<1>0. /\ ClientsType /\ PairingOK /\ CodeOK /\ PairingCodeOnce /\ Codes \subseteq Nat
      /\ None \notin Nat
  BY CodesAreNumbers DEF IInv, ClientInv
<1>8. /\ pairCode \in Nat
      /\ \A e \in Exchanges : UnderWay(e) \/ exchange[e] = "paired" =>
            presented[e] \in Nat /\ presented[e] <= pairCode
  BY <1>0 DEF ClientsType, CodeOK
<1> USE DEF ClientsType, PairingOK, CodeOK, PairingCodeOnce, UnderWay
<1>1. CASE RegeneratePairCode
  <2>1. \A e \in Exchanges : presented'[e] = presented[e] /\ exchange'[e] = exchange[e]
    BY <1>1 DEF RegeneratePairCode, pairVars
  <2>2. \A e \in Exchanges : exchange[e] = "paired" => presented[e] < pairCode'
    BY <1>0, <1>8, <1>1 DEF RegeneratePairCode
  <2> QED  BY <1>0, <1>8, <1>1, <2>1, <2>2 DEF RegeneratePairCode, pairVars
<1>2. ASSUME NEW e \in Exchanges, NEW code \in Codes, StartExchange(e, code)
      PROVE  PairingOK' /\ CodeOK' /\ PairingCodeOnce'
  <2>1. CASE exchange' = [exchange EXCEPT ![e] = "refused"] /\ UNCHANGED <<pairing, presented>>
    BY <1>0, <1>2, <2>1 DEF StartExchange
  <2>2. CASE /\ Admits(code) /\ pairing' = TRUE
             /\ presented' = [presented EXCEPT ![e] = code]
             /\ exchange' = [exchange EXCEPT ![e] = "reading"]
    <3>1. /\ code = pairCode /\ code # consumed /\ pairCode' = pairCode /\ consumed' = consumed
          /\ \A f \in Exchanges : ~UnderWay(f)
      BY <1>0, <1>2, <2>2 DEF StartExchange, Admits
    <3>2. exchange[e] = "idle" /\ presented'[e] = code /\ exchange'[e] = "reading"
      BY <1>0, <1>2, <2>2 DEF StartExchange
    <3>3. \A f \in Exchanges \ {e} : presented'[f] = presented[f] /\ exchange'[f] = exchange[f]
      BY <1>0, <2>2
    <3>4. \A f \in Exchanges : exchange[f] = "paired" => presented[f] < code
      BY <1>0, <1>8, <3>1
    <3> QED  BY <1>0, <1>8, <2>2, <3>1, <3>2, <3>3, <3>4
  <2> QED  BY <1>2, <2>1, <2>2 DEF StartExchange
<1>3. ASSUME NEW e \in Exchanges, StoreToken(e)
      PROVE  PairingOK' /\ CodeOK' /\ PairingCodeOnce'
  BY <1>0, <1>3 DEF StoreToken
<1>4. ASSUME NEW e \in Exchanges, BadBody(e)
      PROVE  PairingOK' /\ CodeOK' /\ PairingCodeOnce'
  BY <1>0, <1>4 DEF BadBody
<1>5. ASSUME NEW e \in Exchanges, FinishExchange(e)
      PROVE  PairingOK' /\ CodeOK' /\ PairingCodeOnce'
  <2>1. /\ exchange[e] = "storing" /\ presented' = presented /\ pairCode' = pairCode
        /\ pairing' = FALSE /\ \A f \in Exchanges \ {e} : ~UnderWay(f)
        /\ \A f \in Exchanges \ {e} : exchange'[f] = exchange[f]
    BY <1>0, <1>5 DEF FinishExchange
  <2>2. CASE exchange'[e] = "refused" /\ consumed' = consumed
    BY <1>0, <1>8, <2>1, <2>2
  <2>3. CASE exchange'[e] = "paired" /\ consumed' = presented[e]
    <3>1. \A f \in Exchanges \ {e} : exchange[f] = "paired" =>
             presented[f] < presented[e] /\ presented[f] # pairCode
      BY <1>0, <1>8, <2>1
    <3>2. \A f \in Exchanges : exchange'[f] = "paired" =>
             presented[f] \in Codes /\ presented[f] <= pairCode
      BY <1>0, <1>8, <2>1
    <3>3. PairingOK'
      BY <2>1, <2>3
    <3>4. CodeOK'
      BY <2>1, <2>3, <3>1, <3>2
    <3>5. PairingCodeOnce'
      BY <1>0, <1>8, <2>1, <2>3, <3>1
    <3> QED  BY <3>3, <3>4, <3>5
  <2> QED  BY <1>0, <1>5, <2>2, <2>3 DEF FinishExchange
<1>6. CASE RestartBrain
  <2>1. /\ \A f \in Exchanges : exchange'[f] = "paired" <=> exchange[f] = "paired"
        /\ \A f \in Exchanges : ~UnderWay(f)'
        /\ presented' = presented /\ pairCode' = pairCode + 1 /\ pairing' = FALSE
    BY <1>0, <1>6 DEF RestartBrain
  <2>2. \A f \in Exchanges : exchange[f] = "paired" => presented[f] < pairCode'
    BY <1>0, <1>8, <2>1
  <2>3. \A f \in Exchanges : exchange'[f] = "paired" =>
            presented'[f] \in Codes /\ presented'[f] < pairCode'
    BY <1>0, <1>8, <2>1, <2>2
  <2>4. PairingOK' /\ PairingCodeOnce'
    BY <1>0, <2>1
  <2>5. pairCode' \in Nat
    BY <1>8, <2>1
  <2>6. CodeOK'
    <3>1. ASSUME NEW f \in Exchanges, exchange'[f] = "paired"
          PROVE  presented'[f] \in Codes /\ presented'[f] <= pairCode' /\ presented'[f] # pairCode'
      <4>1. presented'[f] \in Codes /\ presented'[f] < pairCode'
        BY <2>3, <3>1
      <4>2. presented'[f] \in Nat
        BY <4>1, CodesAreNumbers
      <4>3. \A m, n \in Nat : m < n => m <= n /\ m # n
        OBVIOUS
      <4> QED  BY <2>5, <4>1, <4>2, <4>3
    <3>2. \A f \in Exchanges : ~UnderWay(f)'
      BY <2>1
    <3> QED  BY <3>1, <3>2 DEF CodeOK
  <2> QED  BY <2>4, <2>6
<1>7. CASE UNCHANGED <<pairCode, pairVars>>
  BY <1>0, <1>7 DEF pairVars
<1> QED
  BY <1>1, <1>2, <1>3, <1>4, <1>5, <1>6, <1>7
     DEF Next, vars, ExchangeStep, CycleTask, CycleStep, SingleCall, StoreStep

LEMMA CommittedStep ==
    ASSUME IInv, [Next]_vars
    PROVE  PairedCommitted'
<1>0. ClientsType /\ PairedCommitted /\ "committed" \in Over /\ Exchanges \subseteq Txns
  BY DEF IInv, ClientInv, Over
<1>1. \A e \in Exchanges : stage[e] = "committed" => stage'[e] = "committed"
  BY <1>0, StoreMoves, StoreMoveKeeps DEF IInv
<1>2. \A e \in Exchanges : exchange'[e] = "paired" =>
          exchange[e] = "paired" \/ stage[e] = "committed"
  BY <1>0 DEF ClientsType, Next, vars, pairVars, RegeneratePairCode, StartExchange, ExchangeStep,
              StoreToken, FinishExchange, BadBody, CycleTask, CycleStep, SingleCall, StoreStep,
              RestartBrain
<1> QED  BY <1>0, <1>1, <1>2 DEF PairedCommitted

LEMMA IInvStep == IInv /\ [Next]_vars => IInv'
<1> SUFFICES ASSUME IInv, [Next]_vars PROVE IInv'
  OBVIOUS
<1>1. StoreInv'
  BY StoreMoves, StoreMoveKeeps DEF IInv
<1> QED  BY <1>1, ClientsTypeStep, PairingStep, CommittedStep DEF IInv, ClientInv

-----------------------------------------------------------------------------
(* Theorems *)

\* The invariant of the connection and of the pairing on it, over any mix of
\* statements, transactions, failures, new codes and restarts.
THEOREM Inductive == Spec => []IInv
  BY InitIInv, IInvStep, PTL DEF Spec

\* Every variable keeps its type; the count of pending transactions, the gate
\* and the pairing flag say what the calls are doing.
THEOREM TypeCorrect == Spec => []TypeOK
<1>1. IInv => TypeOK
  BY DEF IInv, StoreInv, ClientInv, ClientsType, PairingOK, UnderWay, TypeOK
<1> QED  BY <1>1, Inductive, PTL

\* Two devices are never paired by one code.
THEOREM OneDevicePerCode == Spec => []PairingCodeOnce
<1>1. IInv => PairingCodeOnce
  BY DEF IInv, ClientInv
<1> QED  BY <1>1, Inductive, PTL

\* The token of a device that was told it is paired is on disk for good.
THEOREM TokensLast == Spec => []PairedIsDurable
<1>1. IInv => PairedIsDurable
  BY DEF IInv, StoreInv, LogOK, ClientInv, PairedCommitted, PairedIsDurable
<1> QED  BY <1>1, Inductive, PTL

\* The connection with its queue, gate and drains implements a store to which
\* transactions and statements are added one after the other.
THEOREM ImplementsSerialStore == Spec => SerialStoreSpec
<1>1. Init => Serial!Init
  BY InitSerial DEF Init
<1>2. IInv /\ [Next]_vars => [Serial!Next]_Durable
  BY StoreMoves, StoreMoveKeeps DEF IInv
<1> QED  BY <1>1, <1>2, Inductive, PTL DEF Spec, SerialStoreSpec, Serial!Spec
=============================================================================
