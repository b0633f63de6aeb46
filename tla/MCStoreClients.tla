--------------------------- MODULE MCStoreClients ---------------------------
EXTENDS StoreClients, TLC

CONSTANTS e1, e2, stale, readStale, left

MCTxns == {e1, e2, stale}
MCCalls == {readStale, left}
MCSize == [t \in MCTxns |-> 2]
MCOwner == [c \in MCCalls |-> IF c = left THEN e1 ELSE None]
MCCycle == <<readStale, stale>>
=============================================================================
