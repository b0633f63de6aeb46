SPECIFICATION Spec
CONSTANTS
    None = None
    e1 = e1
    e2 = e2
    stale = stale
    readStale = readStale
    left = left
    Txns <- MCTxns
    Calls <- MCCalls
    Size <- MCSize
    Owner <- MCOwner
    Tolerant = {stale}
    Exchanges = {e1, e2}
    Cycle <- MCCycle
    MayStop = {readStale}
    MaxCode = 2
    MaxRestarts = 1
CHECK_DEADLOCK FALSE
INVARIANTS TypeOK PairingCodeOnce PairedIsDurable
PROPERTIES SerialStoreSpec EveryCallEnds PairingIsFreed
