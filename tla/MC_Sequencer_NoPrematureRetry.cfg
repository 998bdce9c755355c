CONSTANTS
    s1 = s1
    Senders <- MCSenders
    MaxSeq <- MCMaxSeq
    TxTimeout <- MCTxTimeout
    MaxHeight <- MCMaxHeight
    InitChainHeight <- MCInitChainHeight
    MaxTasks <- MCMaxTasks
    MaxInFlight <- MCMaxInFlight
    MaxLag <- MCMaxLag
SPECIFICATION Spec
\* master_loop blocks on an empty queue once the bounded chain stops.
CHECK_DEADLOCK FALSE
PROPERTIES
    NoPrematureRetry
