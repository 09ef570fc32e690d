SPECIFICATION LiveSpec
CONSTANTS
    Ops = {a, b}
    Incoming = {m, n}
    FirstOp = a
    FirstMsg = m
    MaxBatch = 2
    QueueCap = 1
INVARIANTS NoLeakedPending AnsweredInFull
PROPERTIES ImplementsRpcCalls OpReturns CloseReleasesOps StreamEndCloses RequestAnswered
CHECK_DEADLOCK FALSE
