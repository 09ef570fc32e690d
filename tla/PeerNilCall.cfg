SPECIFICATION SafetySpec
CONSTANTS
    Ops = {a, b}
    Incoming = {m, n}
    FirstOp = a
    FirstMsg = m
    MaxBatch = 0
    QueueCap = 1
INVARIANT NoNilResponse
CHECK_DEADLOCK FALSE
