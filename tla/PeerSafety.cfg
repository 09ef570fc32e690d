SPECIFICATION SafetySpec
CONSTANTS
    Ops = {a, b}
    Incoming = {m, n}
    FirstOp = a
    FirstMsg = m
    MaxBatch = 0
    QueueCap = 1
SYMMETRY Symmetry
INVARIANTS TypeOK ResponseMatchesCall AwaitedIsPending ClosedIsUnmapped
    WriteErrorReachesCaller OneMessageAfterClose
PROPERTY SentOnce
CHECK_DEADLOCK FALSE
