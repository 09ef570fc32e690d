SPECIFICATION JSONSpec
CONSTANTS
    Long = v
    Short = w
    Workers = {v, w}
    Batches <- MCBatches
INVARIANT LocalRefIsEntry
CHECK_DEADLOCK FALSE
