SPECIFICATION MCSpec
CONSTANTS
    Long = v
    Short = w
    Workers = {v, w}
    Batches <- MCBatches
INVARIANTS TypeOK EachAnsweredOnce  LocalRefExact
    RefsDistinct DisposedOnce
PROPERTY NeverRebound
CHECK_DEADLOCK FALSE
