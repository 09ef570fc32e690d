SPECIFICATION HttpSpec
CONSTANTS
    Ops = {a, b, c}
    First = a
    Second = b
    Third = c
    NoOp = NoOp
    Attempts = 2
    MaxTroubles = 2
    MaxSessions = 4
INVARIANT RunsOnce
CHECK_DEADLOCK FALSE
