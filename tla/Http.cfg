SPECIFICATION HttpSpec
CONSTANTS
    Ops = {a, b, c}
    First = a
    Second = b
    Third = c
    NoOp = NoOp
    Attempts = 2
    MaxTroubles = 2
    MaxSessions = 4
INVARIANTS TypeOK HandedOutIsFound MissingOnlyIfGone LeaksOnlyIfInterrupted
    OneSessionWhenSequential
PROPERTIES ImplementsRemoteCalls SessionsEnd
CHECK_DEADLOCK FALSE
