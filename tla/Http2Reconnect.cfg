SPECIFICATION FairSpec
CONSTANTS
    Conns = {c1, c2}
    Sessions = {s1, s2}
    Objects = {o}
    NoConn = none
    NoSession = nosession
INVARIANTS TypeOK ClosedForgotten OneWhenSequential
PROPERTIES SuccessorKept DetachedEnd
CHECK_DEADLOCK FALSE
