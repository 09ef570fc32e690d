SPECIFICATION Spec
CONSTANTS
    Conns = {c1, c2}
    Sessions = {s1, s2}
    Objects = {o}
    NoConn = none
    NoSession = nosession
INVARIANT OneConnection
CHECK_DEADLOCK FALSE
