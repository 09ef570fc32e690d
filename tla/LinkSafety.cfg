SPECIFICATION LinkSpec
CONSTANTS
    Ops = {a, b, c}
    NoOp = noOp
    First = a
    Second = b
    Third = c
    Transports = {"websocket", "http2", "webtransport"}
    QueueCap = 1
    WireCap = 1
    MaxTroubles = 1
INVARIANTS TypeOK  
PROPERTIES ImplementsRemoteCalls
CHECK_DEADLOCK FALSE
