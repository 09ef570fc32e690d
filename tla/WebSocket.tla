----------------------------- MODULE WebSocket -----------------------------
(***************************************************************************)
(* The two ends of a WebSocket connection: websocket_client.go and         *)
(* websocket_server.go.                                                    *)
(*   - A message is encoded by the goroutine that sends it, so a request   *)
(*     that cannot be encoded fails at once; writeLoop gets bytes.         *)
(*   - A write error is recorded, but the caller whose request it was is   *)
(*     not told: it waits for its timer or for a Close.                    *)
(*   - Every end of the stream is a read error, and recorded.              *)
(***************************************************************************)
EXTENDS Link

OverWebSocket(kinds, o) == transport = "websocket" /\ plan[o].kind \in kinds
WebSocketUsed == transport = "websocket"

-----------------------------------------------------------------------------
(* The client.                                                              *)

WebSocketDial == WebSocketUsed /\ (Established \/ GiveUp)

WebSocketClientCall(o) ==
    OverWebSocket({"call"}, o) /\ (Operation("client", o, FALSE) \/ EncodeFails("client", o))

WebSocketClientNotify(o) ==
    OverWebSocket({"notify"}, o) /\ (Operation("client", o, FALSE) \/ EncodeFails("client", o))

WebSocketClientCallBatch(o) ==
    OverWebSocket({"batch"}, o) /\ (Operation("client", o, FALSE) \/ EncodeFails("client", o))

WebSocketClientObject(o) ==
    WebSocketUsed /\ plan[o].end = "client" /\ (Register(o) \/ Unregister(o))

WebSocketClientClose == WebSocketUsed /\ Close("client", TRUE)

WebSocketClientReadLoop ==
    WebSocketUsed /\ (ReadMessage("client") \/ ReadEnds("client", TRUE))

WebSocketClientHandleRequest(o) == OverWebSocket({"call", "notify"}, o) /\ Handle("client", o)
WebSocketClientHandleBatch(o)   == OverWebSocket({"batch"}, o) /\ Handle("client", o)

WebSocketClientWriteLoop ==
    WebSocketUsed /\ ( \/ Write("client") \/ WriterSeesClosed("client")
                       \/ WriterGivesUp("client", FALSE, TRUE, FALSE) )

-----------------------------------------------------------------------------
(* The server's connection.  The application gets it from a handler only.   *)

WebSocketHandle == WebSocketUsed /\ Serve(TRUE)

WebSocketConnOperation(o) ==
    Operation("server", o, KeptByHandler) \/ EncodeFails("server", o)

WebSocketConnCall(o)      == OverWebSocket({"call"}, o) /\ WebSocketConnOperation(o)
WebSocketConnNotify(o)    == OverWebSocket({"notify"}, o) /\ WebSocketConnOperation(o)
WebSocketConnCallBatch(o) == OverWebSocket({"batch"}, o) /\ WebSocketConnOperation(o)

WebSocketConnObject(o) ==
    WebSocketUsed /\ plan[o].end = "server" /\ (Register(o) \/ Unregister(o))

WebSocketConnClose == WebSocketUsed /\ Close("server", TRUE)

WebSocketConnReadLoop ==
    WebSocketUsed /\ (ReadMessage("server") \/ ReadEnds("server", TRUE))

WebSocketConnHandleRequest(o) == OverWebSocket({"call", "notify"}, o) /\ Handle("server", o)
WebSocketConnHandleBatch(o)   == OverWebSocket({"batch"}, o) /\ Handle("server", o)

WebSocketConnWriteLoop ==
    WebSocketUsed /\ ( \/ Write("server") \/ WriterSeesClosed("server")
                       \/ WriterGivesUp("server", FALSE, TRUE, FALSE) )

WebSocketNext ==
    \/ WebSocketDial \/ WebSocketClientClose
    \/ WebSocketClientReadLoop \/ WebSocketClientWriteLoop
    \/ WebSocketHandle \/ WebSocketConnClose
    \/ WebSocketConnReadLoop \/ WebSocketConnWriteLoop
    \/ \E o \in Ops :
         \/ WebSocketClientCall(o) \/ WebSocketClientNotify(o)
         \/ WebSocketClientCallBatch(o) \/ WebSocketClientObject(o)
         \/ WebSocketClientHandleRequest(o) \/ WebSocketClientHandleBatch(o)
         \/ WebSocketConnCall(o) \/ WebSocketConnNotify(o)
         \/ WebSocketConnCallBatch(o) \/ WebSocketConnObject(o)
         \/ WebSocketConnHandleRequest(o) \/ WebSocketConnHandleBatch(o)
=============================================================================
