---------------------------- MODULE WebTransport ----------------------------
(***************************************************************************)
(* The two ends of a WebTransport session with one bidirectional stream:   *)
(* webtransport_client.go and webtransport_server.go.                      *)
(*   - The client opens the stream, and the server sees it once the client *)
(*     has sent something on it; until then the server runs no loop.       *)
(*   - Messages are encoded by writeLoop, which tells the caller of a      *)
(*     single request that it could not be encoded or written.             *)
(*   - Every end of the stream is a read error, and recorded.              *)
(*   - The application of the server is handed a connection when its loops *)
(*     run, before any request.                                            *)
(***************************************************************************)
EXTENDS Link

WebTransportUsed == transport = "webtransport"
OverWebTransport(kinds, o) == WebTransportUsed /\ plan[o].kind \in kinds

-----------------------------------------------------------------------------
(* The client.                                                              *)

WebTransportDial == WebTransportUsed /\ (Established \/ GiveUp)

WebTransportClientCall(o)      == OverWebTransport({"call"}, o) /\ Operation("client", o, FALSE)
WebTransportClientNotify(o)    == OverWebTransport({"notify"}, o) /\ Operation("client", o, FALSE)
WebTransportClientCallBatch(o) == OverWebTransport({"batch"}, o) /\ Operation("client", o, FALSE)

WebTransportClientObject(o) ==
    WebTransportUsed /\ plan[o].end = "client" /\ (Register(o) \/ Unregister(o))

WebTransportClientClose ==
    WebTransportUsed /\ Close("client", TRUE)

WebTransportClientReadLoop ==
    WebTransportUsed /\ (ReadMessage("client") \/ ReadEnds("client", TRUE))

WebTransportClientHandleRequest(o) ==
    OverWebTransport({"call", "notify"}, o) /\ Handle("client", o)
WebTransportClientHandleBatch(o) == OverWebTransport({"batch"}, o) /\ Handle("client", o)

WebTransportClientWriteLoop ==
    WebTransportUsed /\ ( \/ Write("client") \/ WriterSeesClosed("client")
                          \/ WriterGivesUp("client", TRUE, TRUE, TRUE) )

-----------------------------------------------------------------------------
(* The server's connection.                                                 *)

\* handleWithCallback waits in AcceptStream, and closes the connection if that fails.
WebTransportHandle == WebTransportUsed /\ (Serve(FALSE) \/ AcceptStream)

WebTransportConnOperation(o) ==
    Operation("server", o, reader["server"] \notin {"none", "accept"})

WebTransportConnCall(o)      == OverWebTransport({"call"}, o) /\ WebTransportConnOperation(o)
WebTransportConnNotify(o)    == OverWebTransport({"notify"}, o) /\ WebTransportConnOperation(o)
WebTransportConnCallBatch(o) == OverWebTransport({"batch"}, o) /\ WebTransportConnOperation(o)

WebTransportConnObject(o) ==
    WebTransportUsed /\ plan[o].end = "server" /\ (Register(o) \/ Unregister(o))

WebTransportConnClose ==
    /\ WebTransportUsed /\ reader["server"] # "accept"
    /\ Close("server", TRUE)

WebTransportConnReadLoop ==
    WebTransportUsed /\ (ReadMessage("server") \/ ReadEnds("server", TRUE))

WebTransportConnHandleRequest(o) ==
    OverWebTransport({"call", "notify"}, o) /\ Handle("server", o)
WebTransportConnHandleBatch(o) == OverWebTransport({"batch"}, o) /\ Handle("server", o)

WebTransportConnWriteLoop ==
    WebTransportUsed /\ ( \/ Write("server") \/ WriterSeesClosed("server")
                          \/ WriterGivesUp("server", TRUE, TRUE, TRUE) )

WebTransportNext ==
    \/ WebTransportDial \/ WebTransportClientClose
    \/ WebTransportClientReadLoop \/ WebTransportClientWriteLoop
    \/ WebTransportHandle \/ WebTransportConnClose
    \/ WebTransportConnReadLoop \/ WebTransportConnWriteLoop
    \/ \E o \in Ops :
         \/ WebTransportClientCall(o) \/ WebTransportClientNotify(o)
         \/ WebTransportClientCallBatch(o) \/ WebTransportClientObject(o)
         \/ WebTransportClientHandleRequest(o) \/ WebTransportClientHandleBatch(o)
         \/ WebTransportConnCall(o) \/ WebTransportConnNotify(o)
         \/ WebTransportConnCallBatch(o) \/ WebTransportConnObject(o)
         \/ WebTransportConnHandleRequest(o) \/ WebTransportConnHandleBatch(o)
=============================================================================
