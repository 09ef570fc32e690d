---------------------------- MODULE Http2Stream ----------------------------
(***************************************************************************)
(* The two ends of a connection made of one HTTP/2 request whose body and  *)
(* response stay open: http2_client.go, and the HTTP2Conn of               *)
(* http2_server.go (its table of sessions is Http2Sessions.tla).           *)
(*   - Messages are encoded by writeLoop; a request that cannot be encoded *)
(*     or written ends it, and the caller is not told.                     *)
(*   - HTTP2Conn records no error: its operations are never refused, and   *)
(*     an item its writeLoop gives up leaves the connection open and mute. *)
(*   - The context of HTTP2Conn is that of the request: when the client    *)
(*     goes its calls end as if they had timed out, and writeLoop stops.   *)
(*   - The session outlives the connection, so its objects are kept.       *)
(***************************************************************************)
EXTENDS Link

Http2Used == transport = "http2"
OverHttp2(kinds, o) == Http2Used /\ plan[o].kind \in kinds

-----------------------------------------------------------------------------
(* The client.                                                              *)

\* connect: the response headers arrive, or an error or 5 s come first.
Http2Connect == Http2Used /\ (Established \/ GiveUp)

Http2ClientCall(o)      == OverHttp2({"call"}, o) /\ Operation("client", o, FALSE)
Http2ClientNotify(o)    == OverHttp2({"notify"}, o) /\ Operation("client", o, FALSE)
Http2ClientCallBatch(o) == OverHttp2({"batch"}, o) /\ Operation("client", o, FALSE)

Http2ClientObject(o) ==
    Http2Used /\ plan[o].end = "client" /\ (Register(o) \/ Unregister(o))

Http2ClientClose == Http2Used /\ Close("client", TRUE)

\* io.EOF, which only a server that ends its response causes, is not recorded as an
\* error.
Http2ClientReadLoop ==
    Http2Used /\ ( \/ ReadMessage("client")
                   \/ \E recorded \in {TRUE, cut # {"server"}} : ReadEnds("client", recorded) )

Http2ClientHandleRequest(o) == OverHttp2({"call", "notify"}, o) /\ Handle("client", o)
Http2ClientHandleBatch(o)   == OverHttp2({"batch"}, o) /\ Handle("client", o)

Http2ClientWriteLoop ==
    Http2Used /\ ( \/ Write("client") \/ WriterSeesClosed("client")
                   \/ WriterGivesUp("client", FALSE, TRUE, TRUE) )

-----------------------------------------------------------------------------
(* The server's connection.                                                 *)

Http2Serve == Http2Used /\ Serve(TRUE)

\* The context that the connection derives from the request.
Cancelled == Closed("server") \/ "client" \in cut \/ "network" \in cut

\* No getError: an operation always begins.
Http2ConnOperation(o) ==
    Begin("server", o, KeptByHandler) \/ Await("server", o) \/ TimeOut("server", o)

Http2ConnCall(o)      == OverHttp2({"call"}, o) /\ Http2ConnOperation(o)
Http2ConnNotify(o)    == OverHttp2({"notify"}, o) /\ Http2ConnOperation(o)
Http2ConnCallBatch(o) == OverHttp2({"batch"}, o) /\ Http2ConnOperation(o)

Http2ConnObject(o) ==
    Http2Used /\ plan[o].end = "server" /\ (Register(o) \/ Unregister(o))

Http2ConnClose == Http2Used /\ Close("server", FALSE)

Http2ConnReadLoop ==
    Http2Used /\ (ReadMessage("server") \/ ReadEnds("server", FALSE))

Http2ConnHandleRequest(o) == OverHttp2({"call", "notify"}, o) /\ Handle("server", o)
Http2ConnHandleBatch(o)   == OverHttp2({"batch"}, o) /\ Handle("server", o)

WriterSeesCancelled ==
    /\ "server" \in alive /\ writer["server"] = "idle" /\ Cancelled
    /\ writer' = [writer EXCEPT !["server"] = "stopped"]
    /\ UNCHANGED <<answer, writeChan, wire, cut, unsent, connErr, steady, writerFrame>>

Http2ConnWriteLoop ==
    Http2Used /\ ( \/ Write("server") \/ WriterSeesCancelled
                   \/ WriterGivesUp("server", FALSE, FALSE, TRUE) )

Http2Next ==
    \/ Http2Connect \/ Http2ClientClose \/ Http2ClientReadLoop \/ Http2ClientWriteLoop
    \/ Http2Serve \/ Http2ConnClose \/ Http2ConnReadLoop \/ Http2ConnWriteLoop
    \/ \E o \in Ops :
         \/ Http2ClientCall(o) \/ Http2ClientNotify(o) \/ Http2ClientCallBatch(o)
         \/ Http2ClientObject(o)
         \/ Http2ClientHandleRequest(o) \/ Http2ClientHandleBatch(o)
         \/ Http2ConnCall(o) \/ Http2ConnNotify(o) \/ Http2ConnCallBatch(o)
         \/ Http2ConnObject(o)
         \/ Http2ConnHandleRequest(o) \/ Http2ConnHandleBatch(o)
=============================================================================
