-------------------------------- MODULE Links --------------------------------
(***************************************************************************)
(* The three transports together, each behaviour over one of them, and     *)
(* what a connection guarantees over every one of them.                    *)
(***************************************************************************)
EXTENDS WebSocket, Http2Stream, WebTransport

Next ==
    \/ WebSocketNext \/ Http2Next \/ WebTransportNext
    \/ LoseConnection \/ \E e \in Ends : Crash(e)

Spec == Init /\ [][Next]_vars

\* The goroutines of a live process run; a connection that has been ended, lost or
\* left by a dead process is noticed.  Nothing is assumed of the timers, of when
\* the applications act, nor that anyone closes the connection.
ReaderStep(e) == ReadMessage(e) \/ \E r \in BOOLEAN : ReadEnds(e, r)
CloseStep(e)  == \E d \in BOOLEAN : DisposeAndWake(e, d)

Fairness ==
    /\ WF_vars(AcceptStream)
    /\ \A e \in Ends :
         WF_vars(ReaderStep(e)) /\ WF_vars(Write(e)) /\ WF_vars(CloseStep(e))
    /\ \A o \in Ops :
         /\ WF_vars(\E e \in Ends : Handle(e, o))
         /\ WF_vars(\E e \in Ends : Await(e, o))

-----------------------------------------------------------------------------
(* Safety.                                                                  *)

CallTypeOK ==
    /\ transport \in Transports /\ plan \in [Ops -> Plans]
    /\ pc \in [Ops -> {"new", "enqueue", "await", "done"}]
    /\ outcome \in [Ops -> {"none", "refused", "accepted", "answered", "missing",
                            "failed", "timeout", "closed", "nil"}]
    /\ id \in [Ops -> Nat] /\ nextID \in [Ends -> Nat]
    /\ answer \in [Ops -> SUBSET Letters]
    /\ shut \subseteq Ops /\ pending \subseteq Ops

StreamTypeOK ==
    /\ writeChan \in [Ends -> Seq(Messages)] /\ wire \in [Ends -> Seq(Messages)]
    /\ \A e \in Ends : Len(writeChan[e]) <= QueueCap /\ Len(wire[e]) <= WireCap

EndTypeOK ==
    /\ dial \in {"dialing", "open", "failed"}
    /\ writer \in [Ends -> {"none", "idle", "stopped"}]
    /\ reader \in [Ends -> {"none", "accept", "read", "done"}]
    /\ closing \in [Ends -> {"open", "streamEnded", "closed"}]
    /\ connErr \in [Ends -> BOOLEAN] /\ alive \subseteq Ends
    /\ cut \subseteq Ends \cup {"network"}

ServedTypeOK ==
    /\ hpc \in [Ops -> {"none", "spawned", "running", "replying", "done"}]
    /\ served \in [Ops -> Nat]
    /\ unsent \subseteq Ops /\ registered \subseteq Ops

\* Every variable stays in its type, the queues and the stream within their capacities.
TypeOK == CallTypeOK /\ StreamTypeOK /\ EndTypeOK /\ ServedTypeOK

\* Both ends number their requests from 1, and the response to a call of one end
\* travels the same way as the requests of the other.  An operation is only ever
\* given the response to its own request.
OwnAnswer == \A o \in Ops : \A a \in answer[o] : a.from = o

\* A callback is told that its object does not exist only when the caller that
\* passed the object on has stopped waiting: Close ends the stream before it
\* disposes of the objects, so no such answer gets out while the caller waits.
ObjectsOutliveTheStream ==
    \A q \in Ops : outcome[q] = "missing" => pc[plan[q].parent] = "done"

\* What RemoteCalls promises: no request is run twice, whatever is lost or closed on
\* the way, and no caller is told of a success that did not happen.
VerdictOf(o) ==
    IF outcome[o] \in {"none", "accepted", "refused"} THEN "none"
    ELSE IF outcome[o] = "answered" THEN "succeeded" ELSE "failed"

Promise == INSTANCE RemoteCalls WITH
    asked <- {o \in Ops : pc[o] # "new" /\ outcome[o] # "refused"},
    Attempts <- 1,
    ran <- served,
    verdict <- [o \in Ops |-> VerdictOf(o)]

ImplementsRemoteCalls == Promise!Spec

-----------------------------------------------------------------------------
(* Liveness.                                                                *)

\* When one end ends the connection, dies, gives up dialling, or the network is
\* lost, the other closes too, also a server that still waits for the stream.
Gone(e) == e \notin alive \/ closing[e] = "closed"

EndReachesBoth ==
    cut # {} ~> \A e \in Ends : reader[e] = "none" \/ Gone(e)

\* The items a writeLoop gives up leave the connection as it is: nothing more is
\* sent that way until somebody closes it.
Mute(e) == writer[e] = "stopped" /\ ~Closed(e)

\* An operation that has begun returns without help from its timer, unless a
\* writeLoop has gone mute: no chain of calls and callbacks can block the two
\* ends on each other's full queues, and whatever ends the connection wakes it.
Returned(o) == pc[o] = "done" \/ plan[o].end \notin alive

CallsReturn ==
    \A o \in Ops : Calling(o) ~> (Returned(o) \/ \E e \in Ends : Mute(e))

WaitsInVain(o) == plan[o].kind = "call" /\ ~Returned(o)

\* Over WebTransport a caller whose request was given up is told at once.
ToldWhenUnsent ==
    (WebTransportUsed /\ \E o \in unsent : WaitsInVain(o))
      ~> \A o \in unsent : ~WaitsInVain(o)
=============================================================================
