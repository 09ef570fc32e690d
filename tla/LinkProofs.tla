----------------------------- MODULE LinkProofs -----------------------------
(***************************************************************************)
(* Proofs about the connections of Links, over any of the transports, for  *)
(* any operations, plans, capacities and number of troubles.               *)
(***************************************************************************)
EXTENDS Links, TLAPS

-----------------------------------------------------------------------------
(* The steps of both ends, whatever the transport.                          *)

OpStep(e, o) ==
    \/ \E given : Refuse(e, o, given) \/ Begin(e, o, given)
    \/ EncodeFails(e, o) \/ Enqueue(e, o) \/ SeeClosed(e, o) \/ TimeOut(e, o)
    \/ Receive(e, o) \/ ReceiveNil(e, o)
    \/ Run(e, o) \/ Finish(e, o) \/ Reply(e, o)

WriterStops(e) == WriterSeesClosed(e) \/ (e = "server" /\ WriterSeesCancelled)

EndStep(e) ==
    \/ ReadMessage(e) \/ \E recorded : ReadEnds(e, recorded)
    \/ Write(e) \/ WriterStops(e)
    \/ \E told, recorded, encodes : WriterGivesUp(e, told, recorded, encodes)
    \/ CloseChan(e) \/ \E disposes : DisposeAndWake(e, disposes)
    \/ Crash(e)

LinkStep ==
    \/ \E loops : Serve(loops)
    \/ Established \/ GiveUp \/ AcceptStream \/ LoseConnection

Step ==
    \/ LinkStep
    \/ \E o \in Ops : Register(o) \/ Unregister(o)
    \/ \E e \in Ends : EndStep(e)
    \/ \E e \in Ends, o \in Ops : OpStep(e, o)

\* Every step of every transport is one of these: what the transports choose are
\* the arguments.
LEMMA Steps == Next => Step
<1>e. "client" \in Ends /\ "server" \in Ends
  BY DEF Ends
<1>1. ASSUME NEW e \in Ends, NEW o \in Ops, NEW given, Operation(e, o, given)  PROVE Step
  BY <1>1, Zenon DEF Operation, Await, OpStep, Step
<1>2. ASSUME NEW e \in Ends, NEW o \in Ops, EncodeFails(e, o) \/ Handle(e, o)  PROVE Step
  BY <1>2, Zenon DEF Handle, OpStep, Step
<1>3. ASSUME NEW e \in Ends, NEW recorded, ReadMessage(e) \/ ReadEnds(e, recorded)  PROVE Step
  BY <1>3, Zenon DEF Step, EndStep
<1>4. ASSUME NEW e \in Ends, NEW told, NEW recorded, NEW encodes,
             \/ Write(e) \/ WriterSeesClosed(e)
             \/ WriterGivesUp(e, told, recorded, encodes)
      PROVE  Step
  BY <1>4, Zenon DEF Step, EndStep, WriterStops
<1>5. ASSUME NEW e \in Ends, NEW disposes, Close(e, disposes)  PROVE Step
  BY <1>5, Zenon DEF Step, EndStep, Close
<1>6. ASSUME NEW o \in Ops, Register(o) \/ Unregister(o)  PROVE Step
  BY <1>6, Zenon DEF Step
<1>7. ASSUME LinkStep  PROVE Step
  BY <1>7, Zenon DEF Step
<1>8. CASE WebSocketNext
  <2>1. CASE \/ WebSocketDial \/ WebSocketClientClose
             \/ WebSocketClientReadLoop \/ WebSocketClientWriteLoop
    BY <2>1, <1>e, <1>3, <1>4, <1>5, <1>7, Zenon DEF WebSocketDial, WebSocketClientClose,
       WebSocketClientReadLoop, WebSocketClientWriteLoop, LinkStep
  <2>2. CASE \/ WebSocketHandle \/ WebSocketConnClose
             \/ WebSocketConnReadLoop \/ WebSocketConnWriteLoop
    BY <2>2, <1>e, <1>3, <1>4, <1>5, <1>7, Zenon DEF WebSocketHandle, WebSocketConnClose,
       WebSocketConnReadLoop, WebSocketConnWriteLoop, LinkStep
  <2>3. ASSUME NEW o \in Ops,
               \/ WebSocketClientCall(o) \/ WebSocketClientNotify(o)
               \/ WebSocketClientCallBatch(o) \/ WebSocketClientObject(o)
               \/ WebSocketClientHandleRequest(o) \/ WebSocketClientHandleBatch(o)
        PROVE  Step
    BY <2>3, <1>e, <1>1, <1>2, <1>6, Zenon DEF WebSocketClientCall, WebSocketClientNotify,
       WebSocketClientCallBatch, WebSocketClientObject, WebSocketClientHandleRequest,
       WebSocketClientHandleBatch
  <2>4. ASSUME NEW o \in Ops,
               \/ WebSocketConnCall(o) \/ WebSocketConnNotify(o)
               \/ WebSocketConnCallBatch(o) \/ WebSocketConnObject(o)
               \/ WebSocketConnHandleRequest(o) \/ WebSocketConnHandleBatch(o)
        PROVE  Step
    BY <2>4, <1>e, <1>1, <1>2, <1>6, Zenon DEF WebSocketConnCall, WebSocketConnNotify,
       WebSocketConnCallBatch, WebSocketConnObject, WebSocketConnHandleRequest,
       WebSocketConnHandleBatch, WebSocketConnOperation
  <2>. QED  BY <1>8, <2>1, <2>2, <2>3, <2>4, Zenon DEF WebSocketNext
<1>9. CASE Http2Next
  <2>1. CASE \/ Http2Connect \/ Http2ClientClose
             \/ Http2ClientReadLoop \/ Http2ClientWriteLoop
    BY <2>1, <1>e, <1>3, <1>4, <1>5, <1>7, Zenon DEF Http2Connect, Http2ClientClose,
       Http2ClientReadLoop, Http2ClientWriteLoop, LinkStep
  <2>2. CASE \/ Http2Serve \/ Http2ConnClose
             \/ Http2ConnReadLoop \/ Http2ConnWriteLoop
    <3>1. CASE WriterSeesCancelled
      BY <3>1, <1>e, Zenon DEF EndStep, WriterStops, Step
    <3>. QED  BY <2>2, <3>1, <1>e, <1>3, <1>4, <1>5, <1>7, Zenon DEF Http2Serve,
                 Http2ConnClose, Http2ConnReadLoop, Http2ConnWriteLoop, LinkStep
  <2>3. ASSUME NEW o \in Ops,
               \/ Http2ClientCall(o) \/ Http2ClientNotify(o)
               \/ Http2ClientCallBatch(o) \/ Http2ClientObject(o)
               \/ Http2ClientHandleRequest(o) \/ Http2ClientHandleBatch(o)
        PROVE  Step
    BY <2>3, <1>e, <1>1, <1>2, <1>6, Zenon DEF Http2ClientCall, Http2ClientNotify,
       Http2ClientCallBatch, Http2ClientObject, Http2ClientHandleRequest,
       Http2ClientHandleBatch
  <2>4. ASSUME NEW o \in Ops,
               \/ Http2ConnCall(o) \/ Http2ConnNotify(o)
               \/ Http2ConnCallBatch(o) \/ Http2ConnObject(o)
               \/ Http2ConnHandleRequest(o) \/ Http2ConnHandleBatch(o)
        PROVE  Step
    <3>1. ASSUME Http2ConnOperation(o)  PROVE Step
      BY <3>1, <1>e, <1>1, Zenon DEF Http2ConnOperation, Operation
    <3>. QED  BY <2>4, <3>1, <1>e, <1>2, <1>6, Zenon DEF Http2ConnCall, Http2ConnNotify,
                 Http2ConnCallBatch, Http2ConnObject, Http2ConnHandleRequest,
                 Http2ConnHandleBatch
  <2>. QED  BY <1>9, <2>1, <2>2, <2>3, <2>4, Zenon DEF Http2Next
<1>10. CASE WebTransportNext
  <2>1. CASE \/ WebTransportDial \/ WebTransportClientClose
             \/ WebTransportClientReadLoop \/ WebTransportClientWriteLoop
    BY <2>1, <1>e, <1>3, <1>4, <1>5, <1>7, Zenon DEF WebTransportDial,
       WebTransportClientClose, WebTransportClientReadLoop, WebTransportClientWriteLoop,
       LinkStep
  <2>2. CASE \/ WebTransportHandle \/ WebTransportConnClose
             \/ WebTransportConnReadLoop \/ WebTransportConnWriteLoop
    BY <2>2, <1>e, <1>3, <1>4, <1>5, <1>7, Zenon DEF WebTransportHandle,
       WebTransportConnClose, WebTransportConnReadLoop, WebTransportConnWriteLoop, LinkStep
  <2>3. ASSUME NEW o \in Ops,
               \/ WebTransportClientCall(o) \/ WebTransportClientNotify(o)
               \/ WebTransportClientCallBatch(o) \/ WebTransportClientObject(o)
               \/ WebTransportClientHandleRequest(o) \/ WebTransportClientHandleBatch(o)
        PROVE  Step
    BY <2>3, <1>e, <1>1, <1>2, <1>6, Zenon DEF WebTransportClientCall,
       WebTransportClientNotify, WebTransportClientCallBatch, WebTransportClientObject,
       WebTransportClientHandleRequest, WebTransportClientHandleBatch
  <2>4. ASSUME NEW o \in Ops,
               \/ WebTransportConnCall(o) \/ WebTransportConnNotify(o)
               \/ WebTransportConnCallBatch(o) \/ WebTransportConnObject(o)
               \/ WebTransportConnHandleRequest(o) \/ WebTransportConnHandleBatch(o)
        PROVE  Step
    BY <2>4, <1>e, <1>1, <1>2, <1>6, Zenon DEF WebTransportConnCall, WebTransportConnNotify,
       WebTransportConnCallBatch, WebTransportConnObject, WebTransportConnHandleRequest,
       WebTransportConnHandleBatch, WebTransportConnOperation
  <2>. QED  BY <1>10, <2>1, <2>2, <2>3, <2>4, Zenon DEF WebTransportNext
<1>11. CASE LoseConnection \/ \E e \in Ends : Crash(e)
  BY <1>11, <1>7, Zenon DEF LinkStep, EndStep, Step
<1>. QED  BY <1>8, <1>9, <1>10, <1>11, Zenon DEF Next

-----------------------------------------------------------------------------
(* Types.                                                                   *)

LEMMA OtherEnd == Other("client") = "server" /\ Other("server") = "client"
<1>1. ASSUME NEW f \in Ends, f # "client"  PROVE f = "server"
  BY <1>1 DEF Ends
<1>2. ASSUME NEW f \in Ends, f # "server"  PROVE f = "client"
  BY <1>2 DEF Ends
<1>. QED  BY <1>1, <1>2 DEF Other, Ends

LEMMA OtherTypes == ASSUME NEW e \in Ends  PROVE Other(e) \in Ends /\ Other(Other(e)) = e /\ Other(e) # e
  BY OtherEnd DEF Ends

LEMMA InitTypes == Init => TypeOK
  BY LinkCapsAssumption DEF Init, TypeOK, CallTypeOK, StreamTypeOK, EndTypeOK, ServedTypeOK, Ends

\* A step that leaves the variables of a part alone leaves the part alone.
LEMMA SameTypes ==
  /\ CallTypeOK /\ UNCHANGED <<transport, plan, opVars>> => CallTypeOK'
  /\ StreamTypeOK /\ UNCHANGED <<writeChan, wire>> => StreamTypeOK'
  /\ EndTypeOK /\ UNCHANGED <<dial, writer, reader, closing, connErr, alive, cut>> => EndTypeOK'
  /\ ServedTypeOK /\ UNCHANGED <<runVars, unsent, registered>> => ServedTypeOK'
  BY DEF opVars, runVars, CallTypeOK, StreamTypeOK, EndTypeOK, ServedTypeOK

LEMMA LinkTypes ==
  ASSUME TypeOK, LinkStep
  PROVE  TypeOK'
<1>1. UNCHANGED <<transport, plan, opVars, writeChan, wire, runVars, unsent>>
  BY DEF LinkStep, Serve, Established, GiveUp, AcceptStream, LoseConnection, StopReading,
     BeginClose, steady, fixed, sendVars, linkVars
<1>2. EndTypeOK'
  <2> USE DEF EndTypeOK, Ends, endVars, linkVars
  <2>1. ASSUME NEW loops, Serve(loops)  PROVE EndTypeOK'
    BY <2>1 DEF TypeOK, Serve
  <2>2. CASE Established
    BY <2>2 DEF TypeOK, Established
  <2>3. CASE GiveUp
    BY <2>3 DEF TypeOK, GiveUp, sendVars
  <2>4. CASE AcceptStream
    <3>1. /\ reader' \in [Ends -> {"none", "accept", "read", "done"}]
          /\ writer' \in [Ends -> {"none", "idle", "stopped"}]
      BY <2>4 DEF TypeOK, AcceptStream, StopReading
    <3>2. /\ closing' \in [Ends -> {"open", "streamEnded", "closed"}]
          /\ cut' \subseteq Ends \cup {"network"}
      <4>1. CASE UNCHANGED <<closing, cut>>
        BY <4>1 DEF TypeOK
      <4>2. CASE BeginClose("server")
        BY <4>2 DEF TypeOK, BeginClose
      <4>. QED  BY <2>4, <4>1, <4>2 DEF AcceptStream, StopReading
    <3>. QED  BY <2>4, <3>1, <3>2 DEF TypeOK, AcceptStream
  <2>5. CASE LoseConnection
    BY <2>5 DEF TypeOK, LoseConnection, sendVars
  <2>. QED  BY <2>1, <2>2, <2>3, <2>4, <2>5 DEF LinkStep
<1>3. registered' \subseteq registered
  BY DEF LinkStep, Serve, Established, GiveUp, AcceptStream, LoseConnection, StopReading,
     BeginClose
<1>4. ServedTypeOK'
  BY <1>1, <1>3 DEF TypeOK, ServedTypeOK, runVars
<1>. QED  BY <1>1, <1>2, <1>4, SameTypes DEF TypeOK

LEMMA ObjectTypes ==
  ASSUME TypeOK, NEW o \in Ops, Register(o) \/ Unregister(o)
  PROVE  TypeOK'
<1>1. /\ UNCHANGED <<transport, plan, opVars, writeChan, wire, runVars, unsent>>
      /\ UNCHANGED <<dial, writer, reader, closing, connErr, alive, cut>>
  BY DEF Register, Unregister, steady, sendVars, linkVars, endVars
<1>2. registered' \subseteq registered \cup {o}
  BY DEF Register, Unregister
<1>. QED  BY <1>1, <1>2, SameTypes DEF TypeOK, ServedTypeOK, runVars

\* An item is queued where there is room.
LEMMA QueueTypes ==
  ASSUME StreamTypeOK, NEW e \in Ends, HasRoom(e), NEW m \in Messages,
         writeChan' = [writeChan EXCEPT ![e] = Append(@, m)], UNCHANGED wire
  PROVE  StreamTypeOK'
<1>1. Append(writeChan[e], m) \in Seq(Messages)
      /\ Len(Append(writeChan[e], m)) = Len(writeChan[e]) + 1
  BY DEF StreamTypeOK
<1>. QED  BY <1>1, LinkCapsAssumption DEF StreamTypeOK, HasRoom

LEMMA OpTypes ==
  ASSUME TypeOK, NEW e \in Ends, NEW o \in Ops, OpStep(e, o)
  PROVE  TypeOK'
<1> USE DEF Return, opFrame, linkVars, runVars, steady, fixed, handlerFrame, opVars, endVars
<1>1. CallTypeOK'
  <2> USE DEF TypeOK, CallTypeOK
  <2>1. ASSUME NEW given, Refuse(e, o, given)  PROVE CallTypeOK'
    BY <2>1 DEF Refuse
  <2>2. ASSUME NEW given, Begin(e, o, given)  PROVE CallTypeOK'
    BY <2>2 DEF Begin, FreshId
  <2>3. CASE EncodeFails(e, o)  BY <2>3 DEF EncodeFails
  <2>4. CASE Enqueue(e, o)  BY <2>4 DEF Enqueue
  <2>5. CASE SeeClosed(e, o)  BY <2>5 DEF SeeClosed
  <2>6. CASE TimeOut(e, o)  BY <2>6 DEF TimeOut
  <2>7. CASE Receive(e, o)
    BY <2>7 DEF Receive
  <2>8. CASE ReceiveNil(e, o)  BY <2>8 DEF ReceiveNil
  <2>9. CASE Run(e, o) \/ Finish(e, o) \/ Reply(e, o)
    BY <2>9 DEF Run, Finish, Reply
  <2>. QED  BY <2>1, <2>2, <2>3, <2>4, <2>5, <2>6, <2>7, <2>8, <2>9 DEF OpStep
<1>2. StreamTypeOK'
  <2>1. CASE Enqueue(e, o)
    <3>1. [type |-> "request", op |-> o, id |-> id[o]] \in Messages
      BY DEF TypeOK, CallTypeOK, Messages
    <3>. QED  BY <2>1, <3>1, QueueTypes DEF Enqueue, TypeOK
  <2>2. CASE Reply(e, o)
    <3>1. [type |-> "response", op |-> o, id |-> id[o],
           res |-> IF served[o] > 0 THEN "ok" ELSE "missing"] \in Messages
      BY DEF TypeOK, CallTypeOK, Messages
    <3>. QED  BY <2>2, <3>1, QueueTypes, SameTypes DEF Reply, TypeOK
  <2>3. CASE UNCHANGED <<writeChan, wire>>
    BY <2>3, SameTypes DEF TypeOK
  <2>. QED  BY <2>1, <2>2, <2>3 DEF OpStep, Refuse, Begin, EncodeFails, SeeClosed, TimeOut,
               Receive, ReceiveNil, Run, Finish, sendVars
<1>3. EndTypeOK'
  <2>1. CASE ReceiveNil(e, o)
    BY <2>1 DEF ReceiveNil, Dies, TypeOK, EndTypeOK, sendVars
  <2>2. CASE UNCHANGED <<dial, writer, reader, closing, connErr, alive, cut>>
    BY <2>2, SameTypes DEF TypeOK
  <2>. QED  BY <2>1, <2>2 DEF OpStep, Refuse, Begin, EncodeFails, Enqueue, SeeClosed, TimeOut,
               Receive, Run, Finish, Reply
<1>4. ServedTypeOK'
  <2>1. UNCHANGED <<unsent, registered>>
    BY DEF OpStep, Refuse, Begin, EncodeFails, Enqueue, SeeClosed, TimeOut,
       Receive, ReceiveNil, Run, Finish, Reply, sendVars
  <2>2. CASE Run(e, o)
    BY <2>1, <2>2 DEF Run, AfterRun, TypeOK, ServedTypeOK
  <2>3. CASE Finish(e, o) \/ Reply(e, o)
    BY <2>1, <2>3 DEF Finish, Reply, AfterRun, TypeOK, ServedTypeOK
  <2>4. CASE UNCHANGED runVars
    BY <2>1, <2>4, SameTypes DEF TypeOK
  <2>. QED  BY <2>2, <2>3, <2>4 DEF OpStep, Refuse, Begin, EncodeFails, Enqueue, SeeClosed,
               TimeOut, Receive, ReceiveNil
<1>. QED  BY <1>1, <1>2, <1>3, <1>4 DEF TypeOK

\* The item a writeLoop takes.
LEMMA DequeueTypes ==
  ASSUME StreamTypeOK, NEW e \in Ends, writeChan[e] # <<>>
  PROVE  /\ Head(writeChan[e]) \in Messages
         /\ Tail(writeChan[e]) \in Seq(Messages)
         /\ Len(Tail(writeChan[e])) <= QueueCap
<1>1. writeChan[e] \in Seq(Messages) /\ Len(writeChan[e]) <= QueueCap
  BY DEF StreamTypeOK
<1>. QED  BY <1>1, LinkCapsAssumption

\* The message a readLoop takes.
LEMMA WireTypes ==
  ASSUME StreamTypeOK, NEW e \in Ends, wire[e] # <<>>
  PROVE  /\ Head(wire[e]) \in Messages
         /\ Tail(wire[e]) \in Seq(Messages)
         /\ Len(Tail(wire[e])) <= WireCap
<1>1. wire[e] \in Seq(Messages) /\ Len(wire[e]) <= WireCap
  BY DEF StreamTypeOK
<1>. QED  BY <1>1, LinkCapsAssumption

LEMMA ReadTypes ==
  ASSUME TypeOK, NEW e \in Ends, ReadMessage(e)
  PROVE  TypeOK'
<1>. DEFINE m == Head(wire[Other(e)])
<1>1. m \in Messages /\ Tail(wire[Other(e)]) \in Seq(Messages)
      /\ Len(Tail(wire[Other(e)])) <= WireCap /\ Other(e) \in Ends
  BY WireTypes, OtherTypes DEF ReadMessage, TypeOK
<1>2. UNCHANGED <<transport, plan, pc, outcome, id, shut, pending, nextID, writeChan, unsent,
                  served, registered, dial, writer, reader, closing, connErr, alive, cut>>
  BY DEF ReadMessage, steady, sendVars, endVars
<1>3. CASE m.type = "request"
  <2>1. hpc' = [hpc EXCEPT ![m.op] = "spawned"] /\ answer' = answer
    BY <1>3 DEF ReadMessage
  <2>. QED  BY <1>1, <1>2, <2>1 DEF ReadMessage, TypeOK, CallTypeOK, StreamTypeOK, EndTypeOK,
               ServedTypeOK
<1>4. CASE m.type # "request"
  <2>1. m.op \in Ops /\ m.res \in {"ok", "missing"}
    BY <1>1, <1>4 DEF Messages
  <2>2. Deliver(e, m) /\ hpc' = hpc
    BY <1>4 DEF ReadMessage
  <2>3. answer' \in [Ops -> SUBSET Letters]
    BY <2>1, <2>2 DEF Deliver, Letters, TypeOK, CallTypeOK
  <2>. QED  BY <1>1, <1>2, <2>2, <2>3 DEF ReadMessage, TypeOK, CallTypeOK, StreamTypeOK,
               EndTypeOK, ServedTypeOK
<1>. QED  BY <1>3, <1>4

LEMMA EndTypes ==
  ASSUME TypeOK, NEW e \in Ends, EndStep(e)
  PROVE  TypeOK'
<1> USE DEF TypeOK, opVars, sendVars, linkVars, endVars, runVars, steady, fixed
<1>1. CASE ReadMessage(e)
  BY <1>1, ReadTypes
<1>2. ASSUME NEW recorded, ReadEnds(e, recorded)  PROVE TypeOK'
  <2>1. EndTypeOK'
    BY <1>2 DEF ReadEnds, StopReading, BeginClose, Record, EndTypeOK
  <2>. QED  BY <1>2, <2>1, SameTypes DEF ReadEnds, StopReading, BeginClose
<1>3. CASE Write(e)
  <2>1. StreamTypeOK'
    <3>1. /\ writeChan' = [writeChan EXCEPT ![e] = Tail(@)]
          /\ \/ wire' = wire
             \/ Len(wire[e]) < WireCap
                /\ wire' = [wire EXCEPT ![e] = Append(@, Head(writeChan[e]))]
      BY <1>3 DEF Write, Dequeue
    <3>2. /\ Append(wire[e], Head(writeChan[e])) \in Seq(Messages)
          /\ Len(Append(wire[e], Head(writeChan[e]))) = Len(wire[e]) + 1
      BY <1>3, DequeueTypes DEF Write, StreamTypeOK
    <3>3. /\ writeChan' \in [Ends -> Seq(Messages)]
          /\ \A f \in Ends : Len(writeChan'[f]) <= QueueCap
      BY <1>3, <3>1, DequeueTypes DEF Write, StreamTypeOK
    <3>4. /\ wire' \in [Ends -> Seq(Messages)]
          /\ \A f \in Ends : Len(wire'[f]) <= WireCap
      <4>1. CASE wire' = wire
        BY <4>1 DEF StreamTypeOK
      <4>2. CASE wire' = [wire EXCEPT ![e] = Append(@, Head(writeChan[e]))]
                 /\ Len(wire[e]) < WireCap
        <5>1. wire[e] \in Seq(Messages) /\ Len(wire[e]) \in Nat
          BY DEF StreamTypeOK
        <5>. QED  BY <3>2, <4>2, <5>1, LinkCapsAssumption DEF StreamTypeOK
      <4>. QED  BY <3>1, <4>1, <4>2
    <3>. QED  BY <3>3, <3>4 DEF StreamTypeOK
  <2>. QED  BY <1>3, <2>1, SameTypes DEF Write, writerFrame
<1>4. CASE WriterStops(e)
  <2>1. EndTypeOK'
    BY <1>4 DEF WriterStops, WriterSeesClosed, WriterSeesCancelled, writerFrame, EndTypeOK
  <2>. QED  BY <1>4, <2>1, SameTypes DEF WriterStops, WriterSeesClosed, WriterSeesCancelled,
               writerFrame
<1>5. ASSUME NEW told, NEW recorded, NEW encodes, WriterGivesUp(e, told, recorded, encodes)
      PROVE  TypeOK'
  <2>1. StreamTypeOK'
    BY <1>5, DequeueTypes DEF WriterGivesUp, Dequeue, StreamTypeOK
  <2>2. EndTypeOK'
    BY <1>5 DEF WriterGivesUp, writerFrame, Record, EndTypeOK
  <2>3. answer' \in [Ops -> SUBSET Letters]
    BY <1>5 DEF WriterGivesUp, Told, Letters, CallTypeOK
  <2>4. CallTypeOK'
    BY <1>5, <2>3 DEF WriterGivesUp, writerFrame, CallTypeOK
  <2>5. ServedTypeOK'
    BY <1>5 DEF WriterGivesUp, writerFrame, ServedTypeOK
  <2>. QED  BY <2>1, <2>2, <2>4, <2>5
<1>6. CASE CloseChan(e)
  <2>1. EndTypeOK'
    BY <1>6 DEF CloseChan, BeginClose, EndTypeOK
  <2>. QED  BY <1>6, <2>1, SameTypes DEF CloseChan, BeginClose
<1>7. ASSUME NEW disposes, DisposeAndWake(e, disposes)  PROVE TypeOK'
  <2>1. EndTypeOK'
    BY <1>7 DEF DisposeAndWake, EndTypeOK
  <2>2. ServedTypeOK'
    BY <1>7 DEF DisposeAndWake, ServedTypeOK
  <2>3. CallTypeOK'
    BY <1>7 DEF DisposeAndWake, CallTypeOK
  <2>. QED  BY <1>7, <2>1, <2>2, <2>3, SameTypes DEF DisposeAndWake
<1>8. CASE Crash(e)
  <2>1. EndTypeOK'
    BY <1>8 DEF Crash, Dies, EndTypeOK
  <2>. QED  BY <1>8, <2>1, SameTypes DEF Crash
<1>. QED  BY <1>1, <1>2, <1>3, <1>4, <1>5, <1>6, <1>7, <1>8 DEF EndStep

LEMMA TypesStep == TypeOK /\ [Next]_vars => TypeOK'
<1>1. CASE UNCHANGED vars
  BY <1>1, SameTypes DEF vars, opVars, sendVars, linkVars, endVars, runVars, TypeOK
<1>2. CASE TypeOK /\ Next
  BY <1>2, Steps, LinkTypes, ObjectTypes, OpTypes, EndTypes DEF Step
<1>. QED  BY <1>1, <1>2

\* The variables of both ends stay in their types, and no queue or stream ever holds
\* more than its capacity (make(chan any, 100)).
THEOREM TypeCorrect == Spec => []TypeOK
  BY InitTypes, TypesStep, PTL DEF Spec

=============================================================================
