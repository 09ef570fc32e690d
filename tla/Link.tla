-------------------------------- MODULE Link --------------------------------
(***************************************************************************)
(* Both ends of one streaming connection, over WebSocket, HTTP/2 or        *)
(* WebTransport: a client and the server's object for its connection.      *)
(* Each end is built like Peer (readLoop, writeLoop, one goroutine per     *)
(* operation and per incoming request, Close); what the three transports   *)
(* do differently is in WebSocket.tla, Http2Stream.tla, WebTransport.tla,  *)
(* which put their endpoints together from the steps defined here.         *)
(*                                                                         *)
(* Peer looks at one endpoint step by step with a remote that does what it *)
(* likes.  Here the remote is the other endpoint, handlers call back, and  *)
(* the steps are coarser: the lookup of a response channel and the send to *)
(* it are one step, and so are the entries that Close wakes, the end of an *)
(* operation and its deferred Delete.  A batch has one entry.              *)
(*                                                                         *)
(* An operation o belongs to the end plan[o].end.  One with a parent is a  *)
(* callback: the handler of the parent, at the other end than the parent's *)
(* caller, makes it, on the object that caller has registered for it.      *)
(***************************************************************************)
EXTENDS Naturals, Sequences, FiniteSets

CONSTANTS
    Ops,        \* the operations of both ends
    NoOp,       \* the parent of an operation that the application makes
    Transports, \* those considered
    QueueCap,   \* capacity of a writeChan, 100 in the code
    WireCap,    \* messages the stream takes in each direction before it blocks
    MaxTroubles \* most failures, timeouts and calls of Close in a behaviour

ASSUME LinkCapsAssumption ==
    QueueCap \in Nat \ {0} /\ WireCap \in Nat \ {0} /\ MaxTroubles \in Nat
ASSUME NoOpAssumption == NoOp \notin Ops

VARIABLES
    transport, plan,             \* never change: what is used, and for what
    dial,                        \* the client's constructor
    pc, outcome, id, answer,     \* each operation and its response channel
    shut, pending,               \* channels Close has closed; pendingReqs
    nextID, connErr,             \* of each end
    writeChan, writer,           \* of each end: the queue and writeLoop
    reader, closing, alive,      \* of each end: readLoop, Close, the process
    wire,                        \* messages under way from each end
    cut,                         \* who has ended the stream
    troubles,                    \* how much has gone wrong (bounds the runs)
    hpc, served,                 \* the handler of each operation
    unsent,                      \* the requests a writeLoop gave up (ghost)
    registered                   \* objects in the session of their caller

steady   == <<transport, plan, troubles>>
fixed    == <<transport, plan>>
opVars   == <<pc, outcome, id, answer, shut, pending, nextID>>
sendVars == <<writeChan, writer, unsent>>
linkVars == <<wire, cut, dial>>
endVars  == <<connErr, reader, closing, alive>>
runVars  == <<hpc, served>>
vars == <<transport, plan, troubles, opVars, sendVars, linkVars, endVars, runVars, registered>>

Ends == {"client", "server"}
Other(e) == CHOOSE f \in Ends : f # e

Kinds == {"call", "batch", "notify", "none"}
Plans == [end : Ends, kind : Kinds, parent : Ops \cup {NoOp}]
Messages == [type : {"request"}, op : Ops, id : Nat]
              \cup [type : {"response"}, op : Ops, id : Nat, res : {"ok", "missing"}]
Letters  == [from : Ops, res : {"ok", "missing", "unsent"}]

\* The handler of an operation runs at the other end, so that is where callbacks come from.
HandlersAway == \A o \in Ops : plan[o].parent # NoOp =>
    plan[plan[o].parent].end # plan[o].end

Init ==
    /\ transport \in Transports
    /\ plan \in [Ops -> Plans] /\ HandlersAway
    /\ dial = "dialing"
    /\ pc = [o \in Ops |-> "new"]
    /\ outcome = [o \in Ops |-> "none"]
    /\ id = [o \in Ops |-> 0]
    /\ answer = [o \in Ops |-> {}]
    /\ shut = {} /\ pending = {}
    /\ nextID = [e \in Ends |-> 0]
    /\ connErr = [e \in Ends |-> FALSE]
    /\ writeChan = [e \in Ends |-> <<>>]
    /\ writer = [e \in Ends |-> "none"]
    /\ reader = [e \in Ends |-> "none"]
    /\ closing = [e \in Ends |-> "open"]
    /\ alive = Ends
    /\ wire = [e \in Ends |-> <<>>] /\ cut = {}
    /\ hpc = [o \in Ops |-> "none"] /\ served = [o \in Ops |-> 0]
    /\ unsent = {} /\ registered = {}
    /\ troubles = 0

-----------------------------------------------------------------------------
(* Shared helpers.                                                          *)

Mine(e, o)  == plan[o].end = e /\ e \in alive
Here(o)     == Mine(plan[o].end, o)
Closed(e)   == closing[e] # "open"
Calling(o)  == pc[o] \in {"enqueue", "await"}
Callbacks(o) == {q \in Ops : plan[q].parent = o /\ plan[q].kind # "none"}

HasRoomFault(e) == Len(writeChan[e]) <= QueueCap
HasRoom(e) == Len(writeChan[e]) < QueueCap

\* Something goes wrong that did not follow from what went wrong before.
Trouble == troubles < MaxTroubles /\ troubles' = troubles + 1

\* setError, where the endpoint has one: later operations are refused.
Record(e, recorded) == connErr' = [connErr EXCEPT ![e] = @ \/ recorded]

\* Close, first part: closeChan is closed and the stream is ended.  What is disposed
\* of comes after (DisposeAndWake).
BeginCloseFault(e) ==
    /\ closing' = [closing EXCEPT ![e] = "streamEnded"]
    /\ registered' = {o \in registered : plan[o].end # e}
    /\ UNCHANGED cut
BeginClose(e) ==
    /\ closing' = [closing EXCEPT ![e] = "streamEnded"]
    /\ cut' = cut \cup {e}
    /\ UNCHANGED registered

\* readLoop stops, and runs its deferred Close, which does nothing after another.
StopReadingFault(e) ==
    /\ reader' = [reader EXCEPT ![e] = "done"]
    /\ UNCHANGED <<closing, cut, registered>>
StopReading(e) ==
    /\ reader' = [reader EXCEPT ![e] = "done"]
    /\ IF Closed(e) THEN UNCHANGED <<closing, cut, registered>> ELSE BeginClose(e)

\* The process of an end dies: the system ends its side of the stream.
Dies(e) == alive' = alive \ {e} /\ cut' = cut \cup {e}

-----------------------------------------------------------------------------
(* The life of the connection.                                              *)

\* The server starts the two loops of a new connection, or first waits for the
\* client's stream.  The client may have given up meanwhile.
Serve(loops) ==
    /\ dial # "open" /\ "server" \in alive /\ reader["server"] = "none"
    /\ reader' = [reader EXCEPT !["server"] = IF loops THEN "read" ELSE "accept"]
    /\ writer' = [writer EXCEPT !["server"] = IF loops THEN "idle" ELSE "none"]
    /\ UNCHANGED <<steady, opVars, writeChan, unsent, linkVars,
                   connErr, closing, alive, runVars, registered>>

\* The constructor of the client returns a client, whose loops start.
Established ==
    /\ dial = "dialing" /\ "client" \in alive /\ reader["server"] # "none"
    /\ dial' = "open"
    /\ reader' = [reader EXCEPT !["client"] = "read"]
    /\ writer' = [writer EXCEPT !["client"] = "idle"]
    /\ UNCHANGED <<steady, opVars, writeChan, unsent, wire, cut,
                   connErr, closing, alive, runVars, registered>>

\* It returns an error: nothing is left of the client, the stream is abandoned.
GiveUp ==
    /\ Trouble
    /\ dial = "dialing" /\ "client" \in alive
    /\ dial' = "failed"
    /\ cut' = cut \cup {"client"}
    /\ UNCHANGED <<fixed, opVars, sendVars, wire, endVars, runVars, registered>>

\* The first bytes of the client make its stream visible to a server that waits; if
\* the session ends first, the connection is closed.
AcceptStream ==
    /\ "server" \in alive /\ reader["server"] = "accept"
    /\ \/ /\ wire["client"] # <<>>
          /\ reader' = [reader EXCEPT !["server"] = "read"]
          /\ writer' = [writer EXCEPT !["server"] = "idle"]
          /\ UNCHANGED <<closing, cut, registered>>
       \/ /\ cut # {}
          /\ StopReading("server")
          /\ UNCHANGED writer
    /\ UNCHANGED <<steady, opVars, writeChan, unsent, wire, dial,
                   connErr, alive, runVars>>

\* The network loses the connection; both ends find out.
LoseConnection ==
    /\ Trouble
    /\ reader["server"] # "none" /\ cut = {}
    /\ cut' = {"network"}
    /\ UNCHANGED <<fixed, opVars, sendVars, wire, dial, endVars, runVars,
                   registered>>

Crash(e) ==
    /\ Trouble
    /\ e \in alive /\ reader[e] # "none"
    /\ Dies(e)
    /\ UNCHANGED <<fixed, opVars, sendVars, wire, dial, connErr, reader,
                   closing, runVars, registered>>

-----------------------------------------------------------------------------
(* Operations.                                                              *)

\* Who can make operation o: the handler of its parent while it runs, the client
\* once it is connected, and at the server whoever has been given the connection.
Obtained(o, given) ==
    IF plan[o].parent # NoOp THEN hpc[plan[o].parent] = "running"
    ELSE IF plan[o].end = "client" THEN dial = "open" ELSE given

\* A handler has been given the connection as its Caller, and may keep it.
KeptByHandler == \E q \in Ops : plan[q].end = "client" /\ served[q] > 0

\* RegisterObject, before the operation that passes the object on.
Register(o) ==
    /\ Here(o) /\ pc[o] = "new" /\ Callbacks(o) # {} /\ o \notin registered
    /\ plan[o].end = "client" => dial = "open"
    /\ registered' = registered \cup {o}
    /\ UNCHANGED <<steady, opVars, sendVars, linkVars, endVars, runVars>>

\* UnregisterObject, after it has returned.
Unregister(o) ==
    /\ Here(o) /\ pc[o] = "done" /\ o \in registered
    /\ registered' = registered \ {o}
    /\ UNCHANGED <<steady, opVars, sendVars, linkVars, endVars, runVars>>

opFrame == <<writer, unsent, linkVars, connErr, reader, closing,
             alive, runVars, registered>>

Startable(e, o, given) ==
    /\ Mine(e, o) /\ pc[o] = "new" /\ plan[o].kind # "none"
    /\ Obtained(o, given)
    /\ Callbacks(o) # {} => o \in registered

Return(o, r) ==
    /\ pc' = [pc EXCEPT ![o] = "done"]
    /\ outcome' = [outcome EXCEPT ![o] = r]
    /\ pending' = pending \ {o}

\* getError refuses the operation once the connection has failed.
Refuse(e, o, given) ==
    /\ Startable(e, o, given) /\ connErr[e]
    /\ Return(o, "refused")
    /\ UNCHANGED <<id, answer, shut, nextID, writeChan, steady, opFrame>>

\* The id is drawn and the response channel stored.
FreshId(e) == nextID' = [nextID EXCEPT ![e] = @ + 1]

Begin(e, o, given) ==
    /\ Startable(e, o, given) /\ ~connErr[e]
    /\ pc' = [pc EXCEPT ![o] = "enqueue"]
    /\ IF plan[o].kind = "notify"
         THEN UNCHANGED <<id, nextID, pending>>
         ELSE /\ FreshId(e)
              /\ id' = [id EXCEPT ![o] = nextID[e] + 1]
              /\ pending' = pending \cup {o}
    /\ UNCHANGED <<outcome, answer, shut, writeChan, steady, opFrame>>

\* The caller's encoding of its request fails.
EncodeFails(e, o) ==
    /\ Trouble
    /\ Mine(e, o) /\ pc[o] = "enqueue"
    /\ Return(o, "failed")
    /\ UNCHANGED <<id, answer, shut, nextID, writeChan, fixed, opFrame>>

Enqueue(e, o) ==
    /\ Mine(e, o) /\ pc[o] = "enqueue"
    /\ HasRoom(e)
    /\ writeChan' = [writeChan EXCEPT
         ![e] = Append(@, [type |-> "request", op |-> o, id |-> id[o]])]
    /\ IF plan[o].kind = "notify"
         THEN Return(o, "accepted")
         ELSE pc' = [pc EXCEPT ![o] = "await"] /\ UNCHANGED <<outcome, pending>>
    /\ UNCHANGED <<id, answer, shut, nextID, steady, opFrame>>

\* The closeChan branch of both selects.
SeeClosed(e, o) ==
    /\ Mine(e, o) /\ Calling(o) /\ Closed(e)
    /\ Return(o, "closed")
    /\ UNCHANGED <<id, answer, shut, nextID, writeChan, steady, opFrame>>

\* The timer branch, after 30 s, or when the context of the call is cancelled.
TimeOut(e, o) ==
    /\ Trouble
    /\ Mine(e, o) /\ pc[o] = "await"
    /\ Return(o, "timeout")
    /\ UNCHANGED <<id, answer, shut, nextID, writeChan, fixed, opFrame>>

\* The receive branch: what has been sent to the channel.
Receive(e, o) ==
    /\ Mine(e, o) /\ pc[o] = "await"
    /\ \E a \in answer[o] :
         Return(o, CASE a.res = "ok" -> "answered" [] a.res = "missing" -> "missing"
                     [] OTHER -> "failed")
    /\ UNCHANGED <<id, answer, shut, nextID, writeChan, steady, opFrame>>

\* The receive branch on an empty channel that Close has closed: a batch takes the
\* nil response for its result, a call dereferences it.
ReceiveNil(e, o) ==
    /\ Mine(e, o) /\ pc[o] = "await"
    /\ o \in shut /\ answer[o] = {}
    /\ IF plan[o].kind = "batch"
         THEN Return(o, "nil") /\ UNCHANGED <<alive, cut>>
         ELSE Dies(e) /\ UNCHANGED <<pc, outcome, pending>>
    /\ UNCHANGED <<steady, id, answer, shut, nextID, sendVars, wire, dial,
                   connErr, reader, closing, runVars, registered>>

Await(e, o) == Enqueue(e, o) \/ SeeClosed(e, o) \/ Receive(e, o) \/ ReceiveNil(e, o)

\* All that a goroutine in Call, CallBatch or Notify may do.
Operation(e, o, given) ==
    Refuse(e, o, given) \/ Begin(e, o, given) \/ Await(e, o) \/ TimeOut(e, o)

-----------------------------------------------------------------------------
(* readLoop and the handlers it starts.                                     *)

\* A request gets a goroutine of its own, so readLoop goes on reading.
ReaderBusyFault(e) == \E o \in Ops : plan[o].end # e /\ hpc[o] \notin {"none", "done"}
ReaderBusy(e) == FALSE

\* handleIncomingResponse: the channel stored under the id of the response gets
\* it, unless it holds one already.
DeliverFault(e, m) ==
    answer' = [o \in Ops |-> IF o \in pending /\ id[o] = m.id /\ answer[o] = {}
                               THEN {[from |-> m.op, res |-> m.res]} ELSE answer[o]]
Deliver(e, m) ==
    answer' = [o \in Ops |-> IF o \in pending /\ plan[o].end = e /\ id[o] = m.id
                                  /\ answer[o] = {}
                               THEN {[from |-> m.op, res |-> m.res]} ELSE answer[o]]

ReadMessage(e) ==
    /\ e \in alive /\ reader[e] = "read" /\ ~ReaderBusy(e)
    /\ e \notin cut /\ "network" \notin cut
    /\ wire[Other(e)] # <<>>
    /\ LET m == Head(wire[Other(e)]) IN
         IF m.type = "request"
           THEN hpc' = [hpc EXCEPT ![m.op] = "spawned"] /\ UNCHANGED answer
           ELSE Deliver(e, m) /\ UNCHANGED hpc
    /\ wire' = [wire EXCEPT ![Other(e)] = Tail(@)]
    /\ UNCHANGED <<steady, pc, outcome, id, shut, pending, nextID, sendVars, endVars,
                   cut, dial, served, registered>>

\* The read fails, whether or not all that was sent has arrived.
ReadEnds(e, recorded) ==
    /\ e \in alive /\ reader[e] = "read"
    /\ cut # {}
    /\ StopReading(e)
    /\ Record(e, recorded)
    /\ UNCHANGED <<steady, opVars, sendVars, wire, dial, alive, runVars>>

\* HandleRequest: the object of a callback is looked up, and its method runs.
Found(o) == plan[o].parent = NoOp \/ plan[o].parent \in registered

handlerFrame == <<steady, opVars, writer, unsent, linkVars, endVars,
                  registered>>

AfterRun(o) == IF plan[o].kind = "notify" THEN "done" ELSE "replying"

Run(e, o) ==
    /\ plan[o].end = Other(e) /\ e \in alive /\ hpc[o] = "spawned"
    /\ IF Found(o)
         THEN /\ hpc' = [hpc EXCEPT ![o] = "running"]
              /\ served' = [served EXCEPT ![o] = @ + 1]
         ELSE hpc' = [hpc EXCEPT ![o] = AfterRun(o)] /\ UNCHANGED served
    /\ UNCHANGED <<writeChan, handlerFrame>>

\* The method returns, after the callbacks it has made.
Finish(e, o) ==
    /\ plan[o].end = Other(e) /\ e \in alive /\ hpc[o] = "running"
    /\ \A q \in Callbacks(o) : ~Calling(q)
    /\ hpc' = [hpc EXCEPT ![o] = AfterRun(o)]
    /\ UNCHANGED <<served, writeChan, handlerFrame>>

\* The response is queued, with the id of the request, or dropped after a Close.
Reply(e, o) ==
    /\ plan[o].end = Other(e) /\ e \in alive /\ hpc[o] = "replying"
    /\ \/ /\ HasRoom(e)
          /\ writeChan' = [writeChan EXCEPT
               ![e] = Append(@, [type |-> "response", op |-> o, id |-> id[o],
                                 res |-> IF served[o] > 0 THEN "ok" ELSE "missing"])]
       \/ Closed(e) /\ UNCHANGED writeChan
    /\ hpc' = [hpc EXCEPT ![o] = "done"]
    /\ UNCHANGED <<served, handlerFrame>>

Handle(e, o) == Run(e, o) \/ Finish(e, o) \/ Reply(e, o)

-----------------------------------------------------------------------------
(* writeLoop.                                                               *)

writerFrame == <<pc, outcome, id, shut, pending, nextID, dial, reader,
                 closing, alive, runVars, registered>>

DequeueFault(e) == UNCHANGED writeChan
Dequeue(e) == writeChan' = [writeChan EXCEPT ![e] = Tail(@)]

\* An item is taken and written, which takes as long as the stream has no room: the
\* item in hand counts as the first of the queue.  What is written to a stream that
\* the other end has left may vanish.
Write(e) ==
    /\ e \in alive /\ writer[e] = "idle" /\ writeChan[e] # <<>>
    /\ e \notin cut
    /\ \/ cut # {} /\ UNCHANGED wire
       \/ /\ cut = {} /\ Len(wire[e]) < WireCap
          /\ wire' = [wire EXCEPT ![e] = Append(@, Head(writeChan[e]))]
    /\ Dequeue(e)
    /\ UNCHANGED <<answer, writer, cut, unsent, connErr, steady, writerFrame>>

\* The item cannot be encoded, or not be written: the loop ends and the connection
\* stays as it is.  A transport with notifyPendingRequest tells the caller of a
\* single request.
ToldFault(e, told) == UNCHANGED answer
Told(e, told) ==
    answer' = [o \in Ops |->
        IF /\ told /\ plan[o].end = e /\ plan[o].kind = "call"
           /\ o \in pending /\ answer[o] = {}
           /\ Head(writeChan[e]).type = "request" /\ Head(writeChan[e]).op = o
          THEN {[from |-> o, res |-> "unsent"]} ELSE answer[o]]

WriterGivesUp(e, told, recorded, encodes) ==
    /\ e \in alive /\ writer[e] = "idle" /\ writeChan[e] # <<>>
    /\ \/ cut # {} /\ UNCHANGED troubles
       \/ cut = {} /\ encodes /\ Trouble
    /\ Told(e, told)
    /\ Record(e, recorded)
    /\ unsent' = unsent \cup {o \in Ops : [type |-> "request", op |-> o, id |-> id[o]]
                                            = Head(writeChan[e])}
    /\ Dequeue(e)
    /\ writer' = [writer EXCEPT ![e] = "stopped"]
    /\ UNCHANGED <<wire, cut, fixed, writerFrame>>

\* The select of writeLoop takes either branch once closeChan is closed.
WriterSeesClosed(e) ==
    /\ e \in alive /\ writer[e] = "idle" /\ Closed(e)
    /\ writer' = [writer EXCEPT ![e] = "stopped"]
    /\ UNCHANGED <<answer, writeChan, wire, cut, unsent, connErr, steady,
                   writerFrame>>

-----------------------------------------------------------------------------
(* Close.                                                                   *)

\* The application calls it.
CloseChan(e) ==
    /\ Trouble
    /\ e \in alive /\ reader[e] # "none" /\ ~Closed(e)
    /\ BeginClose(e)
    /\ UNCHANGED <<fixed, opVars, sendVars, wire, dial, connErr, reader, alive, runVars>>

\* DisposeAll, except where the session outlives the connection; then Range: the
\* channel of every pending operation is closed, its entry deleted.
DisposeAndWake(e, disposes) ==
    /\ e \in alive /\ closing[e] = "streamEnded"
    /\ closing' = [closing EXCEPT ![e] = "closed"]
    /\ registered' = IF disposes THEN {o \in registered : plan[o].end # e} ELSE registered
    /\ shut' = shut \cup {o \in pending : plan[o].end = e}
    /\ pending' = {o \in pending : plan[o].end # e}
    /\ UNCHANGED <<steady, pc, outcome, id, answer, nextID, sendVars, linkVars,
                   connErr, reader, alive, runVars>>

Close(e, disposes) == CloseChan(e) \/ DisposeAndWake(e, disposes)
=============================================================================
