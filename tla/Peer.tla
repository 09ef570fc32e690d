-------------------------------- MODULE Peer --------------------------------
(***************************************************************************)
(* One endpoint of a bidirectional JSON-RPC 3.0 connection over a stream:  *)
(* src/go/jsonrpc3/peer.go.  The goroutines of the endpoint are            *)
(*   - one per operation of the application (Ops): Call, CallBatch, Notify *)
(*   - readLoop, the only receiver of the stream                           *)
(*   - writeLoop, the only sender, fed by the bounded channel writeChan    *)
(*   - one per incoming request, notification or batch (Incoming)          *)
(*   - whoever runs Close: the application, or readLoop when it returns.   *)
(* They share pendingReqs (a sync.Map from request id to the response      *)
(* channel of the caller), writeChan, closeChan, connErr and the session.  *)
(*                                                                         *)
(* A response channel is named by the entry [id, op] it is stored under:   *)
(* the operation that made it and the id it was made for.  It holds at     *)
(* most one response and may be closed.  Every message carries the         *)
(* operation it belongs to as a ghost, so that a response that reaches the *)
(* wrong caller can be told from one that reaches the right one.           *)
(*                                                                         *)
(* An operator named XFault is a plausible bug in X.  It is used by no     *)
(* specification: it shows that the properties tell it from X.             *)
(***************************************************************************)
EXTENDS Naturals, Sequences, FiniteSets

CONSTANTS
    Ops,        \* goroutines of the application, one operation each
    Incoming,   \* goroutines that serve one incoming message each
    MaxBatch,   \* most entries with an id in one batch
    QueueCap    \* capacity of writeChan, 100 in the code

ASSUME QueueCapAssumption == QueueCap \in Nat \ {0}
ASSUME MaxBatchAssumption == MaxBatch \in Nat
ASSUME NamesAssumption == Ops \cap Incoming = {}

VARIABLES
    pc, kind, ids, todo, answers, outcome,  \* each operation's locals
    nextID,                                 \* Peer.nextID
    pendingReqs, buffered, closedCh,        \* the map and its channels
    writeChan,                              \* Peer.writeChan
    wpc, witem, wloaded,                    \* writeLoop's locals
    wire, replied,                          \* what the remote has received
    rpc, inbox, loaded, late,               \* readLoop's locals
    hpc, hkind,                             \* each handler goroutine's locals
    refs, disposed,                         \* session.localRefs, disposed objects
    closePhase, rangeLeft, rangeCur,        \* the progress of Close
    connErr, crashed                        \* Peer.connErr, a panic

callVars    == <<pc, kind, ids, todo, answers, outcome, nextID>>
mapVars     == <<pendingReqs, buffered, closedCh>>
writerVars  == <<wpc, witem, wloaded, wire, replied>>
readerVars  == <<rpc, inbox, loaded, late>>
handlerVars == <<hpc, hkind>>
sessionVars == <<refs, disposed>>
closeVars   == <<closePhase, rangeLeft, rangeCur>>
vars == <<callVars, mapVars, writeChan, writerVars, readerVars, handlerVars,
          sessionVars, closeVars, connErr, crashed>>

\* What the steps of each goroutine leave alone.
opFrame      == <<writerVars, readerVars, handlerVars, sessionVars, closeVars, connErr>>
readerFrame  == <<callVars, writeChan, writerVars, sessionVars, closeVars>>
writerFrame  == <<callVars, readerVars, handlerVars, sessionVars, closeVars>>
registerFrame == <<mapVars, writeChan, writerVars, readerVars, handlerVars, closeVars,
                   connErr, crashed>>
handlerFrame == <<callVars, mapVars, writerVars, readerVars, closeVars, connErr, crashed>>
closeFrame   == <<callVars, writeChan, writerVars, readerVars, handlerVars, connErr,
                  crashed>>

Kinds     == {"call", "batch", "notify", "register"}
HKinds    == {"request", "notification", "invalid"}
Entries   == [id : Nat, op : Ops]
Responses == [id : Nat, op : Ops, src : {"remote", "local"}]
Letters   == [ch : Entries, resp : Responses]
Requests  == [kind : {"call", "batch", "notify"}, ids : SUBSET Nat, op : Ops]
Replies   == [kind : {"reply"}, msg : Incoming]
Refs      == Ops \cup Incoming   \* an object is named by who registers it

\* What each goroutine is going to do; "none" is one that never comes to life.
Init ==
    /\ kind \in [Ops -> Kinds \cup {"none"}]
    /\ hkind \in [Incoming -> HKinds \cup {"none"}]
    /\ pc = [o \in Ops |-> "new"]
    /\ ids = [o \in Ops |-> {}]
    /\ todo = [o \in Ops |-> {}]
    /\ answers = [o \in Ops |-> {}]
    /\ outcome = [o \in Ops |-> "none"]
    /\ nextID = 0
    /\ pendingReqs = {} /\ buffered = {} /\ closedCh = {}
    /\ writeChan = <<>>
    /\ wpc = "idle" /\ witem = {} /\ wloaded = {} /\ wire = {} /\ replied = {}
    /\ rpc = "check" /\ inbox = {} /\ loaded = {} /\ late = 0
    /\ hpc = [m \in Incoming |-> "new"]
    /\ refs = {} /\ disposed = {}
    /\ closePhase = "open" /\ rangeLeft = {} /\ rangeCur = {}
    /\ connErr = "none" /\ crashed = "no"

-----------------------------------------------------------------------------
(* Shared helpers.                                                          *)

\* A panic in any goroutine ends the process: no action is enabled after it.
Running == crashed = "no"

\* closeChan is closed, so every select on it has that branch ready.
Closed == closePhase # "open"

HasRoomFault == Len(writeChan) <= QueueCap
HasRoom == Len(writeChan) < QueueCap

\* The id whose turn it is: those of a batch are taken in ascending order.
Lowest(S) == {i \in S : \A j \in S : i <= j}

\* setError: the first error is kept.
SetError(e) == connErr' = IF connErr = "none" THEN e ELSE connErr

\* nextID.Add, once for each id an operation needs.
FreshIds(n) == (nextID + 1) .. (nextID + n)

\* sync.Map: Load returns the entry of the key if there is one, Store replaces it,
\* Delete removes it.
LoadFault(i) == pendingReqs
Load(i) == {p \in pendingReqs : p.id = i}

StoreFault(e) == pendingReqs' = {e}
Store(e) == pendingReqs' = {p \in pendingReqs : p.id # e.id} \cup {e}

Delete(S) == pendingReqs' = {p \in pendingReqs : p.id \notin S}

\* select { case ch <- resp: default: } on the channel a Load returned.  A send
\* on a closed channel panics even with a default branch; on a full one it is
\* skipped.
Deliver(l) ==
    /\ IF l.ch \in closedCh
         THEN crashed' = "send on closed channel" /\ UNCHANGED buffered
         ELSE /\ UNCHANGED crashed
              /\ buffered' = IF \E b \in buffered : b.ch = l.ch
                               THEN buffered ELSE buffered \cup {l}
    /\ UNCHANGED <<pendingReqs, closedCh>>

-----------------------------------------------------------------------------
(* Call, CallBatch and Notify.                                              *)

\* getError refuses the operation once the connection has failed.
Refuse(o) ==
    /\ Running /\ pc[o] = "new" /\ kind[o] \in {"call", "batch", "notify"}
    /\ connErr # "none"
    /\ pc' = [pc EXCEPT ![o] = "done"]
    /\ outcome' = [outcome EXCEPT ![o] = "refused"]
    /\ UNCHANGED <<kind, ids, todo, answers, nextID, mapVars, writeChan, crashed,
                   opFrame>>

\* getError passes and n ids are drawn: one for a call, one for each entry of a
\* batch that is not a notification, none for a notification.
Sizes(k) == CASE k = "call" -> {1} [] k = "notify" -> {0} [] k = "batch" -> 0 .. MaxBatch
              [] OTHER -> {}

Begin(o, n) ==
    /\ Running /\ pc[o] = "new"
    /\ connErr = "none"
    /\ nextID' = nextID + n
    /\ ids' = [ids EXCEPT ![o] = FreshIds(n)]
    /\ todo' = [todo EXCEPT ![o] = FreshIds(n)]
    /\ pc' = [pc EXCEPT ![o] = IF n = 0 THEN "enqueue" ELSE "store"]
    /\ UNCHANGED <<kind, answers, outcome, mapVars, writeChan, crashed, opFrame>>

\* An empty batch returns without touching the connection.
EmptyBatch(o) ==
    /\ Running /\ pc[o] = "new" /\ kind[o] = "batch"
    /\ connErr = "none"
    /\ pc' = [pc EXCEPT ![o] = "done"]
    /\ outcome' = [outcome EXCEPT ![o] = "answered"]
    /\ UNCHANGED <<kind, ids, todo, answers, nextID, mapVars, writeChan, crashed,
                   opFrame>>

\* The response channels are made and stored one id after the other.
StorePending(o) ==
    /\ Running /\ pc[o] = "store"
    /\ \E i \in Lowest(todo[o]) :
         /\ Store([id |-> i, op |-> o])
         /\ IF todo[o] = {i}
              THEN /\ pc' = [pc EXCEPT ![o] = "enqueue"]
                   /\ todo' = [todo EXCEPT ![o] = ids[o]]
              ELSE /\ todo' = [todo EXCEPT ![o] = @ \ {i}]
                   /\ UNCHANGED pc
    /\ UNCHANGED <<kind, ids, answers, outcome, nextID, buffered, closedCh, writeChan,
                   crashed, opFrame>>

\* The send branch of the select on writeChan.  A notification returns at once,
\* and so does a batch that has only notifications.
Enqueue(o) ==
    /\ Running /\ pc[o] = "enqueue"
    /\ HasRoom
    /\ writeChan' = Append(writeChan, [kind |-> kind[o], ids |-> ids[o], op |-> o])
    /\ IF ids[o] = {}
         THEN /\ pc' = [pc EXCEPT ![o] = "done"]
              /\ outcome' = [outcome EXCEPT ![o] = "answered"]
         ELSE /\ pc' = [pc EXCEPT ![o] = "await"]
              /\ UNCHANGED outcome
    /\ UNCHANGED <<kind, ids, todo, answers, nextID, mapVars, crashed, opFrame>>

\* An operation stops with result r and runs its deferred Delete next.
FinishFault(o, r) == outcome' = [outcome EXCEPT ![o] = r] /\ UNCHANGED pc
Finish(o, r) ==
    /\ pc' = [pc EXCEPT ![o] = "cleanup"]
    /\ outcome' = [outcome EXCEPT ![o] = r]

\* The closeChan branch of the two selects.
WatchesCloseFault(o) == pc[o] = "await"
WatchesClose(o) == pc[o] \in {"enqueue", "await"}

SeeClosed(o) ==
    /\ Running /\ WatchesClose(o)
    /\ Closed
    /\ Finish(o, "closed")
    /\ UNCHANGED <<kind, ids, todo, answers, nextID, mapVars, writeChan, crashed,
                   opFrame>>

\* The timer branch: 30 s for the whole operation, counted from the enqueueing.
TimeOutFault(o) == FALSE
TimeOut(o) ==
    /\ Running /\ pc[o] = "await"
    /\ Finish(o, "timeout")
    /\ UNCHANGED <<kind, ids, todo, answers, nextID, mapVars, writeChan, crashed,
                   opFrame>>

\* One response less to wait for; the last one ends the operation.
CollectedFault(o, i) == todo' = [todo EXCEPT ![o] = {}] /\ Finish(o, "answered")
Collected(o, i) ==
    /\ todo' = [todo EXCEPT ![o] = @ \ {i}]
    /\ IF todo[o] = {i} THEN Finish(o, "answered") ELSE UNCHANGED <<pc, outcome>>

\* The receive branch with a response in the channel.
Receive(o) ==
    /\ Running /\ pc[o] = "await"
    /\ \E i \in Lowest(todo[o]), b \in buffered :
         /\ b.ch = [id |-> i, op |-> o]
         /\ buffered' = buffered \ {b}
         /\ answers' = [answers EXCEPT ![o] = @ \cup {b.resp}]
         /\ Collected(o, i)
    /\ UNCHANGED <<kind, ids, nextID, pendingReqs, closedCh, writeChan, crashed, opFrame>>

\* The receive branch on a channel that Close has closed: the response is nil.
\* Call dereferences it (resp.Error), CallBatch stores it.
ReceiveNil(o) ==
    /\ Running /\ pc[o] = "await"
    /\ \E i \in Lowest(todo[o]) :
         /\ [id |-> i, op |-> o] \in closedCh
         /\ \A b \in buffered : b.ch # [id |-> i, op |-> o]
         /\ IF kind[o] = "call"
              THEN crashed' = "nil response" /\ UNCHANGED <<pc, todo, outcome>>
              ELSE Collected(o, i) /\ UNCHANGED crashed
    /\ UNCHANGED <<kind, ids, answers, nextID, mapVars, writeChan, opFrame>>

\* The deferred Delete of every id of the operation.
ForgetFault(o) == UNCHANGED pendingReqs
Forget(o) == Delete(ids[o])

Cleanup(o) ==
    /\ Running /\ pc[o] = "cleanup"
    /\ Forget(o)
    /\ pc' = [pc EXCEPT ![o] = "done"]
    /\ UNCHANGED <<kind, ids, todo, answers, outcome, nextID, buffered, closedCh,
                   writeChan, crashed, opFrame>>

OpStep(o) ==
    \/ StorePending(o) \/ Enqueue(o) \/ SeeClosed(o) \/ TimeOut(o)
    \/ Receive(o) \/ ReceiveNil(o) \/ Cleanup(o)

StartOp(o) == Refuse(o) \/ EmptyBatch(o) \/ \E n \in Sizes(kind[o]) : Begin(o, n)

\* RegisterObject adds to the session whatever the state of the connection;
\* UnregisterObject finds the object unless DisposeAll has come first.
RegisterObject(o) ==
    /\ Running /\ pc[o] = "new" /\ kind[o] = "register"
    /\ pc' = [pc EXCEPT ![o] = "registered"]
    /\ refs' = refs \cup {o}
    /\ UNCHANGED <<kind, ids, todo, answers, outcome, nextID, disposed, registerFrame>>

UnregisterObject(o) ==
    /\ Running /\ pc[o] = "registered"
    /\ pc' = [pc EXCEPT ![o] = "done"]
    /\ refs' = refs \ {o}
    /\ disposed' = disposed \cup ({o} \cap refs)
    /\ UNCHANGED <<kind, ids, todo, answers, outcome, nextID, registerFrame>>

-----------------------------------------------------------------------------
(* Close, run once, by the application or by readLoop.                      *)

\* cancel() and close(closeChan).
CloseChan ==
    /\ Running /\ closePhase = "open"
    /\ closePhase' = "disposing"
    /\ UNCHANGED <<mapVars, sessionVars, rangeLeft, rangeCur, closeFrame>>

\* session.DisposeAll(); then Range begins.  It visits every entry that stays in
\* the map, and of those that come or go while it runs any it likes.
DisposeAll ==
    /\ Running /\ closePhase = "disposing"
    /\ disposed' = disposed \cup refs
    /\ refs' = {}
    /\ closePhase' = "ranging"
    /\ rangeLeft' = pendingReqs
    /\ UNCHANGED <<mapVars, rangeCur, closeFrame>>

\* The callback of Range closes the channel, then deletes the entry.
RangeClose(p) ==
    /\ Running /\ closePhase = "ranging" /\ rangeCur = {}
    /\ p \in pendingReqs
    /\ closedCh' = closedCh \cup {p}
    /\ rangeCur' = {p}
    /\ UNCHANGED <<pendingReqs, buffered, sessionVars, closePhase, rangeLeft,
                   closeFrame>>

RangeForgetFault == UNCHANGED pendingReqs
RangeForget == Delete({p.id : p \in rangeCur})

RangeDelete ==
    /\ Running /\ closePhase = "ranging" /\ rangeCur # {}
    /\ RangeForget
    /\ rangeCur' = {}
    /\ UNCHANGED <<buffered, closedCh, sessionVars, closePhase, rangeLeft, closeFrame>>

RangeDone ==
    /\ Running /\ closePhase = "ranging" /\ rangeCur = {}
    /\ rangeLeft \cap pendingReqs = {}
    /\ closePhase' = "closed"
    /\ rangeLeft' = {}
    /\ UNCHANGED <<mapVars, sessionVars, rangeCur, closeFrame>>

CloseStep == DisposeAll \/ RangeDelete \/ RangeDone
             \/ \E p \in pendingReqs : RangeClose(p)

-----------------------------------------------------------------------------
(* readLoop.                                                                *)

\* The top of the loop polls closeChan before it blocks in Decode.
PollCloseFault == "decode"
PollClose == IF Closed THEN "exit" ELSE "decode"

ReadCheck ==
    /\ Running /\ rpc = "check"
    /\ rpc' = PollClose
    /\ UNCHANGED <<mapVars, inbox, loaded, late, handlerVars, connErr, crashed,
                   readerFrame>>

\* Decode fails: the end of the stream is not recorded as an error.
ReadEnd(e) ==
    /\ Running /\ rpc = "decode"
    /\ rpc' = "exit"
    /\ IF e = "eof" THEN UNCHANGED connErr ELSE SetError(e)
    /\ UNCHANGED <<mapVars, inbox, loaded, late, handlerVars, crashed, readerFrame>>

\* A request, a notification, a batch of them ("request" if some entry has an
\* id) or an invalid batch (empty, or with responses in it) gets a goroutine.
\* late is a ghost: how many come after closeChan is closed.
ReadRequest(m) ==
    /\ Running /\ rpc = "decode"
    /\ hpc[m] = "new" /\ hkind[m] # "none"
    /\ hpc' = [hpc EXCEPT ![m] = "handling"]
    /\ rpc' = "check"
    /\ late' = IF Closed THEN late + 1 ELSE late
    /\ UNCHANGED <<mapVars, hkind, inbox, loaded, connErr, crashed, readerFrame>>

\* One message set of responses.  The remote answers requests it has received,
\* in any order, more than once, or long after their caller has gone.
Answers == {[id |-> e.id, op |-> e.op, src |-> "remote"] : e \in wire}

ReadResponses(S) ==
    /\ Running /\ rpc = "decode"
    /\ inbox' = S
    /\ rpc' = "deliver"
    /\ UNCHANGED <<mapVars, loaded, late, handlerVars, connErr, crashed, readerFrame>>

\* handleIncomingResponse, first half: the channel is looked up.
LoadPending(r) ==
    /\ Running /\ rpc = "deliver" /\ loaded = {}
    /\ r \in inbox
    /\ inbox' = inbox \ {r}
    /\ loaded' = {[ch |-> p, resp |-> r] : p \in Load(r.id)}
    /\ rpc' = IF inbox' = {} /\ loaded' = {} THEN "check" ELSE "deliver"
    /\ UNCHANGED <<mapVars, late, handlerVars, connErr, crashed, readerFrame>>

\* Second half: the response is sent to it.
SendLoaded ==
    /\ Running /\ rpc = "deliver"
    /\ \E l \in loaded : Deliver(l)
    /\ loaded' = {}
    /\ rpc' = IF inbox = {} THEN "check" ELSE "deliver"
    /\ UNCHANGED <<inbox, late, handlerVars, connErr, readerFrame>>

\* The deferred Close of readLoop, unless a Close has already begun.
ReaderClosesFault == FALSE
ReaderCloses == rpc = "exit" /\ CloseChan

\* The deferred Close has returned (it waits for a Close already under way).
ReaderDone ==
    /\ Running /\ rpc = "exit"
    /\ closePhase = "closed"
    /\ rpc' = "done"
    /\ UNCHANGED <<mapVars, inbox, loaded, late, handlerVars, connErr, crashed,
                   readerFrame>>

\* The remote and the stream: what Decode returns is theirs to choose.
Remote ==
    \/ \E e \in {"eof", "read error"} : ReadEnd(e)
    \/ \E m \in Incoming : ReadRequest(m)
    \/ \E S \in SUBSET Answers \ {{}} : ReadResponses(S)

ReaderStep == ReadCheck \/ (\E r \in inbox : LoadPending(r)) \/ SendLoaded
              \/ ReaderCloses \/ ReaderDone

-----------------------------------------------------------------------------
(* writeLoop.                                                               *)

TakeHeadFault == witem' = {Head(writeChan)} /\ UNCHANGED writeChan
TakeHead == witem' = {Head(writeChan)} /\ writeChan' = Tail(writeChan)

WriterTake ==
    /\ Running /\ wpc = "idle"
    /\ writeChan # <<>>
    /\ TakeHead
    /\ wpc' = "writing"
    /\ UNCHANGED <<mapVars, wloaded, wire, replied, connErr, crashed, writerFrame>>

WriterSeesClosed ==
    /\ Running /\ wpc = "idle"
    /\ Closed
    /\ wpc' = "stopped"
    /\ UNCHANGED <<mapVars, writeChan, witem, wloaded, wire, replied, connErr,
                   crashed, writerFrame>>

\* The item reaches the remote: requests to be answered, or a reply.
Transmit ==
    /\ wire' = wire \cup UNION {{[id |-> i, op |-> q.op] : i \in q.ids} :
                                 q \in {x \in witem : x.kind # "reply"}}
    /\ replied' = replied \cup {x.msg : x \in {y \in witem : y.kind = "reply"}}

WriteOK ==
    /\ Running /\ wpc = "writing"
    /\ Transmit
    /\ wpc' = "idle"
    /\ witem' = {}
    /\ UNCHANGED <<mapVars, writeChan, wloaded, connErr, crashed, writerFrame>>

\* The item cannot be encoded or written, or only its newline cannot be: then
\* the remote has it all the same.
WriteFail(transmitted) ==
    /\ Running /\ wpc = "writing"
    /\ IF transmitted THEN Transmit ELSE UNCHANGED <<wire, replied>>
    /\ wpc' = "notify"
    /\ UNCHANGED <<mapVars, writeChan, witem, wloaded, connErr, crashed, writerFrame>>

\* notifyPendingRequest: only a *Request with an id, not a batch, and only if it
\* is still pending, is sent an error response made here.
WaitersFault(x) == {}
Waiters(x) == IF x.kind = "call" THEN UNION {Load(i) : i \in x.ids} ELSE {}

NotifyLoad ==
    /\ Running /\ wpc = "notify"
    /\ wloaded' = {[ch |-> p, resp |-> [id |-> p.id, op |-> p.op, src |-> "local"]] :
                     p \in UNION {Waiters(x) : x \in witem}}
    /\ wpc' = IF wloaded' = {} THEN "fail" ELSE "notifySend"
    /\ UNCHANGED <<mapVars, writeChan, witem, wire, replied, connErr, crashed,
                   writerFrame>>

NotifySend ==
    /\ Running /\ wpc = "notifySend"
    /\ \E l \in wloaded : Deliver(l)
    /\ wloaded' = {}
    /\ wpc' = "fail"
    /\ UNCHANGED <<writeChan, witem, wire, replied, connErr, writerFrame>>

\* setError and return: the loop ends, the connection is not closed.
WriterFail ==
    /\ Running /\ wpc = "fail"
    /\ SetError("write error")
    /\ wpc' = "stopped"
    /\ witem' = {}
    /\ UNCHANGED <<mapVars, writeChan, wloaded, wire, replied, crashed, writerFrame>>

WriterStep ==
    \/ WriterTake \/ WriterSeesClosed \/ WriteOK
    \/ (\E t \in BOOLEAN : WriteFail(t))
    \/ NotifyLoad \/ NotifySend \/ WriterFail

-----------------------------------------------------------------------------
(* handleIncomingRequest, handleIncomingBatch, handleInvalidBatch.          *)

\* The handler runs: a result that holds an object is registered under a new
\* reference; a notification has a reply only when it fails.
\* An invalid batch runs no method: it, or each request in it, gets an error.
Handle(m) ==
    /\ Running /\ hpc[m] = "handling"
    /\ \/ hkind[m] = "request" /\ refs' \in {refs, refs \cup {m}}
          /\ hpc' = [hpc EXCEPT ![m] = "replying"]
       \/ hkind[m] \in {"notification", "invalid"} /\ UNCHANGED refs
          /\ \E next \in {"replying", "done"} : hpc' = [hpc EXCEPT ![m] = next]
    /\ UNCHANGED <<writeChan, hkind, disposed, handlerFrame>>

\* The select on writeChan has no default branch: a reply waits for room.
ReplyOf(m) == [kind |-> "reply", msg |-> m]
QueueReplyFault(m) ==
    writeChan' = IF HasRoom THEN Append(writeChan, ReplyOf(m)) ELSE writeChan
QueueReply(m) == HasRoom /\ writeChan' = Append(writeChan, ReplyOf(m))

Reply(m) ==
    /\ Running /\ hpc[m] = "replying"
    /\ QueueReply(m)
    /\ hpc' = [hpc EXCEPT ![m] = "done"]
    /\ UNCHANGED <<hkind, sessionVars, handlerFrame>>

DropReply(m) ==
    /\ Running /\ hpc[m] = "replying"
    /\ Closed
    /\ hpc' = [hpc EXCEPT ![m] = "done"]
    /\ UNCHANGED <<writeChan, hkind, sessionVars, handlerFrame>>

HandlerStep(m) == Handle(m) \/ Reply(m) \/ DropReply(m)

-----------------------------------------------------------------------------

Next ==
    \/ \E o \in Ops : StartOp(o) \/ OpStep(o) \/ RegisterObject(o) \/ UnregisterObject(o)
    \/ Remote \/ ReaderStep
    \/ WriterStep
    \/ \E m \in Incoming : HandlerStep(m)
    \/ CloseChan \/ CloseStep

Spec == Init /\ [][Next]_vars

\* What the Go scheduler, the timers and a stream that keeps accepting bytes
\* guarantee: every goroutine that can take a step takes one.  Nothing is assumed
\* of the remote, nor of when operations are started or the endpoint is closed.
Fairness ==
    /\ \A o \in Ops : WF_vars(OpStep(o))
    /\ WF_vars(ReaderStep) /\ WF_vars(WriterStep) /\ WF_vars(CloseStep)
    /\ \A m \in Incoming : WF_vars(HandlerStep(m))

=============================================================================
