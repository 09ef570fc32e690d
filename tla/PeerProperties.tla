--------------------------- MODULE PeerProperties ---------------------------
(***************************************************************************)
(* What the endpoint of module Peer must guarantee, and what its           *)
(* documentation promises and the code does not keep.                      *)
(***************************************************************************)
EXTENDS Peer

-----------------------------------------------------------------------------
(* Properties.                                                              *)

EntriesOf(o) == {[id |-> i, op |-> o] : i \in ids[o]}

CallsTypeOK ==
    /\ pc \in [Ops -> {"new", "store", "enqueue", "await", "cleanup", "registered", "done"}]
    /\ kind \in [Ops -> Kinds \cup {"none"}]
    /\ ids \in [Ops -> SUBSET Nat] /\ todo \in [Ops -> SUBSET Nat]
    /\ answers \in [Ops -> SUBSET Responses]
    /\ outcome \in [Ops -> {"none", "refused", "closed", "timeout", "answered"}]
    /\ nextID \in Nat

MapTypeOK ==
    /\ pendingReqs \subseteq Entries /\ closedCh \subseteq Entries
    /\ buffered \subseteq Letters

QueueTypeOK == writeChan \in Seq(Requests \cup Replies) /\ Len(writeChan) <= QueueCap

WriterTypeOK ==
    /\ wpc \in {"idle", "writing", "notify", "notifySend", "fail", "stopped"}
    /\ witem \subseteq Requests \cup Replies /\ wloaded \subseteq Letters
    /\ wire \subseteq Entries /\ replied \subseteq Incoming

ReaderTypeOK ==
    /\ rpc \in {"check", "decode", "deliver", "exit", "done"}
    /\ inbox \subseteq Responses /\ loaded \subseteq Letters /\ late \in Nat

HandlerTypeOK ==
    /\ hpc \in [Incoming -> {"new", "handling", "replying", "done"}]
    /\ hkind \in [Incoming -> HKinds \cup {"none"}]
    /\ refs \subseteq Refs /\ disposed \subseteq Refs

CloseTypeOK ==
    /\ closePhase \in {"open", "disposing", "ranging", "closed"}
    /\ rangeLeft \subseteq Entries /\ rangeCur \subseteq Entries
    /\ connErr \in {"none", "read error", "write error"}
    /\ crashed \in {"no", "send on closed channel", "nil response"}

\* Every variable stays in its type, and writeChan within its capacity.
TypeOK ==
    /\ CallsTypeOK /\ MapTypeOK /\ QueueTypeOK /\ WriterTypeOK
    /\ ReaderTypeOK /\ HandlerTypeOK /\ CloseTypeOK

\* Whatever arrives late, twice or out of order, an operation only ever receives
\* responses to its own requests (Call, CallBatch and handleIncomingResponse
\* agree on who waits for which id).
ResponseMatchesCall ==
    \A o \in Ops : \A r \in answers[o] : r.op = o /\ r.id \in ids[o]

\* No operation leaves an entry behind in pendingReqs when it returns, on any of
\* its paths (the deferred Delete of Call and CallBatch).
NoLeakedPending ==
    \A p \in pendingReqs :
        /\ p.id \in ids[p.op]
        /\ pc[p.op] \in {"store", "enqueue", "await", "cleanup"}

\* Until Close empties the map, the entry an operation still waits on is in it, so
\* that its response cannot be taken for one nobody asked for.
AwaitedIsPending ==
    \A o \in Ops :
        pc[o] \in {"enqueue", "await"} /\ closePhase \in {"open", "disposing"} =>
            \A i \in todo[o] : [id |-> i, op |-> o] \in pendingReqs

\* An operation that succeeds has a response for each of its requests, except
\* those whose channel Close has closed.
AnsweredInFull ==
    \A o \in Ops : outcome[o] = "answered" =>
        \A e \in EntriesOf(o) \ closedCh : \E r \in answers[o] : r.id = e.id

\* Once Close has moved on from an entry, no Load can find its closed channel.
ClosedIsUnmapped == closedCh \cap pendingReqs \subseteq rangeCur

\* When writeLoop gives up on a Call's request, the caller is told: an error waits
\* in its channel, unless Close has taken the entry away.
WriteErrorReachesCaller ==
    \A x \in witem :
        wpc = "fail" /\ x.kind = "call" /\ pc[x.op] = "await" =>
            closePhase \in {"ranging", "closed"} \/ \E b \in buffered : b.ch.op = x.op

\* After closeChan is closed readLoop, which only polls it between two messages,
\* serves at most the one message it was blocked in Decode for.
OneMessageAfterClose == late <= 1

\* No request is put on the wire twice.
SentOnce ==
    [][wpc = "writing" /\ wpc' = "idle" =>
        \A x \in witem : x.kind # "reply" =>
            \A i \in x.ids : [id |-> i, op |-> x.op] \notin wire]_vars

\* The one way an operation can hang: writeLoop is dead, writeChan is full, and
\* nobody has closed the endpoint.  The select that queues a request has no timer.
Stranded(o) ==
    pc[o] = "enqueue" /\ ~HasRoom /\ wpc = "stopped" /\ ~Closed

\* Every operation that starts returns, or is stranded.
OpReturns ==
    \A o \in Ops : pc[o] \notin {"new", "registered", "done"} ~>
        (pc[o] = "done" \/ Stranded(o) \/ crashed # "no")

\* Close releases every operation under way, stranded ones included.
CloseReleasesOps ==
    \A o \in Ops : (Closed /\ pc[o] \notin {"new", "registered"}) ~>
        (pc[o] = "done" \/ crashed # "no")

\* The end of the stream, or a read error, closes the endpoint: Close is called and
\* ends, although entries come and go while Range runs.
StreamEndCloses == rpc = "exit" ~> (closePhase = "closed" \/ crashed # "no")

\* A request that is being served gets its reply on the wire, unless the
\* connection fails or is closed first.
RequestAnswered ==
    \A m \in Incoming : (hpc[m] = "handling" /\ hkind[m] = "request") ~>
        (m \in replied \/ Closed \/ wpc \in {"notify", "fail", "stopped"}
           \/ crashed # "no")

-----------------------------------------------------------------------------
(* The endpoint implements RpcCalls.                                        *)

\* Every channel of the operation has yielded a response of the remote.
FullyAnswered(o) ==
    /\ Cardinality(answers[o]) = Cardinality(ids[o])
    /\ \A r \in answers[o] : r.src = "remote"

PhaseOf(o) ==
    LET Started == pc[o] # "new" /\ kind[o] # "register"
        Ended == Started /\ outcome[o] = "answered"
    IN  CASE ~Started -> "idle"
          [] Started /\ outcome[o] = "refused" -> "rejected"
          [] Started /\ outcome[o] = "none" -> "open"
          [] Ended /\ ids[o] = {} -> "accepted"
          [] Ended /\ ids[o] # {} /\ FullyAnswered(o) -> "succeeded"
          [] OTHER -> "failed"

Calls == INSTANCE RpcCalls WITH
    phase <- [o \in Ops |-> PhaseOf(o)],
    sent <- {e.op : e \in wire}

\* Call, CallBatch and Notify keep the promises of RpcCalls.
ImplementsRpcCalls == Calls!Spec

-----------------------------------------------------------------------------
(* What the documentation says and the code does not keep (see README.md).  *)

\* "Channel full or closed, ignore": a late response to a closed channel is
\* ignored by handleIncomingResponse.
NoSendOnClosedChannel == crashed # "send on closed channel"

\* "Wake up all pending requests": Close lets a pending Call return an error.
NoNilResponse == crashed # "nil response"

=============================================================================
