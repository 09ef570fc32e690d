----------------------------- MODULE PeerProofs -----------------------------
(***************************************************************************)
(* Proofs about the endpoint of module Peer, for any number of operations, *)
(* incoming messages, batch sizes and capacity of writeChan.               *)
(***************************************************************************)
EXTENDS PeerProperties, TLAPS

\* An operation under way is one that sends something, and one that has not begun
\* has no ids.
Begun == \A o \in Ops :
    /\ pc[o] \in {"store", "enqueue", "await", "cleanup"} =>
         kind[o] \in {"call", "batch", "notify"}
    /\ pc[o] \in {"new", "registered"} => ids[o] = {}
    /\ todo[o] \subseteq ids[o]

TypeInv == TypeOK /\ Begun

LEMMA InitTypes == Init => TypeInv
  BY QueueCapAssumption DEF Init, TypeInv, TypeOK, Begun, CallsTypeOK, MapTypeOK, QueueTypeOK,
     WriterTypeOK, ReaderTypeOK, HandlerTypeOK, CloseTypeOK

-----------------------------------------------------------------------------
(* The types of the helpers the actions share.                              *)

LEMMA StoreTypes ==
  ASSUME pendingReqs \subseteq Entries, NEW e \in Entries, Store(e)
  PROVE  pendingReqs' \subseteq Entries
  BY DEF Store

LEMMA LoadTypes ==
  ASSUME pendingReqs \subseteq Entries, NEW i
  PROVE  Load(i) \subseteq Entries
  BY DEF Load

LEMMA AppendTypes ==
  ASSUME QueueTypeOK, NEW x \in Requests \cup Replies, HasRoom,
         writeChan' = Append(writeChan, x)
  PROVE  QueueTypeOK'
<1>1. writeChan' \in Seq(Requests \cup Replies) /\ Len(writeChan') = Len(writeChan) + 1
  BY DEF QueueTypeOK
<1>. QED  BY <1>1, QueueCapAssumption DEF QueueTypeOK, HasRoom

LEMMA TakeTypes ==
  ASSUME QueueTypeOK, writeChan # <<>>, TakeHead
  PROVE  QueueTypeOK' /\ witem' \subseteq Requests \cup Replies
<1>1. /\ Head(writeChan) \in Requests \cup Replies
      /\ Tail(writeChan) \in Seq(Requests \cup Replies)
      /\ Len(Tail(writeChan)) = Len(writeChan) - 1
      /\ Len(writeChan) \in Nat
  BY DEF QueueTypeOK
<1>. QED  BY <1>1, QueueCapAssumption DEF QueueTypeOK, TakeHead

\* The response a goroutine sends to the channel that a Load returned.
LEMMA LetterTypes ==
  ASSUME NEW p \in Entries, NEW r \in Responses
  PROVE  [ch |-> p, resp |-> r] \in Letters
  BY DEF Letters

LEMMA DeliverTypes ==
  ASSUME MapTypeOK, NEW l \in Letters, Deliver(l),
         crashed \in {"no", "send on closed channel", "nil response"}
  PROVE  MapTypeOK' /\ crashed' \in {"no", "send on closed channel", "nil response"}
  BY DEF MapTypeOK, Deliver

LEMMA TransmitTypes ==
  ASSUME WriterTypeOK, Transmit
  PROVE  wire' \subseteq Entries /\ replied' \subseteq Incoming
<1>1. ASSUME NEW q \in witem, q.kind # "reply", NEW i \in q.ids
      PROVE  [id |-> i, op |-> q.op] \in Entries
  BY <1>1 DEF WriterTypeOK, Requests, Replies, Entries
<1>2. ASSUME NEW x \in witem, x.kind = "reply"  PROVE x.msg \in Incoming
  BY <1>2 DEF WriterTypeOK, Requests, Replies
<1>. QED  BY <1>1, <1>2 DEF Transmit, WriterTypeOK

-----------------------------------------------------------------------------
(* Type correctness, one lemma per goroutine.                               *)

\* The locals of an operation.
LEMMA OpCallTypes ==
  ASSUME TypeInv, NEW o \in Ops, StartOp(o) \/ OpStep(o)
  PROVE  (CallsTypeOK /\ Begun)'
<1> USE DEF TypeInv, TypeOK, CallsTypeOK, Begun, opFrame, mapVars, Finish
<1>1. CASE Refuse(o)  BY <1>1 DEF Refuse
<1>2. CASE EmptyBatch(o)  BY <1>2 DEF EmptyBatch
<1>3. ASSUME NEW n \in Sizes(kind[o]), Begin(o, n)  PROVE (CallsTypeOK /\ Begun)'
  <2>1. n \in Nat /\ kind[o] \in {"call", "batch", "notify"}
    BY MaxBatchAssumption DEF Sizes, Kinds
  <2>2. FreshIds(n) \in SUBSET Nat
    BY <2>1 DEF FreshIds
  <2>. QED  BY <1>3, <2>1, <2>2 DEF Begin
<1>4. CASE StorePending(o)  BY <1>4 DEF StorePending, Lowest
<1>5. CASE Enqueue(o)  BY <1>5 DEF Enqueue
<1>6. CASE SeeClosed(o)  BY <1>6 DEF SeeClosed, WatchesClose
<1>7. CASE TimeOut(o)  BY <1>7 DEF TimeOut
<1>8. CASE Receive(o)
  <2>1. PICK i \in Lowest(todo[o]), b \in buffered :
          /\ answers' = [answers EXCEPT ![o] = @ \cup {b.resp}]
          /\ Collected(o, i)
    BY <1>8 DEF Receive
  <2>2. b.resp \in Responses
    BY DEF MapTypeOK, Letters
  <2>. QED  BY <1>8, <2>1, <2>2 DEF Receive, Collected
<1>9. CASE ReceiveNil(o)
  <2>1. CASE UNCHANGED <<pc, todo, outcome>>
    BY <1>9, <2>1 DEF ReceiveNil
  <2>2. ASSUME NEW i \in Lowest(todo[o]), Collected(o, i)  PROVE (CallsTypeOK /\ Begun)'
    BY <1>9, <2>2 DEF ReceiveNil, Collected
  <2>. QED  BY <1>9, <2>1, <2>2 DEF ReceiveNil
<1>10. CASE Cleanup(o)  BY <1>10 DEF Cleanup
<1>. QED  BY <1>1, <1>2, <1>3, <1>4, <1>5, <1>6, <1>7, <1>8, <1>9, <1>10 DEF StartOp, OpStep

\* What the operations share: the map, writeChan and a panic.
LEMMA OpSharedTypes ==
  ASSUME TypeInv, NEW o \in Ops, StartOp(o) \/ OpStep(o)
  PROVE  (MapTypeOK /\ QueueTypeOK /\ CloseTypeOK)'
<1> USE DEF TypeInv, TypeOK, MapTypeOK, QueueTypeOK, CloseTypeOK, opFrame, closeVars, mapVars
<1>1. CASE Refuse(o)  BY <1>1 DEF Refuse
<1>2. CASE EmptyBatch(o)  BY <1>2 DEF EmptyBatch
<1>3. CASE \E n \in Sizes(kind[o]) : Begin(o, n)  BY <1>3 DEF Begin
<1>4. CASE StorePending(o)
  <2>1. PICK i \in Lowest(todo[o]) : Store([id |-> i, op |-> o])
    BY <1>4 DEF StorePending
  <2>2. i \in Nat
    BY DEF Lowest, CallsTypeOK
  <2>3. pendingReqs' \subseteq Entries
    BY <2>1, <2>2, StoreTypes DEF Entries
  <2>. QED  BY <1>4, <2>3 DEF StorePending
<1>5. CASE Enqueue(o)
  <2>1. [kind |-> kind[o], ids |-> ids[o], op |-> o] \in Requests
    BY <1>5 DEF Enqueue, Requests, Begun, CallsTypeOK
  <2>2. QueueTypeOK'
    BY <1>5, <2>1, AppendTypes DEF Enqueue
  <2>. QED  BY <1>5, <2>2 DEF Enqueue
<1>6. CASE SeeClosed(o)  BY <1>6 DEF SeeClosed
<1>7. CASE TimeOut(o)  BY <1>7 DEF TimeOut
<1>8. CASE Receive(o)  BY <1>8 DEF Receive
<1>9. CASE ReceiveNil(o)  BY <1>9 DEF ReceiveNil
<1>10. CASE Cleanup(o)  BY <1>10 DEF Cleanup, Forget, Delete
<1>. QED  BY <1>1, <1>2, <1>3, <1>4, <1>5, <1>6, <1>7, <1>8, <1>9, <1>10 DEF StartOp, OpStep

LEMMA OpFrame ==
  ASSUME NEW o, StartOp(o) \/ OpStep(o)
  PROVE  UNCHANGED opFrame
  BY DEF StartOp, OpStep, Refuse, EmptyBatch, Begin, StorePending, Enqueue, SeeClosed,
     TimeOut, Receive, ReceiveNil, Cleanup

LEMMA OpTypes ==
  ASSUME TypeInv, NEW o \in Ops, StartOp(o) \/ OpStep(o)
  PROVE  TypeInv'
<1>1. (WriterTypeOK /\ ReaderTypeOK /\ HandlerTypeOK)'
  BY OpFrame DEF TypeInv, TypeOK, WriterTypeOK, ReaderTypeOK, HandlerTypeOK, opFrame,
     writerVars, readerVars, handlerVars, sessionVars
<1>. QED  BY <1>1, OpCallTypes, OpSharedTypes DEF TypeInv, TypeOK

\* What a step leaves alone keeps its type.
LEMMA CallsStay == TypeInv /\ UNCHANGED callVars => (CallsTypeOK /\ Begun)'
  BY DEF TypeInv, TypeOK, CallsTypeOK, Begun, callVars

LEMMA LoopsStay ==
  /\ TypeInv /\ UNCHANGED writeChan => QueueTypeOK'
  /\ TypeInv /\ UNCHANGED mapVars => MapTypeOK'
  /\ TypeInv /\ UNCHANGED writerVars => WriterTypeOK'
  /\ TypeInv /\ UNCHANGED readerVars => ReaderTypeOK'
  BY DEF TypeInv, TypeOK, QueueTypeOK, MapTypeOK, WriterTypeOK, ReaderTypeOK, mapVars,
     writerVars, readerVars

LEMMA SessionStays ==
  /\ TypeInv /\ UNCHANGED <<handlerVars, sessionVars>> => HandlerTypeOK'
  /\ TypeInv /\ UNCHANGED <<closeVars, connErr, crashed>> => CloseTypeOK'
  BY DEF TypeInv, TypeOK, HandlerTypeOK, CloseTypeOK, handlerVars, sessionVars, closeVars

LEMMA RegisterTypes ==
  ASSUME TypeInv, NEW o \in Ops, RegisterObject(o) \/ UnregisterObject(o)
  PROVE  TypeInv'
<1>a. (MapTypeOK /\ QueueTypeOK /\ WriterTypeOK /\ ReaderTypeOK /\ CloseTypeOK)'
  BY LoopsStay, SessionStays DEF RegisterObject, UnregisterObject, registerFrame
<1>b. (CallsTypeOK /\ Begun)'
  BY DEF RegisterObject, UnregisterObject, TypeInv, TypeOK, CallsTypeOK, Begun
<1>c. HandlerTypeOK'
  BY DEF RegisterObject, UnregisterObject, registerFrame, handlerVars, TypeInv, TypeOK,
     HandlerTypeOK, Refs
<1>. QED  BY <1>a, <1>b, <1>c DEF TypeInv, TypeOK

LEMMA AnswersTypes == wire \subseteq Entries => Answers \subseteq Responses
  BY DEF Answers, Entries, Responses

LEMMA LateTypes ==
  ASSUME late \in Nat, NEW m, ReadRequest(m)
  PROVE  late' \in Nat
  BY DEF ReadRequest

LEMMA LoadedTypes ==
  ASSUME pendingReqs \subseteq Entries, NEW r \in Responses, LoadPending(r)
  PROVE  loaded' \subseteq Letters
<1>1. \A p \in Load(r.id) : [ch |-> p, resp |-> r] \in Letters
  BY LoadTypes, LetterTypes
<1>2. loaded' = {[ch |-> p, resp |-> r] : p \in Load(r.id)}
  BY DEF LoadPending
<1>. QED  BY <1>1, <1>2

LEMMA ReaderTypes ==
  ASSUME TypeInv, Remote \/ ReaderStep
  PROVE  TypeInv'
<1>a. (CallsTypeOK /\ Begun /\ QueueTypeOK /\ WriterTypeOK)'
  BY CallsStay, LoopsStay DEF Remote, ReaderStep, ReadCheck, ReadEnd, ReadRequest,
     ReadResponses, LoadPending, SendLoaded, ReaderCloses, ReaderDone, CloseChan, closeFrame,
     readerFrame
<1> DEFINE Types == MapTypeOK /\ ReaderTypeOK /\ HandlerTypeOK /\ CloseTypeOK
<1> USE DEF MapTypeOK, ReaderTypeOK, HandlerTypeOK, CloseTypeOK, readerFrame, mapVars,
      handlerVars, sessionVars, closeVars
<1>b. Types /\ wire \subseteq Entries
  BY DEF TypeInv, TypeOK, WriterTypeOK
<1>1. ASSUME ReadCheck  PROVE Types'  BY <1>b, <1>1 DEF ReadCheck, PollClose
<1>2. ASSUME NEW e \in {"eof", "read error"}, ReadEnd(e)  PROVE Types'
  BY <1>b, <1>2 DEF ReadEnd, SetError
<1>3. ASSUME NEW m \in Incoming, ReadRequest(m)  PROVE Types'
  BY <1>b, <1>3, LateTypes DEF ReadRequest
<1>4. ASSUME NEW S \in SUBSET Answers, ReadResponses(S)  PROVE Types'
  <2>1. Answers \subseteq Responses
    BY <1>b, AnswersTypes
  <2>. QED  BY <1>b, <1>4, <2>1 DEF ReadResponses
<1>5. ASSUME NEW r \in inbox, LoadPending(r)  PROVE Types'
  <2>1. loaded' \subseteq Letters
    BY <1>b, <1>5, LoadedTypes
  <2>. QED  BY <1>b, <1>5, <2>1 DEF LoadPending
<1>6. ASSUME SendLoaded  PROVE Types'
  <2>1. PICK l \in Letters : Deliver(l)
    BY <1>b, <1>6 DEF SendLoaded
  <2>2. MapTypeOK' /\ crashed' \in {"no", "send on closed channel", "nil response"}
    BY <1>b, <2>1, DeliverTypes
  <2>. QED  BY <1>b, <1>6, <2>2 DEF SendLoaded
<1>7. ASSUME ReaderCloses  PROVE Types'
  BY <1>b, <1>7 DEF ReaderCloses, CloseChan, closeFrame, readerVars
<1>8. ASSUME ReaderDone  PROVE Types'  BY <1>b, <1>8 DEF ReaderDone
<1>. QED  BY <1>a, <1>1, <1>2, <1>3, <1>4, <1>5, <1>6, <1>7, <1>8
             DEF Remote, ReaderStep, TypeInv, TypeOK

LEMMA WaitersTypes ==
  ASSUME pendingReqs \subseteq Entries, NEW x
  PROVE  Waiters(x) \subseteq Entries
  BY DEF Waiters, Load

LEMMA LocalTypes ==
  ASSUME NEW p \in Entries
  PROVE  [id |-> p.id, op |-> p.op, src |-> "local"] \in Responses
  BY DEF Entries, Responses

LEMMA NotifiedTypes ==
  ASSUME pendingReqs \subseteq Entries, NotifyLoad
  PROVE  wloaded' \subseteq Letters
<1>1. \A x \in witem : \A p \in Waiters(x) :
        [ch |-> p, resp |-> [id |-> p.id, op |-> p.op, src |-> "local"]] \in Letters
  BY WaitersTypes, LocalTypes, LetterTypes
<1>. QED  BY <1>1 DEF NotifyLoad

LEMMA WriterTypes ==
  ASSUME TypeInv, WriterStep
  PROVE  TypeInv'
<1>a. (CallsTypeOK /\ Begun /\ ReaderTypeOK /\ HandlerTypeOK)'
  BY CallsStay, LoopsStay, SessionStays DEF WriterStep, WriterTake, WriterSeesClosed, WriteOK,
     WriteFail, NotifyLoad, NotifySend, WriterFail, writerFrame
<1> DEFINE Types == QueueTypeOK /\ MapTypeOK /\ WriterTypeOK /\ CloseTypeOK
<1>b. Types
  BY DEF TypeInv, TypeOK
<1>c. ASSUME TakeHead, writeChan # <<>>
      PROVE  QueueTypeOK' /\ witem' \subseteq Requests \cup Replies
  BY <1>b, <1>c, TakeTypes
<1>d. ASSUME UNCHANGED writeChan  PROVE QueueTypeOK'
  BY <1>b, <1>d DEF QueueTypeOK
<1>e. ASSUME Transmit  PROVE wire' \subseteq Entries /\ replied' \subseteq Incoming
  BY <1>b, <1>e, TransmitTypes
<1> USE DEF MapTypeOK, WriterTypeOK, CloseTypeOK, writerFrame, mapVars, closeVars
<1>1. ASSUME WriterTake  PROVE Types'  BY <1>b, <1>d, <1>1, <1>c DEF WriterTake
<1>2. ASSUME WriterSeesClosed  PROVE Types'  BY <1>b, <1>d, <1>2 DEF WriterSeesClosed
<1>4. ASSUME WriteOK  PROVE Types'  BY <1>b, <1>d, <1>4, <1>e DEF WriteOK
<1>5. ASSUME NEW t \in BOOLEAN, WriteFail(t)  PROVE Types'
  BY <1>b, <1>d, <1>5, <1>e DEF WriteFail
<1>6. ASSUME NotifyLoad  PROVE Types'
  <2>1. wloaded' \subseteq Letters
    BY <1>b, <1>d, <1>6, NotifiedTypes
  <2>. QED  BY <1>b, <1>d, <1>6, <2>1 DEF NotifyLoad
<1>7. ASSUME NotifySend  PROVE Types'
  <2>1. PICK l \in Letters : Deliver(l)
    BY <1>b, <1>d, <1>7 DEF NotifySend
  <2>2. MapTypeOK' /\ crashed' \in {"no", "send on closed channel", "nil response"}
    BY <1>b, <2>1, DeliverTypes
  <2>. QED  BY <1>b, <1>d, <1>7, <2>2 DEF NotifySend
<1>8. ASSUME WriterFail  PROVE Types'  BY <1>b, <1>d, <1>8 DEF WriterFail, SetError
<1>. QED  BY <1>a, <1>1, <1>2, <1>4, <1>5, <1>6, <1>7, <1>8 DEF WriterStep, TypeInv, TypeOK

LEMMA RefTypes ==
  ASSUME refs \subseteq Refs, NEW m \in Incoming, Handle(m)
  PROVE  refs' \subseteq Refs
<1>1. refs' = refs \/ refs' = refs \cup {m}
  BY DEF Handle
<1>. QED  BY <1>1 DEF Refs

LEMMA HandlerTypes ==
  ASSUME TypeInv, NEW m \in Incoming, HandlerStep(m)
  PROVE  TypeInv'
<1>a. (CallsTypeOK /\ Begun /\ MapTypeOK /\ WriterTypeOK /\ ReaderTypeOK /\ CloseTypeOK)'
  BY CallsStay, LoopsStay, SessionStays DEF HandlerStep, Handle, Reply, DropReply, handlerFrame
<1>b. QueueTypeOK'
  <2>1. ReplyOf(m) \in Requests \cup Replies
    BY DEF ReplyOf, Replies
  <2>2. CASE Reply(m)
    BY <2>1, <2>2, AppendTypes DEF Reply, QueueReply, TypeInv, TypeOK
  <2>3. CASE UNCHANGED writeChan
    BY <2>3, LoopsStay
  <2>. QED  BY <2>2, <2>3 DEF HandlerStep, Handle, DropReply
<1>c. HandlerTypeOK'
  <2> USE DEF TypeInv, TypeOK, HandlerTypeOK
  <2>1. CASE Handle(m)
    <3>1. refs' \subseteq Refs
      BY <2>1, RefTypes
    <3>2. hpc' \in [Incoming -> {"new", "handling", "replying", "done"}]
      BY <2>1 DEF Handle
    <3>. QED  BY <2>1, <3>1, <3>2 DEF Handle
  <2>2. CASE Reply(m)  BY <2>2 DEF Reply, sessionVars
  <2>3. CASE DropReply(m)  BY <2>3 DEF DropReply, sessionVars
  <2>. QED  BY <2>1, <2>2, <2>3 DEF HandlerStep
<1>. QED  BY <1>a, <1>b, <1>c DEF TypeInv, TypeOK

LEMMA CloseTypes ==
  ASSUME TypeInv, CloseChan \/ CloseStep
  PROVE  TypeInv'
<1>a. (CallsTypeOK /\ Begun /\ QueueTypeOK /\ WriterTypeOK /\ ReaderTypeOK)'
  BY CallsStay, LoopsStay DEF CloseChan, CloseStep, DisposeAll, RangeClose, RangeDelete,
     RangeDone, closeFrame
<1>b. MapTypeOK'
  BY DEF TypeInv, TypeOK, MapTypeOK, CloseChan, CloseStep, DisposeAll, RangeClose, RangeDelete,
     RangeForget, Delete, RangeDone, mapVars
<1>c. HandlerTypeOK'
  BY DEF TypeInv, TypeOK, HandlerTypeOK, CloseChan, CloseStep, DisposeAll, RangeClose,
     RangeDelete, RangeDone, closeFrame, handlerVars, sessionVars
<1>d. CloseTypeOK'
  BY DEF TypeInv, TypeOK, CloseTypeOK, MapTypeOK, CloseChan, CloseStep, DisposeAll, RangeClose,
     RangeDelete, RangeDone, closeFrame
<1>. QED  BY <1>a, <1>b, <1>c, <1>d DEF TypeInv, TypeOK

LEMMA StutterTypes ==
  ASSUME TypeInv, UNCHANGED vars
  PROVE  TypeInv'
<1>1. UNCHANGED <<callVars, mapVars, writeChan, writerVars, readerVars>>
  BY DEF vars
<1>2. UNCHANGED <<handlerVars, sessionVars, closeVars, connErr, crashed>>
  BY DEF vars
<1>. QED  BY <1>1, <1>2, CallsStay, LoopsStay, SessionStays DEF TypeInv, TypeOK

LEMMA TypesStep == TypeInv /\ [Next]_vars => TypeInv'
  BY OpTypes, RegisterTypes, ReaderTypes, WriterTypes, HandlerTypes, CloseTypes, StutterTypes
     DEF Next

\* Every reachable state of the endpoint is well typed, and writeChan never holds
\* more than its capacity.
THEOREM TypeCorrect == Spec => []TypeOK
<1>1. TypeInv => TypeOK
  BY DEF TypeInv
<1>. QED  BY <1>1, InitTypes, TypesStep, PTL DEF Spec

=============================================================================
