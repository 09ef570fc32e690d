--------------------------- MODULE PeerCallProofs ---------------------------
(***************************************************************************)
(* The endpoint is correct for any number of operations, batch sizes and   *)
(* capacities: who owns an id, an entry, a channel or a response, and      *)
(* until when; where a request is on its way to the remote, and what its   *)
(* caller is told when it does not get there; and with that, that the      *)
(* endpoint implements RpcCalls.                                           *)
(***************************************************************************)
EXTENDS PeerProofs, FiniteSetTheorems

\* An entry, or a response, that belongs to the operation it names.
Owned(x) == x.id \in ids[x.op]

\* Ids are never given twice.
IdsUnique ==
    /\ \A o \in Ops : ids[o] \subseteq 1 .. nextID
    /\ \A o, q \in Ops : ids[o] \cap ids[q] # {} => o = q

\* What the map, the channels and the two loops hold belongs to its operation.
EntriesOwned == \A p \in pendingReqs \cup closedCh \cup wire : Owned(p)
InboxOwned   == \A r \in inbox : Owned(r)
SendsOwned(x) == x.kind # "reply" => x.ids \subseteq ids[x.op]
QueueOwned   == (\A k \in 1 .. Len(writeChan) : SendsOwned(writeChan[k]))
                /\ (\A x \in witem : SendsOwned(x))

\* A response in a channel, or about to be sent to one, is for that channel.
LettersOwned ==
    \A l \in buffered \cup loaded \cup wloaded :
        Owned(l.ch) /\ l.resp.id = l.ch.id /\ l.resp.op = l.ch.op

OwnInv ==
    /\ IdsUnique /\ EntriesOwned /\ InboxOwned /\ QueueOwned /\ LettersOwned
    /\ ResponseMatchesCall

\* The life of an entry: not stored before its turn, stored until the operation
\* cleans up or Close takes it, and never stored once its channel is closed.
NotYetStored ==
    \A o \in Ops : pc[o] = "store" =>
        \A i \in todo[o] : [id |-> i, op |-> o] \notin pendingReqs \cup closedCh

StoredSoFar ==
    \A o \in Ops : pc[o] = "store" /\ closePhase \in {"open", "disposing"} =>
        \A i \in ids[o] \ todo[o] : [id |-> i, op |-> o] \in pendingReqs

\* What an operation has been answered: nothing yet, or all that it does not await.
Answered(o, i) ==
    [id |-> i, op |-> o] \in closedCh \/ \E r \in answers[o] : r.id = i

AnsweredSoFar ==
    \A o \in Ops :
        /\ pc[o] = "enqueue" => todo[o] = ids[o]
        /\ pc[o] = "await" => \A i \in ids[o] \ todo[o] : Answered(o, i)
        /\ pc[o] \in {"new", "store", "enqueue", "await", "registered"} => outcome[o] = "none"

LifeInv ==
    /\ NotYetStored /\ StoredSoFar /\ AnsweredSoFar
    /\ NoLeakedPending /\ ClosedIsUnmapped /\ AwaitedIsPending /\ AnsweredInFull

CallInv == OwnInv /\ LifeInv

-----------------------------------------------------------------------------
(* Ownership.                                                               *)

LEMMA InitOwn == Init => OwnInv
  BY DEF Init, OwnInv, IdsUnique, EntriesOwned, InboxOwned, QueueOwned, LettersOwned,
     ResponseMatchesCall

\* Only Begin draws ids, and it takes none from another operation.
LEMMA BeginIds ==
  ASSUME TypeInv, IdsUnique, NEW o \in Ops, NEW n \in Sizes(kind[o]), Begin(o, n)
  PROVE  /\ n \in Nat
         /\ ids' = [ids EXCEPT ![o] = (nextID + 1) .. (nextID + n)]
         /\ \A q \in Ops : ids[q] \subseteq ids'[q]
         /\ IdsUnique'
<1> USE DEF TypeInv, TypeOK, CallsTypeOK, Begun
<1>1. n \in Nat
  BY MaxBatchAssumption DEF Sizes, Kinds
<1>2. ids' = [ids EXCEPT ![o] = (nextID + 1) .. (nextID + n)] /\ nextID' = nextID + n
  BY DEF Begin, FreshIds
<1>3. \A q \in Ops : ids[q] \subseteq ids'[q]
  BY <1>2 DEF Begin
<1>4. \A q \in Ops : ids'[q] \subseteq 1 .. nextID'
  BY <1>1, <1>2 DEF IdsUnique
<1>5. ASSUME NEW p \in Ops, NEW q \in Ops, NEW i \in ids'[p], i \in ids'[q]  PROVE p = q
  BY <1>1, <1>2, <1>5 DEF IdsUnique
<1>. QED  BY <1>1, <1>2, <1>3, <1>4, <1>5 DEF IdsUnique

LEMMA BeginOwn ==
  ASSUME TypeInv, OwnInv, NEW o \in Ops, NEW n \in Sizes(kind[o]), Begin(o, n)
  PROVE  OwnInv'
<1>1. /\ \A q \in Ops : ids[q] \subseteq ids'[q]
      /\ IdsUnique'
  BY BeginIds DEF OwnInv
<1>2. /\ UNCHANGED <<answers, pendingReqs, buffered, closedCh, writeChan>>
      /\ UNCHANGED <<witem, wloaded, wire, inbox, loaded>>
  BY DEF Begin, opFrame, mapVars, writerVars, readerVars
<1>3. EntriesOwned' /\ InboxOwned'
  BY <1>1, <1>2 DEF OwnInv, EntriesOwned, InboxOwned, Owned, Entries, Responses, TypeInv,
     TypeOK, MapTypeOK, WriterTypeOK, ReaderTypeOK
<1>4. QueueOwned'
  BY <1>1, <1>2 DEF OwnInv, QueueOwned, SendsOwned, Requests, Replies, TypeInv, TypeOK,
     QueueTypeOK, WriterTypeOK
<1>5. LettersOwned'
  BY <1>1, <1>2 DEF OwnInv, LettersOwned, Owned, Letters, Entries, TypeInv, TypeOK,
     MapTypeOK, WriterTypeOK, ReaderTypeOK
<1>6. ResponseMatchesCall'
  BY <1>1, <1>2 DEF OwnInv, ResponseMatchesCall
<1>. QED  BY <1>1, <1>3, <1>4, <1>5, <1>6 DEF OwnInv

\* A receive takes one letter out of a channel of the operation.
Consumes(o, b) ==
    /\ buffered' = buffered \ {b}
    /\ answers' = [answers EXCEPT ![o] = @ \cup {b.resp}]

LEMMA ReceiveConsumes ==
  ASSUME NEW o, Receive(o)
  PROVE  \E b \in buffered : b.ch.op = o /\ Consumes(o, b)
<1>1. \E i \in Lowest(todo[o]) : \E b \in buffered :
        b.ch = [id |-> i, op |-> o] /\ Consumes(o, b)
  BY Zenon DEF Receive, Consumes
<1>. QED  BY <1>1

LEMMA OpOwn ==
  ASSUME TypeInv, OwnInv, NEW o \in Ops, StartOp(o) \/ OpStep(o)
  PROVE  OwnInv'
<1> USE DEF OwnInv, IdsUnique, EntriesOwned, InboxOwned, QueueOwned, LettersOwned,
      ResponseMatchesCall, Owned, SendsOwned, opFrame, mapVars, writerVars, readerVars, Finish
<1>1. CASE Refuse(o)  BY <1>1 DEF Refuse
<1>2. CASE EmptyBatch(o)  BY <1>2 DEF EmptyBatch
<1>3. CASE \E n \in Sizes(kind[o]) : Begin(o, n)  BY <1>3, BeginOwn
<1>4. CASE StorePending(o)
  <2>1. PICK i \in todo[o] : Store([id |-> i, op |-> o])
    BY <1>4 DEF StorePending, Lowest
  <2>2. \A p \in pendingReqs' : Owned(p)
    BY <2>1 DEF Store, TypeInv, Begun
  <2>. QED  BY <1>4, <2>2 DEF StorePending
<1>5. CASE Enqueue(o)
  <2>1. \A k \in 1 .. Len(writeChan') : SendsOwned(writeChan'[k])
    BY <1>5 DEF Enqueue, TypeInv, TypeOK, QueueTypeOK
  <2>. QED  BY <1>5, <2>1 DEF Enqueue
<1>6. CASE SeeClosed(o)  BY <1>6 DEF SeeClosed
<1>7. CASE TimeOut(o)  BY <1>7 DEF TimeOut
<1>8. CASE Receive(o)
  <2>1. PICK b \in buffered : b.ch.op = o /\ Consumes(o, b)
    BY <1>8, ReceiveConsumes
  <2>2. b.resp.op = o /\ b.resp.id \in ids[o]
    BY <2>1
  <2>3. ResponseMatchesCall'
    BY <1>8, <2>1, <2>2 DEF Consumes, Receive, TypeInv, TypeOK, CallsTypeOK
  <2>. QED  BY <1>8, <2>1, <2>3 DEF Consumes, Receive
<1>9. CASE ReceiveNil(o)  BY <1>9 DEF ReceiveNil
<1>10. CASE Cleanup(o)  BY <1>10 DEF Cleanup, Forget, Delete
<1>. QED  BY <1>1, <1>2, <1>3, <1>4, <1>5, <1>6, <1>7, <1>8, <1>9, <1>10 DEF StartOp, OpStep

LEMMA RegisterOwn ==
  ASSUME OwnInv, NEW o \in Ops, RegisterObject(o) \/ UnregisterObject(o)
  PROVE  OwnInv'
  BY DEF OwnInv, IdsUnique, EntriesOwned, InboxOwned, QueueOwned, LettersOwned,
     ResponseMatchesCall, Owned, SendsOwned, RegisterObject, UnregisterObject,
     registerFrame, mapVars, writerVars, readerVars

\* Where a response goes depends only on the channel it was loaded for.
LEMMA DeliverOwn ==
  ASSUME OwnInv, NEW l \in loaded \cup wloaded, Deliver(l)
  PROVE  \A x \in buffered' :
            Owned(x.ch) /\ x.resp.id = x.ch.id /\ x.resp.op = x.ch.op
  BY DEF OwnInv, LettersOwned, Deliver

LEMMA LoadOwn ==
  ASSUME TypeInv, OwnInv, NEW r \in Responses, Owned(r), NEW p \in Load(r.id)
  PROVE  Owned(p) /\ r.id = p.id /\ r.op = p.op
<1>1. p \in Entries /\ Owned(p) /\ p.id = r.id
  BY DEF Load, OwnInv, EntriesOwned, TypeInv, TypeOK, MapTypeOK
<1>. QED  BY <1>1 DEF Owned, OwnInv, IdsUnique, Entries, Responses

LEMMA ReaderOwn ==
  ASSUME TypeInv, OwnInv, Remote \/ ReaderStep
  PROVE  OwnInv'
<1>a. UNCHANGED <<ids, nextID, answers, writeChan, witem, wloaded, wire>>
  BY DEF Remote, ReaderStep, ReadCheck, ReadEnd, ReadRequest, ReadResponses, LoadPending,
     SendLoaded, ReaderCloses, ReaderDone, CloseChan, closeFrame, readerFrame, callVars,
     writerVars
<1>b. IdsUnique' /\ QueueOwned' /\ ResponseMatchesCall'
  BY <1>a DEF OwnInv, IdsUnique, QueueOwned, SendsOwned, ResponseMatchesCall
<1>c. EntriesOwned'
  BY <1>a DEF OwnInv, EntriesOwned, Owned, Remote, ReaderStep, ReadCheck, ReadEnd,
     ReadRequest, ReadResponses, LoadPending, SendLoaded, ReaderCloses, ReaderDone, CloseChan,
     Deliver, mapVars
<1>d. ASSUME UNCHANGED <<mapVars, inbox, loaded>>  PROVE InboxOwned' /\ LettersOwned'
  BY <1>a, <1>d DEF OwnInv, InboxOwned, LettersOwned, Owned, mapVars
<1>1. CASE ReadCheck  BY <1>1, <1>b, <1>c, <1>d DEF ReadCheck, OwnInv
<1>2. CASE \E e \in {"eof", "read error"} : ReadEnd(e)
  BY <1>2, <1>b, <1>c, <1>d DEF ReadEnd, OwnInv
<1>3. CASE \E m \in Incoming : ReadRequest(m)
  BY <1>3, <1>b, <1>c, <1>d DEF ReadRequest, OwnInv
<1>4. ASSUME NEW S \in SUBSET Answers, ReadResponses(S)  PROVE OwnInv'
  <2>1. \A r \in S : Owned(r)
    BY DEF Answers, OwnInv, EntriesOwned, Owned
  <2>2. InboxOwned' /\ LettersOwned'
    BY <1>4, <1>a, <2>1 DEF ReadResponses, OwnInv, InboxOwned, LettersOwned, Owned, mapVars
  <2>. QED  BY <1>b, <1>c, <2>2 DEF OwnInv
<1>5. ASSUME NEW r \in inbox, LoadPending(r)  PROVE OwnInv'
  <2>1. r \in Responses /\ Owned(r)
    BY DEF OwnInv, InboxOwned, TypeInv, TypeOK, ReaderTypeOK
  <2>2. \A p \in Load(r.id) : Owned(p) /\ r.id = p.id /\ r.op = p.op
    BY <2>1, LoadOwn
  <2>3. /\ inbox' \subseteq inbox
        /\ loaded' = {[ch |-> p, resp |-> r] : p \in Load(r.id)}
        /\ UNCHANGED buffered
    BY <1>5 DEF LoadPending, mapVars
  <2>4. InboxOwned' /\ LettersOwned'
    BY <1>a, <2>2, <2>3 DEF OwnInv, InboxOwned, LettersOwned, Owned
  <2>. QED  BY <1>b, <1>c, <2>4 DEF OwnInv
<1>6. CASE SendLoaded
  <2>1. \A x \in buffered' : Owned(x.ch) /\ x.resp.id = x.ch.id /\ x.resp.op = x.ch.op
    BY <1>6, DeliverOwn DEF SendLoaded
  <2>2. loaded' = {} /\ UNCHANGED inbox
    BY <1>6 DEF SendLoaded
  <2>3. InboxOwned' /\ LettersOwned'
    BY <1>a, <2>1, <2>2 DEF OwnInv, InboxOwned, LettersOwned, Owned
  <2>. QED  BY <1>b, <1>c, <2>3 DEF OwnInv
<1>7. CASE ReaderCloses
  BY <1>7, <1>b, <1>c, <1>d DEF ReaderCloses, CloseChan, closeFrame, readerVars, OwnInv
<1>8. CASE ReaderDone  BY <1>8, <1>b, <1>c, <1>d DEF ReaderDone, OwnInv
<1>. QED  BY <1>1, <1>2, <1>3, <1>4, <1>5, <1>6, <1>7, <1>8 DEF Remote, ReaderStep

\* Only the requests writeLoop has taken reach the wire.
LEMMA TransmitOwn ==
  ASSUME TypeInv, OwnInv, Transmit
  PROVE  \A e \in wire' : Owned(e)
<1>1. ASSUME NEW q \in witem, q.kind # "reply", NEW i \in q.ids
      PROVE  Owned([id |-> i, op |-> q.op])
  BY <1>1 DEF OwnInv, QueueOwned, SendsOwned, Owned
<1>. QED  BY <1>1 DEF Transmit, OwnInv, EntriesOwned

LEMMA WriterOwn ==
  ASSUME TypeInv, OwnInv, WriterStep
  PROVE  OwnInv'
<1>a. UNCHANGED <<ids, nextID, answers, inbox, loaded, pendingReqs, closedCh>>
  BY DEF WriterStep, WriterTake, WriterSeesClosed, WriteOK, WriteFail, NotifyLoad, NotifySend,
     WriterFail, Deliver, writerFrame, callVars, readerVars, mapVars
<1>b. IdsUnique' /\ InboxOwned' /\ ResponseMatchesCall'
  BY <1>a DEF OwnInv, IdsUnique, InboxOwned, Owned, ResponseMatchesCall
<1>c. ASSUME UNCHANGED wire  PROVE EntriesOwned'
  BY <1>a, <1>c DEF OwnInv, EntriesOwned, Owned
<1>d. ASSUME UNCHANGED <<buffered, wloaded>>  PROVE LettersOwned'
  BY <1>a, <1>d DEF OwnInv, LettersOwned, Owned
<1>e. ASSUME UNCHANGED writeChan, witem' \subseteq witem  PROVE QueueOwned'
  BY <1>a, <1>e DEF OwnInv, QueueOwned, SendsOwned
<1>1. CASE WriterTake
  <2>1. QueueOwned'
    BY <1>1, <1>a DEF WriterTake, TakeHead, OwnInv, QueueOwned, SendsOwned, TypeInv, TypeOK,
       QueueTypeOK
  <2>. QED  BY <1>1, <1>b, <1>c, <1>d, <2>1 DEF WriterTake, mapVars, OwnInv
<1>2. CASE WriterSeesClosed
  BY <1>2, <1>b, <1>c, <1>d, <1>e DEF WriterSeesClosed, mapVars, OwnInv
<1>3. CASE WriteOK
  <2>1. EntriesOwned'
    BY <1>3, <1>a, TransmitOwn DEF WriteOK, OwnInv, EntriesOwned, Owned
  <2>. QED  BY <1>3, <1>b, <1>d, <1>e, <2>1 DEF WriteOK, mapVars, OwnInv
<1>4. ASSUME NEW t \in BOOLEAN, WriteFail(t)  PROVE OwnInv'
  <2>1. EntriesOwned'
    BY <1>4, <1>a, <1>c, TransmitOwn DEF WriteFail, OwnInv, EntriesOwned, Owned
  <2>. QED  BY <1>4, <1>b, <1>d, <1>e, <2>1 DEF WriteFail, mapVars, OwnInv
<1>5. CASE NotifyLoad
  <2>1. ASSUME NEW x \in witem, NEW p \in Waiters(x)  PROVE Owned(p)
    BY DEF Waiters, Load, OwnInv, EntriesOwned
  <2>2. LettersOwned'
    BY <1>5, <1>a, <2>1 DEF NotifyLoad, OwnInv, LettersOwned, Owned, mapVars
  <2>. QED  BY <1>5, <1>b, <1>c, <1>e, <2>2 DEF NotifyLoad, OwnInv
<1>6. CASE NotifySend
  <2>1. \A x \in buffered' : Owned(x.ch) /\ x.resp.id = x.ch.id /\ x.resp.op = x.ch.op
    BY <1>6, DeliverOwn DEF NotifySend
  <2>2. LettersOwned'
    BY <1>6, <1>a, <2>1 DEF NotifySend, OwnInv, LettersOwned, Owned
  <2>. QED  BY <1>6, <1>b, <1>c, <1>e, <2>2 DEF NotifySend, OwnInv
<1>7. CASE WriterFail
  BY <1>7, <1>b, <1>c, <1>d, <1>e DEF WriterFail, mapVars, OwnInv
<1>. QED  BY <1>1, <1>2, <1>3, <1>4, <1>5, <1>6, <1>7 DEF WriterStep

LEMMA HandlerOwn ==
  ASSUME TypeInv, OwnInv, NEW m \in Incoming, HandlerStep(m)
  PROVE  OwnInv'
<1> USE DEF OwnInv, IdsUnique, EntriesOwned, InboxOwned, QueueOwned, LettersOwned,
      ResponseMatchesCall, Owned, SendsOwned, handlerFrame, callVars, mapVars, writerVars,
      readerVars
<1>1. CASE Handle(m)  BY <1>1 DEF Handle
<1>2. CASE Reply(m)
  <2>1. \A k \in 1 .. Len(writeChan') : SendsOwned(writeChan'[k])
    BY <1>2 DEF Reply, QueueReply, ReplyOf, TypeInv, TypeOK, QueueTypeOK
  <2>. QED  BY <1>2, <2>1 DEF Reply
<1>3. CASE DropReply(m)  BY <1>3 DEF DropReply
<1>. QED  BY <1>1, <1>2, <1>3 DEF HandlerStep

LEMMA CloseOwn ==
  ASSUME TypeInv, OwnInv, CloseChan \/ CloseStep
  PROVE  OwnInv'
<1> USE DEF OwnInv, IdsUnique, EntriesOwned, InboxOwned, QueueOwned, LettersOwned,
      ResponseMatchesCall, Owned, SendsOwned, closeFrame, callVars, mapVars, writerVars,
      readerVars
<1>1. CASE CloseChan  BY <1>1 DEF CloseChan
<1>2. CASE DisposeAll  BY <1>2 DEF DisposeAll
<1>3. CASE \E p \in pendingReqs : RangeClose(p)  BY <1>3 DEF RangeClose
<1>4. CASE RangeDelete  BY <1>4 DEF RangeDelete, RangeForget, Delete
<1>5. CASE RangeDone  BY <1>5 DEF RangeDone
<1>. QED  BY <1>1, <1>2, <1>3, <1>4, <1>5 DEF CloseStep

LEMMA StutterOwn == OwnInv /\ UNCHANGED vars => OwnInv'
  BY DEF OwnInv, IdsUnique, EntriesOwned, InboxOwned, QueueOwned, LettersOwned,
     ResponseMatchesCall, Owned, SendsOwned, vars, callVars, mapVars, writerVars, readerVars

LEMMA OwnStep == TypeInv /\ OwnInv /\ [Next]_vars => OwnInv'
  BY OpOwn, RegisterOwn, ReaderOwn, WriterOwn, HandlerOwn, CloseOwn, StutterOwn DEF Next

\* An operation only ever receives responses to its own requests, however the
\* remote orders, repeats or delays them.
THEOREM NeverMismatched == Spec => []ResponseMatchesCall
<1>1. OwnInv => ResponseMatchesCall
  BY DEF OwnInv
<1>. QED  BY <1>1, InitTypes, InitOwn, TypesStep, OwnStep, PTL DEF Spec

-----------------------------------------------------------------------------
(* The life of an entry.                                                    *)

EntryOf(o, i) == [id |-> i, op |-> o]

LEMMA InitLife == Init => LifeInv
  BY DEF Init, LifeInv, NotYetStored, StoredSoFar, AnsweredSoFar, NoLeakedPending,
     ClosedIsUnmapped, AwaitedIsPending, AnsweredInFull, EntriesOf

\* No entry belongs to ids that are not drawn yet.
LEMMA FreshEntries ==
  ASSUME TypeInv, OwnInv, NEW o \in Ops, NEW i \in Nat, i > nextID
  PROVE  EntryOf(o, i) \notin pendingReqs \cup closedCh
  BY DEF OwnInv, IdsUnique, EntriesOwned, Owned, EntryOf, TypeInv, TypeOK, CallsTypeOK

\* Deleting the ids of an operation removes its entries and no others.
LEMMA DeleteOwn ==
  ASSUME TypeInv, OwnInv, NEW o \in Ops, Delete(ids[o])
  PROVE  /\ pendingReqs' \subseteq pendingReqs
         /\ \A p \in pendingReqs' : p.op # o
         /\ \A p \in pendingReqs : p.op # o => p \in pendingReqs'
<1>1. \A p \in pendingReqs : p.op \in Ops /\ Owned(p)
  BY DEF OwnInv, EntriesOwned, TypeInv, TypeOK, MapTypeOK, Entries
<1>2. \A p \in pendingReqs : p.op = o <=> p.id \in ids[o]
  BY <1>1 DEF Owned, OwnInv, IdsUnique
<1>. QED  BY <1>2 DEF Delete

\* Storing an entry of an operation adds it and removes none.
LEMMA StoreOwn ==
  ASSUME TypeInv, OwnInv, NEW o \in Ops, NEW i \in ids[o], Store(EntryOf(o, i))
  PROVE  pendingReqs' = pendingReqs \cup {EntryOf(o, i)}
<1>1. \A p \in pendingReqs : p \in Entries /\ Owned(p)
  BY DEF OwnInv, EntriesOwned, TypeInv, TypeOK, MapTypeOK
<1>2. \A p \in pendingReqs : p.id = i => p = EntryOf(o, i)
  BY <1>1 DEF Owned, OwnInv, IdsUnique, Entries, EntryOf
<1>. QED  BY <1>2 DEF Store, EntryOf

\* Steps that touch neither an operation nor the map.
LifeFrame ==
    /\ UNCHANGED <<pc, ids, todo, answers, outcome, pendingReqs, closedCh, rangeCur>>
    /\ closePhase' \in {"open", "disposing"} => closePhase \in {"open", "disposing"}

LEMMA FrameLife ==
  ASSUME LifeInv, LifeFrame
  PROVE  LifeInv'
<1> USE DEF LifeFrame
<1>1. NotYetStored' /\ StoredSoFar'
  BY DEF LifeInv, NotYetStored, StoredSoFar
<1>2. AnsweredSoFar'
  BY DEF LifeInv, AnsweredSoFar, Answered
<1>3. NoLeakedPending' /\ ClosedIsUnmapped'
  BY DEF LifeInv, NoLeakedPending, ClosedIsUnmapped
<1>4. AwaitedIsPending' /\ AnsweredInFull'
  BY DEF LifeInv, AwaitedIsPending, AnsweredInFull, EntriesOf
<1>. QED  BY <1>1, <1>2, <1>3, <1>4 DEF LifeInv

LEMMA OthersLife ==
  ASSUME LifeInv, Remote \/ ReaderStep \/ WriterStep \/ CloseChan \/ DisposeAll
                    \/ RangeDone \/ UNCHANGED vars \/ \E m \in Incoming : HandlerStep(m)
  PROVE  LifeInv'
<1> USE DEF LifeFrame, callVars, mapVars, closeVars
<1>1. CASE Remote \/ ReaderStep
  BY <1>1, FrameLife DEF Remote, ReaderStep, ReadCheck, ReadEnd, ReadRequest, ReadResponses,
     LoadPending, SendLoaded, ReaderCloses, ReaderDone, CloseChan, Deliver, closeFrame,
     readerFrame
<1>2. CASE WriterStep
  BY <1>2, FrameLife DEF WriterStep, WriterTake, WriterSeesClosed, WriteOK, WriteFail,
     NotifyLoad, NotifySend, WriterFail, Deliver, writerFrame
<1>3. CASE CloseChan \/ DisposeAll \/ RangeDone
  BY <1>3, FrameLife DEF CloseChan, DisposeAll, RangeDone, closeFrame
<1>4. CASE UNCHANGED vars
  BY <1>4, FrameLife DEF vars
<1>5. CASE \E m \in Incoming : HandlerStep(m)
  BY <1>5, FrameLife DEF HandlerStep, Handle, Reply, DropReply, handlerFrame
<1>. QED  BY <1>1, <1>2, <1>3, <1>4, <1>5

\* Range closes the channel of an entry, then removes the entry.
LEMMA RangeLife ==
  ASSUME TypeInv, OwnInv, LifeInv, RangeDelete \/ \E p \in pendingReqs : RangeClose(p)
  PROVE  LifeInv'
<1>a. /\ UNCHANGED <<pc, ids, todo, answers, outcome, closePhase>>
      /\ closePhase = "ranging"
      /\ closedCh \subseteq closedCh'
  BY DEF RangeDelete, RangeClose, closeFrame, callVars
<1>b. AnsweredSoFar' /\ StoredSoFar' /\ AwaitedIsPending' /\ AnsweredInFull'
  BY <1>a DEF LifeInv, AnsweredSoFar, Answered, StoredSoFar, AwaitedIsPending, AnsweredInFull,
     EntriesOf
<1>1. ASSUME NEW p \in pendingReqs, RangeClose(p)  PROVE LifeInv'
  <2>1. NotYetStored' /\ NoLeakedPending' /\ ClosedIsUnmapped'
    BY <1>1, <1>a DEF RangeClose, LifeInv, NotYetStored, NoLeakedPending, ClosedIsUnmapped
  <2>. QED  BY <1>b, <2>1 DEF LifeInv
<1>2. CASE RangeDelete
  <2>1. /\ pendingReqs' \subseteq pendingReqs \ rangeCur
        /\ UNCHANGED closedCh
    BY <1>2 DEF RangeDelete, RangeForget, Delete
  <2>2. NotYetStored' /\ NoLeakedPending' /\ ClosedIsUnmapped'
    BY <1>a, <2>1 DEF LifeInv, NotYetStored, NoLeakedPending, ClosedIsUnmapped
  <2>. QED  BY <1>b, <2>2 DEF LifeInv
<1>. QED  BY <1>1, <1>2

\* Registering and unregistering draw no ids and leave the map alone.
LEMMA RegisterLife ==
  ASSUME TypeInv, OwnInv, LifeInv, NEW o \in Ops, RegisterObject(o) \/ UnregisterObject(o)
  PROVE  LifeInv'
<1>1. /\ UNCHANGED <<ids, todo, answers, outcome, pendingReqs, closedCh, rangeCur, closePhase>>
      /\ \E s \in {"registered", "done"} : pc' = [pc EXCEPT ![o] = s]
      /\ pc[o] \in {"new", "registered"}
  BY DEF RegisterObject, UnregisterObject, registerFrame, mapVars, closeVars
<1>. QED  BY <1>1 DEF LifeInv, NotYetStored, StoredSoFar, AnsweredSoFar, Answered,
             NoLeakedPending, ClosedIsUnmapped, AwaitedIsPending, AnsweredInFull, EntriesOf,
             TypeInv, TypeOK, CallsTypeOK, Begun

\* Steps of one operation that leave its ids, the map and Close alone.
LEMMA LocalLife ==
  ASSUME TypeInv, OwnInv, LifeInv, NEW o \in Ops,
         Refuse(o) \/ EmptyBatch(o) \/ Enqueue(o) \/ SeeClosed(o) \/ TimeOut(o)
  PROVE  LifeInv'
<1>a. UNCHANGED <<ids, todo, answers, pendingReqs, closedCh, rangeCur, closePhase>>
  BY DEF Refuse, EmptyBatch, Enqueue, SeeClosed, TimeOut, opFrame, mapVars, closeVars
<1>b. ClosedIsUnmapped'
  BY <1>a DEF LifeInv, ClosedIsUnmapped
<1> USE DEF LifeInv, NotYetStored, StoredSoFar, AnsweredSoFar, Answered, NoLeakedPending,
      AwaitedIsPending, AnsweredInFull, EntriesOf, TypeInv, TypeOK, CallsTypeOK, Begun
<1>c. \A p \in pendingReqs : p.op \in Ops /\ p.id \in ids[p.op]
  BY DEF MapTypeOK, Entries
<1>1. CASE Refuse(o)  BY <1>1, <1>a, <1>b, <1>c DEF Refuse
<1>2. CASE EmptyBatch(o)  BY <1>2, <1>a, <1>b, <1>c DEF EmptyBatch
<1>3. CASE Enqueue(o)
  <2>1. /\ pc[o] = "enqueue"
        /\ IF ids[o] = {}
             THEN /\ pc' = [pc EXCEPT ![o] = "done"]
                  /\ outcome' = [outcome EXCEPT ![o] = "answered"]
             ELSE pc' = [pc EXCEPT ![o] = "await"] /\ UNCHANGED outcome
    BY <1>3 DEF Enqueue
  <2>2. NotYetStored' /\ StoredSoFar' /\ AwaitedIsPending'
    BY <1>a, <2>1
  <2>3. AnsweredSoFar'
    BY <1>a, <2>1
  <2>4. AnsweredInFull'
    BY <1>a, <2>1
  <2>5. NoLeakedPending'
    BY <1>a, <1>c, <2>1
  <2>. QED  BY <1>b, <2>2, <2>3, <2>4, <2>5
<1>4. CASE SeeClosed(o)  BY <1>4, <1>a, <1>b, <1>c DEF SeeClosed, Finish, WatchesClose
<1>5. CASE TimeOut(o)  BY <1>5, <1>a, <1>b, <1>c DEF TimeOut, Finish
<1>. QED  BY <1>1, <1>2, <1>3, <1>4, <1>5

LEMMA BeginLife ==
  ASSUME TypeInv, OwnInv, LifeInv, NEW o \in Ops, NEW n \in Sizes(kind[o]), Begin(o, n)
  PROVE  LifeInv'
<1>a. /\ UNCHANGED <<answers, outcome, pendingReqs, closedCh, rangeCur, closePhase>>
      /\ pc' = [pc EXCEPT ![o] = IF n = 0 THEN "enqueue" ELSE "store"]
      /\ pc[o] = "new" /\ ids[o] = {} /\ outcome[o] = "none"
      /\ todo' = [todo EXCEPT ![o] = ids'[o]]
  BY DEF Begin, opFrame, mapVars, closeVars, TypeInv, TypeOK, CallsTypeOK, Begun, LifeInv,
     AnsweredSoFar
<1>b. \E D \in SUBSET Nat :
        /\ ids' = [ids EXCEPT ![o] = D]
        /\ \A i \in D : i > nextID
        /\ n = 0 => D = {}
  <2>1. n \in Nat /\ nextID \in Nat
    BY BeginIds DEF OwnInv, TypeInv, TypeOK, CallsTypeOK
  <2>2. /\ (nextID + 1) .. (nextID + n) \in SUBSET Nat
        /\ \A i \in (nextID + 1) .. (nextID + n) : i > nextID
        /\ n = 0 => (nextID + 1) .. (nextID + n) = {}
    BY <2>1
  <2>3. ids' = [ids EXCEPT ![o] = (nextID + 1) .. (nextID + n)]
    BY DEF Begin, FreshIds
  <2>. QED  BY <2>2, <2>3
<1>c. PICK D \in SUBSET Nat :
        /\ ids' = [ids EXCEPT ![o] = D]
        /\ \A i \in D : i > nextID
        /\ n = 0 => D = {}
  BY <1>b
<1>d. \A i \in D : EntryOf(o, i) \notin pendingReqs \cup closedCh
  BY <1>c, FreshEntries
<1>e. DOMAIN pc = Ops /\ DOMAIN ids = Ops /\ DOMAIN todo = Ops
  BY DEF TypeInv, TypeOK, CallsTypeOK
<1>1. NotYetStored'
  BY <1>a, <1>c, <1>d, <1>e DEF EntryOf, LifeInv, NotYetStored
<1>f. \A q \in Ops \ {o} : pc'[q] = pc[q] /\ ids'[q] = ids[q] /\ todo'[q] = todo[q]
  BY <1>a, <1>c, <1>e
<1>g. ids'[o] = D /\ todo'[o] = D /\ (pc'[o] = "enqueue" => D = {}) /\ pc'[o] # "await"
  BY <1>a, <1>c, <1>e
<1>2. StoredSoFar' /\ AwaitedIsPending'
  BY <1>a, <1>f, <1>g DEF LifeInv, StoredSoFar, AwaitedIsPending
<1>3. AnsweredSoFar' /\ AnsweredInFull'
  BY <1>a, <1>c, <1>e DEF LifeInv, AnsweredSoFar, Answered, AnsweredInFull, EntriesOf
<1>4. NoLeakedPending' /\ ClosedIsUnmapped'
  BY <1>a, <1>c, <1>e DEF LifeInv, NoLeakedPending, ClosedIsUnmapped
<1>. QED  BY <1>1, <1>2, <1>3, <1>4 DEF LifeInv

LEMMA StoreLife ==
  ASSUME TypeInv, OwnInv, LifeInv, NEW o \in Ops, StorePending(o)
  PROVE  LifeInv'
<1>a. PICK i \in Lowest(todo[o]) :
        /\ Store(EntryOf(o, i))
        /\ \/ /\ todo[o] = {i}
              /\ pc' = [pc EXCEPT ![o] = "enqueue"]
              /\ todo' = [todo EXCEPT ![o] = ids[o]]
           \/ /\ UNCHANGED pc
              /\ todo' = [todo EXCEPT ![o] = @ \ {i}]
  BY DEF StorePending, EntryOf
<1>b. /\ UNCHANGED <<ids, answers, outcome, closedCh, rangeCur, closePhase>>
      /\ pc[o] = "store"
  BY DEF StorePending, opFrame, closeVars
<1>c. pendingReqs' = pendingReqs \cup {EntryOf(o, i)} /\ i \in ids[o] /\ i \in todo[o]
  BY <1>a, StoreOwn DEF Lowest, TypeInv, Begun
<1>d. DOMAIN pc = Ops /\ DOMAIN todo = Ops /\ todo[o] \subseteq ids[o]
  BY DEF TypeInv, TypeOK, CallsTypeOK, Begun
<1>e. EntryOf(o, i) \notin closedCh
  BY <1>b, <1>c DEF LifeInv, NotYetStored, EntryOf
<1> USE DEF LifeInv, EntryOf
<1>1. NotYetStored'
  BY <1>a, <1>b, <1>c, <1>d DEF NotYetStored
<1>2. StoredSoFar'
  BY <1>a, <1>b, <1>c, <1>d DEF StoredSoFar
<1>3. AwaitedIsPending'
  BY <1>a, <1>b, <1>c, <1>d DEF StoredSoFar, AwaitedIsPending
<1>4. AnsweredSoFar' /\ AnsweredInFull'
  BY <1>a, <1>b, <1>c, <1>d DEF AnsweredSoFar, Answered, AnsweredInFull, EntriesOf
<1>5. NoLeakedPending'
  <2>1. \A p \in pendingReqs : p.op \in Ops
    BY DEF TypeInv, TypeOK, MapTypeOK, Entries
  <2>2. pc'[o] \in {"store", "enqueue"} /\ \A q \in Ops \ {o} : pc'[q] = pc[q]
    BY <1>a, <1>b, <1>d
  <2>. QED  BY <1>b, <1>c, <2>1, <2>2 DEF NoLeakedPending
<1>6. ClosedIsUnmapped'
  BY <1>b, <1>c, <1>e DEF ClosedIsUnmapped
<1>. QED  BY <1>1, <1>2, <1>3, <1>4, <1>5, <1>6

\* A step that receives, from an open channel or a closed one, answers the id it
\* waits on.
Receives(o, i) ==
    /\ UNCHANGED <<ids, pendingReqs, closedCh, rangeCur, closePhase>>
    /\ pc[o] = "await"
    /\ \A q \in Ops \ {o} : answers'[q] = answers[q]
    /\ answers[o] \subseteq answers'[o]
    /\ \/ UNCHANGED <<pc, todo, outcome>>
       \/ Answered(o, i)' /\ Collected(o, i)

LEMMA ReceiveReceives ==
  ASSUME TypeInv, OwnInv, NEW o \in Ops, Receive(o) \/ ReceiveNil(o)
  PROVE  \E i \in todo[o] : Receives(o, i)
<1>d. DOMAIN answers = Ops
  BY DEF TypeInv, TypeOK, CallsTypeOK
<1>1. CASE Receive(o)
  <2>1. PICK i \in Lowest(todo[o]) : \E b \in buffered :
          b.ch = EntryOf(o, i) /\ Consumes(o, b) /\ Collected(o, i)
    BY <1>1, Zenon DEF Receive, EntryOf, Consumes
  <2>2. UNCHANGED <<ids, pendingReqs, closedCh, rangeCur, closePhase>> /\ pc[o] = "await"
    BY <1>1 DEF Receive, opFrame, closeVars
  <2>3. PICK b \in buffered : b.ch = EntryOf(o, i) /\ Consumes(o, b)
    BY <2>1
  <2>4. b.resp.id = i
    BY <2>3 DEF OwnInv, LettersOwned, EntryOf
  <2>5. b.resp \in answers'[o] /\ answers[o] \subseteq answers'[o]
    BY <1>d, <2>3 DEF Consumes
  <2>. QED  BY <1>d, <2>1, <2>2, <2>3, <2>4, <2>5 DEF Receives, Answered, Lowest, Consumes
<1>2. CASE ReceiveNil(o)
  <2>1. PICK i \in Lowest(todo[o]) :
          /\ EntryOf(o, i) \in closedCh
          /\ UNCHANGED <<pc, todo, outcome>> \/ Collected(o, i)
    BY <1>2 DEF ReceiveNil, EntryOf
  <2>2. /\ UNCHANGED <<ids, answers, pendingReqs, closedCh, rangeCur, closePhase>>
        /\ pc[o] = "await"
    BY <1>2 DEF ReceiveNil, opFrame, mapVars, closeVars
  <2>. QED  BY <2>1, <2>2 DEF Receives, Answered, EntryOf, Lowest
<1>. QED  BY <1>1, <1>2

LEMMA ReceiveLife ==
  ASSUME TypeInv, OwnInv, LifeInv, NEW o \in Ops, Receive(o) \/ ReceiveNil(o)
  PROVE  LifeInv'
<1>a. PICK i \in todo[o] : Receives(o, i)
  BY ReceiveReceives
<1>b. /\ DOMAIN pc = Ops /\ DOMAIN todo = Ops /\ DOMAIN outcome = Ops
      /\ outcome[o] = "none" /\ todo[o] \subseteq ids[o]
      /\ \A p \in pendingReqs : p.op \in Ops
  BY <1>a DEF Receives, TypeInv, TypeOK, CallsTypeOK, MapTypeOK, Entries, Begun, LifeInv,
     AnsweredSoFar
<1>c. /\ \A q \in Ops \ {o} : /\ pc'[q] = pc[q] /\ todo'[q] = todo[q]
                             /\ outcome'[q] = outcome[q] /\ answers'[q] = answers[q]
      /\ \A q \in Ops : answers[q] \subseteq answers'[q]
      /\ todo'[o] \subseteq todo[o] /\ pc'[o] \in {"await", "cleanup"}
  BY <1>a, <1>b DEF Receives, Collected, Finish
<1>d. /\ \A j \in ids[o] \ todo'[o] : Answered(o, j)'
      /\ pc'[o] = "await" => outcome'[o] = "none"
      /\ outcome'[o] = "answered" => todo'[o] = {}
  <2>1. \A j \in ids[o] \ todo[o] : Answered(o, j)'
    BY <1>a, <1>c DEF Receives, Answered, LifeInv, AnsweredSoFar
  <2>. QED  BY <1>a, <1>b, <2>1 DEF Receives, Collected, Finish
<1>e. UNCHANGED <<ids, pendingReqs, closedCh, rangeCur, closePhase>> /\ pc[o] = "await"
  BY <1>a DEF Receives
<1> USE DEF LifeInv
<1>1. NotYetStored' /\ StoredSoFar' /\ ClosedIsUnmapped'
  BY <1>c, <1>e DEF NotYetStored, StoredSoFar, ClosedIsUnmapped
<1>2. AwaitedIsPending'
  BY <1>c, <1>e DEF AwaitedIsPending
<1>3. NoLeakedPending'
  BY <1>b, <1>c, <1>e DEF NoLeakedPending
<1>4. AnsweredSoFar'
  BY <1>c, <1>d, <1>e DEF AnsweredSoFar, Answered
<1>5. AnsweredInFull'
  BY <1>c, <1>d, <1>e DEF AnsweredInFull, Answered, EntriesOf
<1>. QED  BY <1>1, <1>2, <1>3, <1>4, <1>5

LEMMA CleanupLife ==
  ASSUME TypeInv, OwnInv, LifeInv, NEW o \in Ops, Cleanup(o)
  PROVE  LifeInv'
<1>a. /\ UNCHANGED <<ids, todo, answers, outcome, closedCh, rangeCur, closePhase>>
      /\ pc[o] = "cleanup" /\ pc' = [pc EXCEPT ![o] = "done"]
      /\ Delete(ids[o])
  BY DEF Cleanup, Forget, opFrame, closeVars
<1>b. /\ pendingReqs' \subseteq pendingReqs
      /\ \A p \in pendingReqs' : p.op # o
      /\ \A p \in pendingReqs : p.op # o => p \in pendingReqs'
  BY <1>a, DeleteOwn
<1> USE DEF LifeInv, TypeInv, TypeOK, CallsTypeOK
<1>1. NotYetStored'
  BY <1>a, <1>b DEF NotYetStored
<1>2. StoredSoFar' /\ AwaitedIsPending'
  BY <1>a, <1>b DEF StoredSoFar, AwaitedIsPending
<1>3. AnsweredSoFar' /\ AnsweredInFull'
  BY <1>a DEF AnsweredSoFar, Answered, AnsweredInFull, EntriesOf
<1>4. NoLeakedPending'
  BY <1>a, <1>b DEF NoLeakedPending, MapTypeOK, Entries
<1>5. ClosedIsUnmapped'
  BY <1>a, <1>b DEF ClosedIsUnmapped
<1>. QED  BY <1>1, <1>2, <1>3, <1>4, <1>5

LEMMA LifeStep == TypeInv /\ OwnInv /\ LifeInv /\ [Next]_vars => LifeInv'
<1> SUFFICES ASSUME TypeInv, OwnInv, LifeInv, [Next]_vars  PROVE LifeInv'
  OBVIOUS
<1>1. ASSUME NEW o \in Ops, StartOp(o) \/ OpStep(o)  PROVE LifeInv'
  BY <1>1, LocalLife, BeginLife, StoreLife, ReceiveLife, CleanupLife DEF StartOp, OpStep
<1>. QED  BY <1>1, RegisterLife, RangeLife, OthersLife DEF Next, CloseStep

LEMMA CallInvariant == Spec => [](TypeInv /\ CallInv)
<1>1. Init => TypeInv /\ CallInv
  BY InitTypes, InitOwn, InitLife DEF CallInv
<1>2. TypeInv /\ CallInv /\ [Next]_vars => (TypeInv /\ CallInv)'
  BY TypesStep, OwnStep, LifeStep DEF CallInv
<1>. QED  BY <1>1, <1>2, PTL DEF Spec

\* An entry of pendingReqs always belongs to an operation that has not returned: no
\* path of Call or CallBatch leaves one behind.
THEOREM NothingLeaked == Spec => []NoLeakedPending
<1>1. CallInv => NoLeakedPending
  BY DEF CallInv, LifeInv
<1>. QED  BY <1>1, CallInvariant, PTL

\* Until Close empties the map, an operation's unanswered ids can be found in it.
THEOREM AwaitedCanBeFound == Spec => []AwaitedIsPending
<1>1. CallInv => AwaitedIsPending
  BY DEF CallInv, LifeInv
<1>. QED  BY <1>1, CallInvariant, PTL

\* A channel that Close has closed can be loaded only while Close is at its entry.
THEOREM ClosedCannotBeFound == Spec => []ClosedIsUnmapped
<1>1. CallInv => ClosedIsUnmapped
  BY DEF CallInv, LifeInv
<1>. QED  BY <1>1, CallInvariant, PTL

\* An operation that succeeds has a response to each of its requests, except those
\* that Close has cut off.
THEOREM SuccessIsComplete == Spec => []AnsweredInFull
<1>1. CallInv => AnsweredInFull
  BY DEF CallInv, LifeInv
<1>. QED  BY <1>1, CallInvariant, PTL

-----------------------------------------------------------------------------
(* readLoop after closeChan is closed.                                      *)

\* Once readLoop has served a message of a closed connection, its next poll of
\* closeChan sends it out of the loop.
LateInv ==
    /\ late \in {0, 1}
    /\ late = 1 => Closed /\ rpc \in {"check", "exit", "done"}

LEMMA LateStep == TypeInv /\ LateInv /\ [Next]_vars => LateInv'
<1> SUFFICES ASSUME TypeInv, LateInv, [Next]_vars  PROVE LateInv'
  OBVIOUS
<1> USE DEF LateInv, Closed
<1>a. ASSUME UNCHANGED <<late, rpc>>, Closed => Closed'  PROVE LateInv'
  BY <1>a
<1>b. ASSUME UNCHANGED readerVars, UNCHANGED closeVars  PROVE LateInv'
  BY <1>a, <1>b DEF readerVars, closeVars
<1>1. ASSUME NEW o \in Ops,
             StartOp(o) \/ OpStep(o) \/ RegisterObject(o) \/ UnregisterObject(o)
      PROVE  LateInv'
  BY <1>1, <1>b, OpFrame DEF opFrame, RegisterObject, UnregisterObject, registerFrame
<1>2. CASE Remote \/ ReaderStep
  <2>a. UNCHANGED late /\ UNCHANGED closePhase /\ rpc \in {"decode", "deliver"} => LateInv'
    OBVIOUS
  <2>1. CASE ReadCheck
    BY <2>1 DEF ReadCheck, PollClose, readerFrame, closeVars
  <2>2. ASSUME NEW m \in Incoming, ReadRequest(m)  PROVE LateInv'
    BY <2>2 DEF ReadRequest, readerFrame, closeVars
  <2>3. CASE ReaderCloses
    BY <2>3, <1>a DEF ReaderCloses, CloseChan, closeFrame, readerVars
  <2>4. CASE ReaderDone
    BY <2>4 DEF ReaderDone, readerFrame, closeVars
  <2>. QED  BY <1>2, <2>a, <2>1, <2>2, <2>3, <2>4 DEF Remote, ReaderStep, ReadEnd,
               ReadResponses, LoadPending, SendLoaded, readerFrame, closeVars
<1>3. CASE WriterStep
  BY <1>3, <1>b DEF WriterStep, WriterTake, WriterSeesClosed, WriteOK, WriteFail, NotifyLoad,
     NotifySend, WriterFail, writerFrame
<1>4. ASSUME NEW m \in Incoming, HandlerStep(m)  PROVE LateInv'
  BY <1>4, <1>b DEF HandlerStep, Handle, Reply, DropReply, handlerFrame
<1>5. CASE CloseChan \/ CloseStep
  BY <1>5, <1>a DEF CloseChan, CloseStep, DisposeAll, RangeClose, RangeDelete, RangeDone,
     closeFrame, readerVars
<1>6. CASE UNCHANGED vars
  BY <1>6, <1>b DEF vars
<1>. QED  BY <1>1, <1>2, <1>3, <1>4, <1>5, <1>6 DEF Next

\* After closeChan is closed readLoop serves at most the one message it was blocked
\* in Decode for.
THEOREM ServesOneAfterClose == Spec => []OneMessageAfterClose
<1>1. Init => TypeInv /\ LateInv
  BY InitTypes DEF Init, LateInv
<1>2. TypeInv /\ LateInv /\ [Next]_vars => (TypeInv /\ LateInv)'
  BY TypesStep, LateStep
<1>3. LateInv => OneMessageAfterClose
  BY DEF LateInv, OneMessageAfterClose
<1>. QED  BY <1>1, <1>2, <1>3, PTL DEF Spec

-----------------------------------------------------------------------------
(* A request on its way to the remote.                                      *)

\* Where the request of operation o is: queued, held by writeLoop, or sent.
Of(x, o)  == x.kind # "reply" /\ x.op = o
Queued(o) == \E k \in 1 .. Len(writeChan) : Of(writeChan[k], o)
Held(o)   == \E x \in witem : Of(x, o)
SentBy(o) == \E e \in wire : e.op = o

\* The states of an operation in which its request has not been queued.
Unqueued == {"new", "store", "enqueue", "registered"}

\* A request is in one place, and moves on from each of them once.
MovesOn ==
    \A o \in Ops :
        /\ pc[o] \in Unqueued => ~Queued(o) /\ ~Held(o) /\ ~SentBy(o)
        /\ Queued(o) => ~Held(o) /\ ~SentBy(o)
        /\ wpc = "writing" /\ Held(o) => ~SentBy(o)

QueuedOnce ==
    \A o \in Ops : \A j, k \in 1 .. Len(writeChan) :
        Of(writeChan[j], o) /\ Of(writeChan[k], o) => j = k

OneHeld == \A x, y \in witem : x = y

\* A request carries the ids its operation has drawn.
Faithful(x) == x.kind # "reply" => x.kind = kind[x.op] /\ x.ids = ids[x.op]
QueueFaithful ==
    /\ \A k \in 1 .. Len(writeChan) : Faithful(writeChan[k])
    /\ \A x \in witem : Faithful(x)

SendInv == MovesOn /\ QueuedOnce /\ OneHeld /\ QueueFaithful

LEMMA InitSend == Init => SendInv
  BY DEF Init, SendInv, MovesOn, QueuedOnce, OneHeld, QueueFaithful, Queued, Held, SentBy

\* Steps that move no request, and take no operation back before its request.
SendFrame ==
    /\ UNCHANGED <<ids, kind, writeChan, witem, wire>>
    /\ wpc' = "writing" => wpc = "writing"
    /\ \A o \in Ops : pc'[o] \in Unqueued => pc[o] \in Unqueued

LEMMA FrameSend ==
  ASSUME SendInv, SendFrame
  PROVE  SendInv'
<1>1. \A o \in Ops : Queued(o)' = Queued(o) /\ Held(o)' = Held(o) /\ SentBy(o)' = SentBy(o)
  BY DEF SendFrame, Queued, Held, SentBy, Of
<1>2. MovesOn'
  BY <1>1 DEF SendInv, MovesOn, SendFrame
<1>3. QueuedOnce' /\ OneHeld' /\ QueueFaithful'
  BY DEF SendInv, QueuedOnce, OneHeld, QueueFaithful, Faithful, Of, SendFrame
<1>. QED  BY <1>2, <1>3 DEF SendInv

LEMMA ItemTypes ==
  ASSUME TypeInv
  PROVE  /\ writeChan \in Seq(Requests \cup Replies) /\ Len(writeChan) \in Nat
         /\ \A k \in 1 .. Len(writeChan) : writeChan[k] \in Requests \cup Replies
         /\ witem \subseteq Requests \cup Replies
         /\ \A x \in Requests \cup Replies : x.kind # "reply" => x.op \in Ops
  BY DEF TypeInv, TypeOK, QueueTypeOK, WriterTypeOK, Requests, Replies

\* An operation that has not begun has nothing queued, held or sent: drawing ids
\* changes no request.
LEMMA BeginSend ==
  ASSUME TypeInv, OwnInv, SendInv, NEW o \in Ops, NEW n \in Sizes(kind[o]), Begin(o, n)
  PROVE  SendInv'
<1>a. /\ UNCHANGED <<kind, writeChan, witem, wire, wpc>>
      /\ pc[o] = "new"
      /\ \A q \in Ops \ {o} : pc'[q] = pc[q]
  BY DEF Begin, opFrame, writerVars, TypeInv, TypeOK, CallsTypeOK
<1>b. \A q \in Ops \ {o} : ids'[q] = ids[q]
  BY BeginIds DEF OwnInv, TypeInv, TypeOK, CallsTypeOK
<1>1. \A q \in Ops : Queued(q)' = Queued(q) /\ Held(q)' = Held(q) /\ SentBy(q)' = SentBy(q)
  BY <1>a DEF Queued, Held, SentBy, Of
<1>2. MovesOn'
  BY <1>a, <1>1 DEF SendInv, MovesOn, Unqueued
<1>3. QueuedOnce' /\ OneHeld'
  BY <1>a DEF SendInv, QueuedOnce, OneHeld, Of
<1>4. ~Queued(o) /\ ~Held(o)
  BY <1>a DEF SendInv, MovesOn, Unqueued
<1>5. QueueFaithful'
  BY <1>a, <1>b, <1>4, ItemTypes DEF SendInv, QueueFaithful, Faithful, Queued, Held, Of
<1>. QED  BY <1>2, <1>3, <1>5 DEF SendInv

\* What an append does to the queue: the new item is the last one.
LEMMA AppendSend ==
  ASSUME TypeInv, NEW x \in Requests \cup Replies, writeChan' = Append(writeChan, x)
  PROVE  /\ Len(writeChan') = Len(writeChan) + 1 /\ Len(writeChan) \in Nat
         /\ \A k \in 1 .. Len(writeChan) : writeChan'[k] = writeChan[k]
         /\ writeChan'[Len(writeChan) + 1] = x
         /\ \A k \in 1 .. Len(writeChan') : k \in 1 .. Len(writeChan) \/ k = Len(writeChan) + 1
  BY ItemTypes

LEMMA EnqueueSend ==
  ASSUME TypeInv, SendInv, NEW o \in Ops, Enqueue(o)
  PROVE  SendInv'
<1> DEFINE x == [kind |-> kind[o], ids |-> ids[o], op |-> o]
<1>a. /\ UNCHANGED <<kind, ids, witem, wire, wpc>>
      /\ pc[o] = "enqueue" /\ pc'[o] \notin Unqueued
      /\ \A q \in Ops \ {o} : pc'[q] = pc[q]
      /\ writeChan' = Append(writeChan, x)
  BY DEF Enqueue, opFrame, writerVars, Unqueued, TypeInv, TypeOK, CallsTypeOK
<1>b. kind[o] \in {"call", "batch", "notify"} /\ x \in Requests
  BY <1>a DEF TypeInv, Begun, TypeOK, CallsTypeOK, Requests
<1>c. /\ x.kind = kind[o] /\ x.op = o /\ x.ids = ids[o]
      /\ Len(writeChan') = Len(writeChan) + 1 /\ Len(writeChan) \in Nat
      /\ \A k \in 1 .. Len(writeChan) : writeChan'[k] = writeChan[k]
      /\ writeChan'[Len(writeChan) + 1] = x
      /\ \A k \in 1 .. Len(writeChan') : k \in 1 .. Len(writeChan) \/ k = Len(writeChan) + 1
  BY <1>a, <1>b, AppendSend
<1> HIDE DEF x
<1>d. ~Queued(o) /\ ~Held(o) /\ ~SentBy(o)
  BY <1>a DEF SendInv, MovesOn, Unqueued
<1>1. \A q \in Ops : /\ Held(q)' = Held(q) /\ SentBy(q)' = SentBy(q)
                     /\ q # o => Queued(q)' = Queued(q)
  <2>1. ASSUME NEW q \in Ops, q # o  PROVE Queued(q)' = Queued(q)
    BY <1>c, <2>1 DEF Queued, Of
  <2>. QED  BY <1>a, <2>1 DEF Held, SentBy, Of
<1>2. MovesOn'
  BY <1>a, <1>d, <1>1 DEF SendInv, MovesOn
<1>3. QueuedOnce'
  BY <1>c, <1>d DEF SendInv, QueuedOnce, Queued, Of
<1>4. OneHeld' /\ QueueFaithful'
  BY <1>a, <1>c DEF SendInv, OneHeld, QueueFaithful, Faithful
<1>. QED  BY <1>2, <1>3, <1>4 DEF SendInv

\* A reply in the queue is no request of an operation.
LEMMA ReplySend ==
  ASSUME TypeInv, SendInv, NEW m \in Incoming, Reply(m)
  PROVE  SendInv'
<1>a. UNCHANGED <<pc, kind, ids, witem, wire, wpc>> /\ writeChan' = Append(writeChan, ReplyOf(m))
  BY DEF Reply, QueueReply, handlerFrame, callVars, writerVars
<1>b. ReplyOf(m) \in Requests \cup Replies /\ ReplyOf(m).kind = "reply"
  BY DEF ReplyOf, Replies
<1>c. /\ Len(writeChan') = Len(writeChan) + 1 /\ Len(writeChan) \in Nat
      /\ \A k \in 1 .. Len(writeChan) : writeChan'[k] = writeChan[k]
      /\ writeChan'[Len(writeChan) + 1] = ReplyOf(m)
      /\ \A k \in 1 .. Len(writeChan') : k \in 1 .. Len(writeChan) \/ k = Len(writeChan) + 1
  BY <1>a, <1>b, AppendSend
<1>1. \A q \in Ops : Held(q)' = Held(q) /\ SentBy(q)' = SentBy(q) /\ Queued(q)' = Queued(q)
  BY <1>a, <1>b, <1>c DEF Held, SentBy, Queued, Of
<1>2. MovesOn'
  BY <1>a, <1>1 DEF SendInv, MovesOn
<1>3. QueuedOnce'
  BY <1>b, <1>c DEF SendInv, QueuedOnce, Of
<1>4. OneHeld' /\ QueueFaithful'
  BY <1>a, <1>b, <1>c DEF SendInv, OneHeld, QueueFaithful, Faithful
<1>. QED  BY <1>2, <1>3, <1>4 DEF SendInv

\* What a take does to the queue: every item moves up by one, and the first is held.
LEMMA TakeSend ==
  ASSUME TypeInv, writeChan # <<>>, TakeHead
  PROVE  /\ 1 \in 1 .. Len(writeChan) /\ witem' = {writeChan[1]}
         /\ \A k \in 1 .. Len(writeChan') : /\ k + 1 \in 1 .. Len(writeChan)
                                            /\ k + 1 # 1
                                            /\ writeChan'[k] = writeChan[k + 1]
  BY ItemTypes DEF TakeHead

LEMMA WriterTakeSend ==
  ASSUME TypeInv, SendInv, WriterTake
  PROVE  SendInv'
<1>a. UNCHANGED <<pc, kind, ids, wire>>
  BY DEF WriterTake, writerFrame, callVars
<1>b. /\ 1 \in 1 .. Len(writeChan) /\ witem' = {writeChan[1]}
      /\ \A k \in 1 .. Len(writeChan') : /\ k + 1 \in 1 .. Len(writeChan)
                                         /\ k + 1 # 1
                                         /\ writeChan'[k] = writeChan[k + 1]
  BY TakeSend DEF WriterTake
<1>1. ASSUME NEW o \in Ops
      PROVE  /\ Queued(o)' => Queued(o)
             /\ Held(o)' => Queued(o)
             /\ ~(Queued(o)' /\ Held(o)')
             /\ SentBy(o)' = SentBy(o)
  <2>1. Queued(o)' => \E k \in 1 .. Len(writeChan) : k # 1 /\ Of(writeChan[k], o)
    BY <1>b DEF Queued, Of
  <2>2. Held(o)' => Of(writeChan[1], o)
    BY <1>b DEF Held, Of
  <2>3. ~(Of(writeChan[1], o) /\ \E k \in 1 .. Len(writeChan) : k # 1 /\ Of(writeChan[k], o))
    BY <1>b DEF SendInv, QueuedOnce
  <2>. QED  BY <1>a, <1>b, <2>1, <2>2, <2>3 DEF Queued, SentBy
<1>2. MovesOn'
  BY <1>a, <1>1 DEF SendInv, MovesOn
<1>3. QueuedOnce'
  <2> SUFFICES ASSUME NEW o \in Ops, NEW j \in 1 .. Len(writeChan'),
                      NEW k \in 1 .. Len(writeChan'),
                      Of(writeChan'[j], o), Of(writeChan'[k], o)
               PROVE  j = k
    BY DEF QueuedOnce, Of
  <2>1. j + 1 = k + 1
    BY <1>b DEF SendInv, QueuedOnce
  <2>2. j \in Int /\ k \in Int
    OBVIOUS
  <2>. QED  BY <2>1, <2>2
<1>4. OneHeld' /\ QueueFaithful'
  BY <1>a, <1>b DEF SendInv, OneHeld, QueueFaithful, Faithful
<1>. QED  BY <1>2, <1>3, <1>4 DEF SendInv

\* Writing an item sends requests of one operation at most, the one it belongs to.
LEMMA TransmitSend ==
  ASSUME Transmit, NEW o
  PROVE  SentBy(o)' => SentBy(o) \/ Held(o)
<1>1. \A e \in wire' : e \in wire \/ \E q \in witem : q.kind # "reply" /\ e.op = q.op
  BY DEF Transmit
<1>. QED  BY <1>1 DEF SentBy, Held, Of

LEMMA WriteSend ==
  ASSUME TypeInv, SendInv, WriteOK \/ \E t \in BOOLEAN : WriteFail(t)
  PROVE  SendInv'
<1>a. /\ UNCHANGED <<pc, kind, ids, writeChan>>
      /\ wpc = "writing" /\ wpc' # "writing"
      /\ witem' \subseteq witem
  BY DEF WriteOK, WriteFail, writerFrame, callVars
<1>1. ASSUME NEW o  PROVE SentBy(o)' => SentBy(o) \/ Held(o)
  BY TransmitSend DEF WriteOK, WriteFail, SentBy
<1>2. \A o \in Ops : Queued(o)' = Queued(o) /\ (Held(o)' => Held(o))
  BY <1>a DEF Queued, Held, Of
<1>3. MovesOn'
  BY <1>a, <1>1, <1>2 DEF SendInv, MovesOn
<1>4. QueuedOnce' /\ OneHeld' /\ QueueFaithful'
  BY <1>a DEF SendInv, QueuedOnce, OneHeld, QueueFaithful, Faithful, Of
<1>. QED  BY <1>3, <1>4 DEF SendInv

LEMMA WriterFailSend ==
  ASSUME SendInv, WriterFail
  PROVE  SendInv'
<1>a. UNCHANGED <<pc, kind, ids, writeChan, wire>> /\ witem' = {} /\ wpc' # "writing"
  BY DEF WriterFail, writerFrame, callVars
<1>. QED  BY <1>a DEF SendInv, MovesOn, QueuedOnce, OneHeld, QueueFaithful, Faithful, Queued,
             Held, SentBy, Of

\* The other steps of an operation only take it further.
LEMMA OpSend ==
  ASSUME TypeInv, OwnInv, SendInv, NEW o \in Ops,
         StartOp(o) \/ OpStep(o) \/ RegisterObject(o) \/ UnregisterObject(o)
  PROVE  SendInv'
<1>a. ASSUME UNCHANGED <<ids, kind, writeChan>>, UNCHANGED writerVars,
             pc[o] \in Unqueued \/ pc'[o] \notin Unqueued,
             \A q \in Ops \ {o} : pc'[q] = pc[q]
      PROVE  SendInv'
  BY <1>a, FrameSend DEF SendFrame, writerVars
<1> USE DEF opFrame, Finish, Unqueued, TypeInv, TypeOK, CallsTypeOK
<1>1. CASE Refuse(o)  BY <1>1, <1>a DEF Refuse
<1>2. CASE EmptyBatch(o)  BY <1>2, <1>a DEF EmptyBatch
<1>3. CASE \E n \in Sizes(kind[o]) : Begin(o, n)  BY <1>3, BeginSend
<1>4. CASE StorePending(o)  BY <1>4, <1>a DEF StorePending
<1>5. CASE Enqueue(o)  BY <1>5, EnqueueSend
<1>6. CASE SeeClosed(o)  BY <1>6, <1>a DEF SeeClosed
<1>7. CASE TimeOut(o)  BY <1>7, <1>a DEF TimeOut
<1>8. CASE Receive(o)  BY <1>8, <1>a DEF Receive, Collected
<1>9. CASE ReceiveNil(o)  BY <1>9, <1>a DEF ReceiveNil, Collected
<1>10. CASE Cleanup(o)  BY <1>10, <1>a DEF Cleanup
<1>11. CASE RegisterObject(o)  BY <1>11, <1>a DEF RegisterObject, registerFrame
<1>12. CASE UnregisterObject(o)  BY <1>12, <1>a DEF UnregisterObject, registerFrame
<1>. QED  BY <1>1, <1>2, <1>3, <1>4, <1>5, <1>6, <1>7, <1>8, <1>9, <1>10, <1>11, <1>12
             DEF StartOp, OpStep

LEMMA SendStep == TypeInv /\ OwnInv /\ SendInv /\ [Next]_vars => SendInv'
<1> SUFFICES ASSUME TypeInv, OwnInv, SendInv, [Next]_vars  PROVE SendInv'
  OBVIOUS
<1>a. ASSUME UNCHANGED <<callVars, writeChan>>, UNCHANGED <<witem, wire>>,
             wpc' = "writing" => wpc = "writing"
      PROVE  SendInv'
  BY <1>a, FrameSend DEF SendFrame, callVars
<1>b. ASSUME UNCHANGED <<callVars, writeChan, writerVars>>  PROVE SendInv'
  BY <1>b, <1>a DEF writerVars
<1>1. CASE WriterStep
  <2>1. CASE WriterSeesClosed \/ NotifyLoad \/ NotifySend
    BY <2>1, <1>a DEF WriterSeesClosed, NotifyLoad, NotifySend, writerFrame
  <2>. QED  BY <1>1, <2>1, WriterTakeSend, WriteSend, WriterFailSend DEF WriterStep
<1>2. CASE Remote \/ ReaderStep
  BY <1>2, <1>b DEF Remote, ReaderStep, ReadCheck, ReadEnd, ReadRequest, ReadResponses,
     LoadPending, SendLoaded, ReaderCloses, ReaderDone, CloseChan, closeFrame, readerFrame
<1>3. ASSUME NEW m \in Incoming, HandlerStep(m)  PROVE SendInv'
  BY <1>3, <1>b, ReplySend DEF HandlerStep, Handle, DropReply, handlerFrame
<1>4. CASE CloseChan \/ CloseStep
  BY <1>4, <1>b DEF CloseChan, CloseStep, DisposeAll, RangeClose, RangeDelete, RangeDone,
     closeFrame
<1>5. CASE UNCHANGED vars
  BY <1>5, <1>b DEF vars
<1>. QED  BY <1>1, <1>2, <1>3, <1>4, <1>5, OpSend DEF Next

LEMMA SendInvariant == Spec => [](TypeInv /\ OwnInv /\ SendInv)
<1>1. Init => TypeInv /\ OwnInv /\ SendInv
  BY InitTypes, InitOwn, InitSend
<1>2. TypeInv /\ OwnInv /\ SendInv /\ [Next]_vars => (TypeInv /\ OwnInv /\ SendInv)'
  BY TypesStep, OwnStep, SendStep
<1>. QED  BY <1>1, <1>2, PTL DEF Spec

\* writeLoop puts no request on the wire twice, whether its write succeeds or not.
THEOREM SentAtMostOnce == Spec => SentOnce
<1>1. TypeInv /\ SendInv /\ [Next]_vars =>
        [wpc = "writing" /\ wpc' = "idle" =>
           \A x \in witem : x.kind # "reply" =>
             \A i \in x.ids : [id |-> i, op |-> x.op] \notin wire]_vars
  BY ItemTypes DEF SendInv, MovesOn, Held, SentBy, Of
<1>. QED  BY <1>1, SendInvariant, PTL DEF Spec, SentOnce

-----------------------------------------------------------------------------
(* What an operation has drawn, and what it is told when its write fails.   *)

\* A call draws one id, and an operation that awaits still has an id to wait for.
Drawn ==
    \A o \in Ops :
        /\ IsFiniteSet(ids[o])
        /\ kind[o] = "call" /\ pc[o] \in {"store", "enqueue", "await"} =>
             \E i \in ids[o] : ids[o] = {i}
        /\ pc[o] = "await" => todo[o] # {}
        /\ outcome[o] = "refused" => ids[o] = {}

LEMMA InitDrawn == Init => Drawn
<1>1. IsFiniteSet({})
  BY FS_EmptySet
<1>. QED  BY <1>1 DEF Init, Drawn

LEMMA BeginDrawn ==
  ASSUME TypeInv, OwnInv, LifeInv, Drawn, NEW o \in Ops, NEW n \in Sizes(kind[o]), Begin(o, n)
  PROVE  Drawn'
<1>a. /\ UNCHANGED <<kind, outcome>>
      /\ pc[o] = "new" /\ pc'[o] \in {"store", "enqueue"}
      /\ \A q \in Ops \ {o} : pc'[q] = pc[q] /\ todo'[q] = todo[q]
  BY DEF Begin, TypeInv, TypeOK, CallsTypeOK
<1>b. outcome[o] = "none"
  BY <1>a DEF LifeInv, AnsweredSoFar
<1>c. /\ n \in Nat /\ nextID \in Nat
      /\ ids'[o] = (nextID + 1) .. (nextID + n)
      /\ \A q \in Ops \ {o} : ids'[q] = ids[q]
  BY BeginIds DEF OwnInv, TypeInv, TypeOK, CallsTypeOK
<1>1. IsFiniteSet(ids'[o])
  <2>1. nextID + 1 \in Int /\ nextID + n \in Int
    BY <1>c
  <2>. QED  BY <1>c, <2>1, FS_Interval
<1>2. kind[o] = "call" => ids'[o] = {nextID + 1}
  BY <1>c DEF Sizes
<1>. QED  BY <1>a, <1>b, <1>c, <1>1, <1>2 DEF Drawn

LEMMA OpDrawn ==
  ASSUME TypeInv, OwnInv, LifeInv, Drawn, NEW o \in Ops, StartOp(o) \/ OpStep(o)
  PROVE  Drawn'
<1>a. ASSUME UNCHANGED <<ids, kind>>,
             \A q \in Ops \ {o} : /\ pc'[q] = pc[q] /\ todo'[q] = todo[q]
                                  /\ outcome'[q] = outcome[q],
             pc'[o] \in {"store", "enqueue", "await"} => pc[o] \in {"store", "enqueue", "await"},
             pc'[o] = "await" => todo'[o] # {},
             outcome'[o] = "refused" => outcome[o] = "refused" \/ ids[o] = {}
      PROVE  Drawn'
  BY <1>a DEF Drawn
<1> USE DEF Finish, TypeInv, TypeOK, CallsTypeOK, Begun
<1>1. CASE Refuse(o)  BY <1>1, <1>a DEF Refuse
<1>2. CASE EmptyBatch(o)  BY <1>2, <1>a DEF EmptyBatch
<1>3. CASE \E n \in Sizes(kind[o]) : Begin(o, n)  BY <1>3, BeginDrawn
<1>4. CASE StorePending(o)  BY <1>4, <1>a DEF StorePending
<1>5. CASE Enqueue(o)
  <2>1. todo[o] = ids[o]
    BY <1>5 DEF Enqueue, LifeInv, AnsweredSoFar
  <2>. QED  BY <1>5, <2>1, <1>a DEF Enqueue
<1>6. CASE SeeClosed(o)  BY <1>6, <1>a DEF SeeClosed
<1>7. CASE TimeOut(o)  BY <1>7, <1>a DEF TimeOut
<1>8. CASE Receive(o) \/ ReceiveNil(o)
  <2>1. /\ UNCHANGED <<ids, kind>> /\ pc[o] = "await"
        /\ UNCHANGED <<pc, todo, outcome>> \/ \E i \in todo[o] : Collected(o, i)
    BY <1>8 DEF Receive, ReceiveNil, Lowest
  <2>2. CASE UNCHANGED <<pc, todo, outcome>>
    BY <2>1, <2>2 DEF Drawn
  <2>3. ASSUME NEW i \in todo[o], Collected(o, i)  PROVE Drawn'
    BY <2>1, <2>3, <1>a DEF Collected
  <2>. QED  BY <2>1, <2>2, <2>3
<1>9. CASE Cleanup(o)  BY <1>9, <1>a DEF Cleanup
<1>. QED  BY <1>1, <1>2, <1>3, <1>4, <1>5, <1>6, <1>7, <1>8, <1>9 DEF StartOp, OpStep

LEMMA DrawnStep == TypeInv /\ CallInv /\ Drawn /\ [Next]_vars => Drawn'
<1> SUFFICES ASSUME TypeInv, CallInv, Drawn, [Next]_vars  PROVE Drawn'
  OBVIOUS
<1>a. ASSUME UNCHANGED callVars  PROVE Drawn'
  BY <1>a DEF Drawn, callVars
<1>1. ASSUME NEW o \in Ops, StartOp(o) \/ OpStep(o)  PROVE Drawn'
  BY <1>1, OpDrawn DEF CallInv
<1>2. ASSUME NEW o \in Ops, RegisterObject(o) \/ UnregisterObject(o)  PROVE Drawn'
  BY <1>2 DEF RegisterObject, UnregisterObject, Drawn, TypeInv, TypeOK, CallsTypeOK
<1>3. CASE Remote \/ ReaderStep
  BY <1>3, <1>a DEF Remote, ReaderStep, ReadCheck, ReadEnd, ReadRequest, ReadResponses,
     LoadPending, SendLoaded, ReaderCloses, ReaderDone, CloseChan, closeFrame, readerFrame
<1>4. CASE WriterStep
  BY <1>4, <1>a DEF WriterStep, WriterTake, WriterSeesClosed, WriteOK, WriteFail, NotifyLoad,
     NotifySend, WriterFail, writerFrame
<1>5. ASSUME NEW m \in Incoming, HandlerStep(m)  PROVE Drawn'
  BY <1>5, <1>a DEF HandlerStep, Handle, Reply, DropReply, handlerFrame
<1>6. CASE CloseChan \/ CloseStep
  BY <1>6, <1>a DEF CloseChan, CloseStep, DisposeAll, RangeClose, RangeDelete, RangeDone,
     closeFrame
<1>7. CASE UNCHANGED vars
  BY <1>7, <1>a DEF vars
<1>. QED  BY <1>1, <1>2, <1>3, <1>4, <1>5, <1>6, <1>7 DEF Next

\* writeLoop holds the request of a call that awaits, and Close has not reached the map.
Awaited(x) ==
    x.kind = "call" /\ pc[x.op] = "await" /\ closePhase \in {"open", "disposing"}

\* No channel is closed before Close reaches the map, and from the moment writeLoop
\* has looked for the caller, the error is on its way to it or in its channel.
Told ==
    /\ closedCh # {} => closePhase \in {"ranging", "closed"}
    /\ wpc = "notifySend" => \A x \in witem, l \in wloaded : x.kind = "call" => l.ch.op = x.op
    /\ \A x \in witem : wpc = "notifySend" /\ Awaited(x) => \E l \in wloaded : l.ch.op = x.op
    /\ \A x \in witem : wpc = "fail" /\ Awaited(x) => \E b \in buffered : b.ch.op = x.op

LEMMA InitTold == Init => Told
  BY DEF Init, Told

\* A letter that is delivered leaves its channel with one, unless Close has closed it.
LEMMA DeliverTold ==
  ASSUME NEW l, Deliver(l)
  PROVE  /\ \A b \in buffered : b \in buffered'
         /\ l.ch \notin closedCh => \E b \in buffered' : b.ch = l.ch
         /\ UNCHANGED closedCh
  BY DEF Deliver

\* Steps that take no letter, and make no operation await.
ToldFrame ==
    /\ UNCHANGED <<witem, wpc, closedCh>>
    /\ wloaded' = wloaded
    /\ \A b \in buffered : b \in buffered'
    /\ \A x \in witem : Awaited(x)' => Awaited(x)
    /\ closePhase \in {"ranging", "closed"} => closePhase' \in {"ranging", "closed"}

LEMMA FrameTold ==
  ASSUME Told, ToldFrame
  PROVE  Told'
<1>1. /\ wpc' = "notifySend" => \A x \in witem', l \in wloaded' : x.kind = "call" => l.ch.op = x.op
      /\ \A x \in witem' : wpc' = "notifySend" /\ Awaited(x)' => \E l \in wloaded' : l.ch.op = x.op
      /\ \A x \in witem' : wpc' = "fail" /\ Awaited(x)' => \E b \in buffered' : b.ch.op = x.op
  BY DEF Told, ToldFrame
<1>2. closedCh' # {} => closePhase' \in {"ranging", "closed"}
  BY DEF Told, ToldFrame
<1>. QED  BY <1>1, <1>2 DEF Told

\* A receive takes the only letter its operation waits for, if it is a call.
LEMMA ReceiveTold ==
  ASSUME TypeInv, CallInv, SendInv, Drawn, Told, NEW o \in Ops, Receive(o)
  PROVE  Told'
<1>1. PICK i \in todo[o], b \in buffered :
        b.ch = EntryOf(o, i) /\ Consumes(o, b) /\ Collected(o, i)
  BY Zenon DEF Receive, Lowest, EntryOf, Consumes
<1>a. /\ UNCHANGED <<witem, wpc, wloaded, closedCh, closePhase, kind>>
      /\ pc[o] = "await"
  BY DEF Receive, opFrame, writerVars, closeVars
<1>2. /\ \A q \in Ops \ {o} : pc'[q] = pc[q]
      /\ todo[o] = {i} => pc'[o] # "await"
  BY <1>1 DEF Collected, Finish, TypeInv, TypeOK, CallsTypeOK
<1>3. ASSUME NEW x \in witem, Awaited(x)'  PROVE Awaited(x) /\ x.op # o
  <2>1. x.op \in Ops /\ x.kind = "call" /\ kind[x.op] = "call"
    BY <1>3, ItemTypes DEF Awaited, SendInv, QueueFaithful, Faithful
  <2>2. x.op # o
    <3>1. SUFFICES ASSUME x.op = o  PROVE FALSE
      OBVIOUS
    <3>2. PICK j \in ids[o] : ids[o] = {j}
      BY <1>a, <2>1, <3>1 DEF Drawn
    <3>3. todo[o] = {i}
      BY <3>2 DEF TypeInv, Begun
    <3>. QED  BY <1>2, <1>3, <3>1, <3>3 DEF Awaited
  <2>. QED  BY <1>a, <1>2, <1>3, <2>1, <2>2 DEF Awaited
<1>4. \A x \in witem : x.op # o => \A c \in buffered : c.ch.op = x.op => c \in buffered'
  BY <1>1 DEF Consumes, EntryOf
<1>5. /\ wpc = "notifySend" => \A x \in witem, l \in wloaded : x.kind = "call" => l.ch.op = x.op
      /\ \A x \in witem : wpc = "notifySend" /\ Awaited(x)' => \E l \in wloaded : l.ch.op = x.op
      /\ closedCh # {} => closePhase \in {"ranging", "closed"}
  BY <1>3 DEF Told
<1>6. \A x \in witem : wpc = "fail" /\ Awaited(x)' => \E c \in buffered' : c.ch.op = x.op
  BY <1>3, <1>4 DEF Told
<1>. QED  BY <1>a, <1>5, <1>6 DEF Told

LEMMA OpTold ==
  ASSUME TypeInv, CallInv, SendInv, Drawn, Told, NEW o \in Ops, StartOp(o) \/ OpStep(o)
  PROVE  Told'
<1>a. UNCHANGED <<witem, wpc, closedCh, closePhase, kind>> /\ wloaded' = wloaded
  BY DEF StartOp, OpStep, Refuse, EmptyBatch, Begin, StorePending, Enqueue, SeeClosed,
     TimeOut, Receive, ReceiveNil, Cleanup, opFrame, mapVars, writerVars, closeVars
<1>b. ASSUME buffered' = buffered,
             pc'[o] = "await" => pc[o] = "await" \/ ~Held(o),
             \A q \in Ops \ {o} : pc'[q] = pc[q]
      PROVE  Told'
  <2>1. ASSUME NEW x \in witem, Awaited(x)'  PROVE Awaited(x)
    <3>1. x.op \in Ops /\ Of(x, x.op)
      BY <2>1, ItemTypes DEF Awaited, Of
    <3>. QED  BY <1>a, <1>b, <2>1, <3>1 DEF Awaited, Held
  <2>. QED  BY <1>a, <1>b, <2>1, FrameTold DEF ToldFrame
<1> USE DEF mapVars, Finish, TypeInv, TypeOK, CallsTypeOK
<1>1. CASE Refuse(o)  BY <1>1, <1>b DEF Refuse
<1>2. CASE EmptyBatch(o)  BY <1>2, <1>b DEF EmptyBatch
<1>3. CASE \E n \in Sizes(kind[o]) : Begin(o, n)  BY <1>3, <1>b DEF Begin
<1>4. CASE StorePending(o)  BY <1>4, <1>b DEF StorePending
<1>5. CASE Enqueue(o)
  <2>1. ~Held(o)
    BY <1>5 DEF Enqueue, SendInv, MovesOn, Unqueued
  <2>. QED  BY <1>5, <1>b, <2>1 DEF Enqueue
<1>6. CASE SeeClosed(o)  BY <1>6, <1>b DEF SeeClosed
<1>7. CASE TimeOut(o)  BY <1>7, <1>b DEF TimeOut
<1>8. CASE Receive(o)  BY <1>8, ReceiveTold
<1>9. CASE ReceiveNil(o)  BY <1>9, <1>b DEF ReceiveNil, Collected
<1>10. CASE Cleanup(o)  BY <1>10, <1>b DEF Cleanup
<1>. QED  BY <1>1, <1>2, <1>3, <1>4, <1>5, <1>6, <1>7, <1>8, <1>9, <1>10 DEF StartOp, OpStep

\* notifyPendingRequest finds the entry of the call it looks for, and no other.
LEMMA NotifyLoadTold ==
  ASSUME TypeInv, CallInv, SendInv, Drawn, Told, NotifyLoad
  PROVE  Told'
<1>a. /\ UNCHANGED <<pc, kind, ids, todo, witem, pendingReqs, closedCh, closePhase>>
      /\ wpc' = IF wloaded' = {} THEN "fail" ELSE "notifySend"
  BY DEF NotifyLoad, writerFrame, callVars, mapVars, closeVars
<1>b. wloaded' = {[ch |-> p, resp |-> [id |-> p.id, op |-> p.op, src |-> "local"]] :
                    p \in UNION {Waiters(x) : x \in witem}}
  BY DEF NotifyLoad
<1>1. ASSUME NEW x \in witem, NEW l \in wloaded', x.kind = "call"  PROVE l.ch.op = x.op
  <2>1. PICK y \in witem : l.ch \in Waiters(y)
    BY <1>b
  <2>2. y = x
    BY DEF SendInv, OneHeld
  <2>3. l.ch \in pendingReqs /\ l.ch.id \in x.ids
    BY <1>1, <2>1, <2>2 DEF Waiters, Load
  <2>4. l.ch.op \in Ops /\ l.ch.id \in ids[l.ch.op]
    BY <2>3 DEF TypeInv, TypeOK, MapTypeOK, Entries, CallInv, OwnInv, EntriesOwned, Owned
  <2>5. x.op \in Ops /\ l.ch.id \in ids[x.op]
    BY <1>1, <2>3, ItemTypes DEF SendInv, QueueFaithful, Faithful
  <2>. QED  BY <2>4, <2>5 DEF CallInv, OwnInv, IdsUnique
<1>2. ASSUME NEW x \in witem, Awaited(x)'  PROVE \E l \in wloaded' : l.ch.op = x.op
  <2>1. x.op \in Ops /\ x.kind = "call" /\ x.ids = ids[x.op] /\ pc[x.op] = "await"
    BY <1>a, <1>2, ItemTypes DEF Awaited, SendInv, QueueFaithful, Faithful
  <2>2. PICK i \in todo[x.op] : i \in ids[x.op]
    BY <2>1 DEF Drawn, TypeInv, Begun
  <2>3. EntryOf(x.op, i) \in pendingReqs
    BY <1>a, <1>2, <2>1 DEF Awaited, CallInv, LifeInv, AwaitedIsPending, EntryOf
  <2>4. EntryOf(x.op, i) \in Waiters(x)
    BY <2>1, <2>2, <2>3 DEF Waiters, Load, EntryOf
  <2> DEFINE L(p) == [ch |-> p, resp |-> [id |-> p.id, op |-> p.op, src |-> "local"]]
  <2>5. L(EntryOf(x.op, i)) \in wloaded'
    BY <1>b, <2>4
  <2>6. L(EntryOf(x.op, i)).ch = EntryOf(x.op, i)
    OBVIOUS
  <2>. QED  BY <2>5, <2>6 DEF EntryOf
<1>. QED  BY <1>a, <1>1, <1>2 DEF Told

LEMMA NotifySendTold ==
  ASSUME TypeInv, Told, NotifySend
  PROVE  Told'
<1>a. /\ UNCHANGED <<pc, witem, closePhase>>
      /\ wpc = "notifySend" /\ wpc' = "fail" /\ wloaded' = {}
  BY DEF NotifySend, writerFrame, callVars, closeVars
<1>1. PICK l \in wloaded : Deliver(l)
  BY DEF NotifySend
<1>2. /\ \A b \in buffered : b \in buffered'
      /\ l.ch \notin closedCh => \E b \in buffered' : b.ch = l.ch
      /\ UNCHANGED closedCh
  BY <1>1, DeliverTold
<1>3. ASSUME NEW x \in witem, Awaited(x)'  PROVE \E b \in buffered' : b.ch.op = x.op
  <2>1. closedCh = {} /\ l.ch.op = x.op
    BY <1>a, <1>3 DEF Awaited, Told
  <2>. QED  BY <1>2, <2>1
<1>. QED  BY <1>a, <1>2, <1>3 DEF Told

LEMMA WriterTold ==
  ASSUME TypeInv, CallInv, SendInv, Drawn, Told, WriterStep
  PROVE  Told'
<1>1. CASE WriterTake
  <2>1. /\ UNCHANGED <<pc, closedCh, closePhase, wloaded>> /\ wpc' = "writing"
    BY <1>1 DEF WriterTake, writerFrame, callVars, mapVars, closeVars
  <2>. QED  BY <2>1 DEF Told
<1>2. CASE WriterSeesClosed \/ WriteOK \/ (\E t \in BOOLEAN : WriteFail(t)) \/ WriterFail
  <2>1. /\ UNCHANGED <<pc, closedCh, closePhase, wloaded>> /\ wpc' \notin {"notifySend", "fail"}
    BY <1>2 DEF WriterSeesClosed, WriteOK, WriteFail, WriterFail, writerFrame, callVars, mapVars,
       closeVars
  <2>. QED  BY <2>1 DEF Told
<1>. QED  BY <1>1, <1>2, NotifyLoadTold, NotifySendTold DEF WriterStep

LEMMA ReaderTold ==
  ASSUME Told, Remote \/ ReaderStep
  PROVE  Told'
<1>1. CASE SendLoaded
  <2>1. PICK l \in loaded : Deliver(l)
    BY <1>1 DEF SendLoaded
  <2>. QED  BY <1>1, <2>1, DeliverTold, FrameTold DEF SendLoaded, ToldFrame, Awaited,
               readerFrame, callVars, writerVars, closeVars
<1>2. CASE ReaderCloses
  BY <1>2, FrameTold DEF ReaderCloses, CloseChan, ToldFrame, Awaited, mapVars, closeFrame,
     callVars, writerVars
<1>3. ASSUME UNCHANGED <<readerFrame, mapVars>>  PROVE Told'
  BY <1>3, FrameTold DEF ToldFrame, Awaited, readerFrame, mapVars, callVars, writerVars,
     closeVars
<1>. QED  BY <1>1, <1>2, <1>3 DEF Remote, ReaderStep, ReadCheck, ReadEnd, ReadRequest,
             ReadResponses, LoadPending, ReaderDone

LEMMA CloseTold ==
  ASSUME Told, CloseChan \/ CloseStep
  PROVE  Told'
<1> USE DEF ToldFrame, Awaited, mapVars, closeFrame, callVars, writerVars
<1>1. CASE CloseChan  BY <1>1, FrameTold DEF CloseChan
<1>2. CASE DisposeAll  BY <1>2, FrameTold DEF DisposeAll
<1>3. ASSUME NEW p \in pendingReqs, RangeClose(p)  PROVE Told'
  BY <1>3 DEF RangeClose, Told
<1>4. CASE RangeDelete  BY <1>4, FrameTold DEF RangeDelete
<1>5. CASE RangeDone  BY <1>5, FrameTold DEF RangeDone
<1>. QED  BY <1>1, <1>2, <1>3, <1>4, <1>5 DEF CloseStep

LEMMA ToldStep == TypeInv /\ CallInv /\ SendInv /\ Drawn /\ Told /\ [Next]_vars => Told'
<1> SUFFICES ASSUME TypeInv, CallInv, SendInv, Drawn, Told, [Next]_vars  PROVE Told'
  OBVIOUS
<1>1. ASSUME NEW o \in Ops, RegisterObject(o) \/ UnregisterObject(o)  PROVE Told'
  <2>1. UNCHANGED registerFrame /\ \A q \in Ops : pc'[q] = "await" => pc[q] = "await"
    BY <1>1 DEF RegisterObject, UnregisterObject, TypeInv, TypeOK, CallsTypeOK
  <2>2. \A x \in witem : Awaited(x)' => Awaited(x)
    <3>1. \A x \in witem : x.kind = "call" => x.op \in Ops
      BY ItemTypes
    <3>. QED  BY <2>1, <3>1 DEF Awaited, registerFrame, closeVars
  <2>. QED  BY <2>1, <2>2, FrameTold DEF ToldFrame, registerFrame, mapVars, writerVars, closeVars
<1>2. ASSUME NEW m \in Incoming, HandlerStep(m)  PROVE Told'
  BY <1>2, FrameTold DEF HandlerStep, Handle, Reply, DropReply, handlerFrame, ToldFrame, Awaited,
     callVars, mapVars, writerVars, closeVars
<1>3. CASE UNCHANGED vars
  BY <1>3, FrameTold DEF vars, ToldFrame, Awaited, callVars, mapVars, writerVars, closeVars
<1>. QED  BY <1>1, <1>2, <1>3, OpTold, WriterTold, ReaderTold, CloseTold DEF Next

\* All the state an endpoint keeps about its calls.
PeerInv == TypeInv /\ CallInv /\ SendInv /\ Drawn /\ Told

LEMMA InitPeer == Init => PeerInv
  BY InitTypes, InitOwn, InitLife, InitSend, InitDrawn, InitTold DEF PeerInv, CallInv

LEMMA PeerStep == PeerInv /\ [Next]_vars => PeerInv'
  BY TypesStep, OwnStep, LifeStep, SendStep, DrawnStep, ToldStep DEF PeerInv, CallInv

\* When writeLoop gives up on a Call's request, an error waits for its caller, unless
\* Close has taken the entry away.
THEOREM WriteErrorIsTold == Spec => []WriteErrorReachesCaller
<1>1. PeerInv => WriteErrorReachesCaller
  BY DEF PeerInv, TypeInv, TypeOK, CloseTypeOK, Told, Awaited, WriteErrorReachesCaller
<1>. QED  BY <1>1, InitPeer, PeerStep, PTL DEF Spec

-----------------------------------------------------------------------------
(* The endpoint implements RpcCalls.                                        *)

\* A response of the remote answers a request it has received, wherever it has got to.
FromWire(r) == r.src = "remote" => [id |-> r.id, op |-> r.op] \in wire

RemoteOwned ==
    /\ \A r \in inbox : FromWire(r)
    /\ \A l \in loaded \cup buffered \cup wloaded : FromWire(l.resp)
    /\ \A o \in Ops : \A r \in answers[o] : FromWire(r)

LEMMA InitRemote == Init => RemoteOwned
  BY DEF Init, RemoteOwned

LEMMA FrameRemote ==
  ASSUME RemoteOwned, UNCHANGED <<inbox, loaded, wloaded, answers>>, wire \subseteq wire',
         buffered' \subseteq buffered
  PROVE  RemoteOwned'
  BY DEF RemoteOwned, FromWire

LEMMA OpRemote ==
  ASSUME TypeInv, RemoteOwned, NEW o \in Ops, StartOp(o) \/ OpStep(o)
  PROVE  RemoteOwned'
<1>1. CASE Receive(o)
  <2>1. PICK b \in buffered : Consumes(o, b)
    BY <1>1, ReceiveConsumes
  <2>2. UNCHANGED <<inbox, loaded, wloaded, wire>>
    BY <1>1 DEF Receive, opFrame, readerVars, writerVars
  <2>. QED  BY <2>1, <2>2 DEF Consumes, RemoteOwned, FromWire, TypeInv, TypeOK, CallsTypeOK
<1>2. CASE ~Receive(o)
  BY <1>2, FrameRemote DEF StartOp, OpStep, Refuse, EmptyBatch, Begin, StorePending, Enqueue,
     SeeClosed, TimeOut, ReceiveNil, Cleanup, opFrame, mapVars, readerVars, writerVars
<1>. QED  BY <1>1, <1>2

LEMMA DeliverRemote ==
  ASSUME RemoteOwned, NEW l \in loaded \cup wloaded, Deliver(l)
  PROVE  \A b \in buffered' : FromWire(b.resp)
<1>1. \A b \in buffered' : b \in buffered \/ b = l
  BY DEF Deliver
<1>2. \A b \in buffered : FromWire(b.resp)
  BY DEF RemoteOwned
<1>3. FromWire(l.resp)
  BY DEF RemoteOwned
<1>. QED  BY <1>1, <1>2, <1>3

LEMMA ReaderRemote ==
  ASSUME TypeInv, RemoteOwned, Remote \/ ReaderStep
  PROVE  RemoteOwned'
<1>a. UNCHANGED <<answers, wloaded, wire>>
  BY DEF Remote, ReaderStep, ReadCheck, ReadEnd, ReadRequest, ReadResponses, LoadPending,
     SendLoaded, ReaderCloses, ReaderDone, CloseChan, closeFrame, readerFrame, callVars,
     writerVars
<1>1. ASSUME NEW S \in SUBSET Answers, ReadResponses(S)  PROVE RemoteOwned'
  <2>1. \A r \in S : FromWire(r)
    <3>1. \A r \in Answers : \E e \in wire : r.id = e.id /\ r.op = e.op
      BY DEF Answers
    <3>2. \A e \in wire : [id |-> e.id, op |-> e.op] = e
      BY DEF TypeInv, TypeOK, WriterTypeOK, Entries
    <3>. QED  BY <3>1, <3>2 DEF FromWire
  <2>. QED  BY <1>a, <1>1, <2>1 DEF ReadResponses, RemoteOwned, FromWire, mapVars
<1>2. ASSUME NEW r \in inbox, LoadPending(r)  PROVE RemoteOwned'
  <2>1. /\ inbox' \subseteq inbox /\ UNCHANGED buffered
        /\ loaded' = {[ch |-> p, resp |-> r] : p \in Load(r.id)}
    BY <1>2 DEF LoadPending, mapVars
  <2>. QED  BY <1>a, <2>1 DEF RemoteOwned, FromWire
<1>3. CASE SendLoaded
  BY <1>a, <1>3, DeliverRemote DEF SendLoaded, RemoteOwned, FromWire
<1>4. ASSUME UNCHANGED <<inbox, loaded, buffered>>  PROVE RemoteOwned'
  BY <1>a, <1>4, FrameRemote
<1>. QED  BY <1>1, <1>2, <1>3, <1>4 DEF Remote, ReaderStep, ReadCheck, ReadEnd, ReadRequest,
             ReaderCloses, ReaderDone, CloseChan, closeFrame, mapVars, readerVars

LEMMA WriterRemote ==
  ASSUME RemoteOwned, WriterStep
  PROVE  RemoteOwned'
<1>a. UNCHANGED <<answers, inbox, loaded>> /\ wire \subseteq wire'
  BY DEF WriterStep, WriterTake, WriterSeesClosed, WriteOK, WriteFail, NotifyLoad, NotifySend,
     WriterFail, Transmit, writerFrame, callVars, readerVars
<1>1. CASE NotifyLoad
  <2>1. \A l \in wloaded' : l.resp.src = "local"
    BY <1>1 DEF NotifyLoad
  <2>2. UNCHANGED buffered
    BY <1>1 DEF NotifyLoad, mapVars
  <2>. QED  BY <1>a, <2>1, <2>2 DEF RemoteOwned, FromWire
<1>2. CASE NotifySend
  BY <1>a, <1>2, DeliverRemote DEF NotifySend, RemoteOwned, FromWire
<1>3. ASSUME UNCHANGED <<wloaded, buffered>>  PROVE RemoteOwned'
  BY <1>a, <1>3, FrameRemote
<1>. QED  BY <1>1, <1>2, <1>3 DEF WriterStep, WriterTake, WriterSeesClosed, WriteOK, WriteFail,
             WriterFail, mapVars

LEMMA RemoteStep == TypeInv /\ RemoteOwned /\ [Next]_vars => RemoteOwned'
<1> SUFFICES ASSUME TypeInv, RemoteOwned, [Next]_vars  PROVE RemoteOwned'
  OBVIOUS
<1>1. ASSUME NEW o \in Ops, RegisterObject(o) \/ UnregisterObject(o)  PROVE RemoteOwned'
  BY <1>1, FrameRemote DEF RegisterObject, UnregisterObject, registerFrame, mapVars, readerVars,
     writerVars
<1>2. ASSUME NEW m \in Incoming, HandlerStep(m)  PROVE RemoteOwned'
  BY <1>2, FrameRemote DEF HandlerStep, Handle, Reply, DropReply, handlerFrame, callVars,
     mapVars, readerVars, writerVars
<1>3. CASE CloseChan \/ CloseStep
  BY <1>3, FrameRemote DEF CloseChan, CloseStep, DisposeAll, RangeClose, RangeDelete, RangeDone,
     closeFrame, callVars, mapVars, readerVars, writerVars
<1>4. CASE UNCHANGED vars
  BY <1>4, FrameRemote DEF vars, callVars, mapVars, readerVars, writerVars
<1>. QED  BY <1>1, <1>2, <1>3, <1>4, OpRemote, ReaderRemote, WriterRemote DEF Next

\* What PhaseOf says of an operation, as the steps below need it.
Started(o) == pc[o] # "new" /\ kind[o] # "register"

PhaseTable ==
    \A o \in Ops :
        /\ ~Started(o) => PhaseOf(o) = "idle"
        /\ Started(o) /\ outcome[o] = "refused" => PhaseOf(o) = "rejected"
        /\ Started(o) /\ outcome[o] = "none" => PhaseOf(o) = "open"
        /\ Started(o) /\ outcome[o] = "answered" =>
             IF ids[o] = {} THEN PhaseOf(o) = "accepted"
             ELSE PhaseOf(o) = IF FullyAnswered(o) THEN "succeeded" ELSE "failed"
        /\ Started(o) /\ outcome[o] \in {"closed", "timeout"} => PhaseOf(o) = "failed"

LEMMA Phases == PhaseTable
<1> SUFFICES ASSUME NEW o \in Ops
             PROVE  /\ ~Started(o) => PhaseOf(o) = "idle"
                    /\ Started(o) /\ outcome[o] = "refused" => PhaseOf(o) = "rejected"
                    /\ Started(o) /\ outcome[o] = "none" => PhaseOf(o) = "open"
                    /\ Started(o) /\ outcome[o] = "answered" =>
                         IF ids[o] = {} THEN PhaseOf(o) = "accepted"
                         ELSE PhaseOf(o) = IF FullyAnswered(o) THEN "succeeded" ELSE "failed"
                    /\ Started(o) /\ outcome[o] \in {"closed", "timeout"} => PhaseOf(o) = "failed"
  BY DEF PhaseTable
<1>1. ~Started(o) => PhaseOf(o) = "idle"
  BY DEF PhaseOf, Started
<1>2. Started(o) /\ outcome[o] = "refused" => PhaseOf(o) = "rejected"
  BY DEF PhaseOf, Started
<1>3. Started(o) /\ outcome[o] = "none" => PhaseOf(o) = "open"
  BY DEF PhaseOf, Started
<1>4. ASSUME Started(o), outcome[o] = "answered", ids[o] = {}  PROVE PhaseOf(o) = "accepted"
  BY <1>4 DEF PhaseOf, Started
<1>5. ASSUME Started(o), outcome[o] = "answered", ids[o] # {}, FullyAnswered(o)
      PROVE  PhaseOf(o) = "succeeded"
  BY <1>5 DEF PhaseOf, Started
<1>6. ASSUME Started(o), outcome[o] = "answered", ids[o] # {}, ~FullyAnswered(o)
      PROVE  PhaseOf(o) = "failed"
  BY <1>6 DEF PhaseOf, Started
<1>7. Started(o) /\ outcome[o] \in {"closed", "timeout"} => PhaseOf(o) = "failed"
  BY DEF PhaseOf, Started
<1>. QED  BY <1>1, <1>2, <1>3, <1>4, <1>5, <1>6, <1>7

LEMMA PhasesNext == PhaseTable'
  BY Phases, PTL

\* The operations whose requests are on the wire.
Sent == {e.op : e \in wire}

\* An operation whose answers are complete, and all of the remote, was sent.
LEMMA AnsweredWasSent ==
  RemoteOwned /\ ResponseMatchesCall =>
    \A o \in Ops : IsFiniteSet(ids[o]) /\ ids[o] # {} /\ FullyAnswered(o) => o \in Sent
<1> SUFFICES ASSUME RemoteOwned, ResponseMatchesCall, NEW o \in Ops,
                    IsFiniteSet(ids[o]), ids[o] # {}, FullyAnswered(o)
             PROVE  o \in Sent
  OBVIOUS
<1>1. answers[o] # {}
  BY FS_EmptySet DEF FullyAnswered
<1>2. PICK r \in answers[o] : r.src = "remote" /\ r.op = o
  BY <1>1 DEF FullyAnswered, ResponseMatchesCall
<1>3. [id |-> r.id, op |-> r.op] \in wire
  BY <1>2 DEF RemoteOwned, FromWire
<1>. QED  BY <1>2, <1>3 DEF Sent

LEMMA AnsweredWasSentNext ==
  (RemoteOwned /\ ResponseMatchesCall =>
    \A o \in Ops : IsFiniteSet(ids[o]) /\ ids[o] # {} /\ FullyAnswered(o) => o \in Sent)'
  BY AnsweredWasSent, PTL

\* The variables of RpcCalls, as the endpoint gives them values.
Phase == [o \in Ops |-> PhaseOf(o)]

LEMMA PhaseStays ==
  ASSUME NEW q, kind' = kind, pc'[q] = "new" <=> pc[q] = "new", outcome'[q] = outcome[q],
         ids'[q] = ids[q], answers'[q] = answers[q]
  PROVE  PhaseOf(q)' = PhaseOf(q)
  BY DEF PhaseOf, FullyAnswered

LEMMA StutterCalls ==
  ASSUME wire' = wire, \A q \in Ops : PhaseOf(q)' = PhaseOf(q)
  PROVE  UNCHANGED Calls!vars
  BY DEF Calls!vars

\* One operation moves on and the wire stays: a step of RpcCalls, or none.
LEMMA MoveCalls ==
  ASSUME NEW o \in Ops, wire' = wire, \A q \in Ops \ {o} : PhaseOf(q)' = PhaseOf(q),
         \/ PhaseOf(o)' = PhaseOf(o)
         \/ PhaseOf(o) = "idle" /\ PhaseOf(o)' \in {"rejected", "open", "accepted"}
         \/ PhaseOf(o) = "open" /\ PhaseOf(o)' \in {"accepted", "failed"}
         \/ PhaseOf(o) = "open" /\ PhaseOf(o)' = "succeeded" /\ o \in Sent
  PROVE  [Calls!Next]_(Calls!vars)
<1>1. CASE PhaseOf(o)' = PhaseOf(o)
  BY <1>1, StutterCalls
<1>2. ASSUME NEW from, NEW to, PhaseOf(o) \in from, PhaseOf(o)' = to
      PROVE  Calls!Move(o, from, to)
  BY <1>2 DEF Calls!Move
<1>3. \/ Calls!Reject(o) \/ Calls!Open(o) \/ Calls!Accept(o) \/ Calls!Fail(o)
      \/ Calls!Succeed(o) \/ PhaseOf(o)' = PhaseOf(o)
  BY <1>2 DEF Calls!Reject, Calls!Open, Calls!Accept, Calls!Fail, Calls!Succeed, Sent
<1>. QED  BY <1>1, <1>3 DEF Calls!Next

LEMMA OpCalls ==
  ASSUME PeerInv, (PeerInv /\ RemoteOwned)', NEW o \in Ops, StartOp(o) \/ OpStep(o)
  PROVE  [Calls!Next]_(Calls!vars)
<1>a. wire' = wire /\ kind' = kind
  BY DEF StartOp, OpStep, Refuse, EmptyBatch, Begin, StorePending, Enqueue, SeeClosed,
     TimeOut, Receive, ReceiveNil, Cleanup, opFrame, writerVars
<1>b. \A q \in Ops \ {o} : /\ pc'[q] = pc[q] /\ outcome'[q] = outcome[q]
                           /\ ids'[q] = ids[q] /\ answers'[q] = answers[q]
  <2> USE DEF PeerInv, TypeInv, TypeOK, CallsTypeOK, Finish
  <2>1. CASE Receive(o)
    <3>1. PICK i \in Lowest(todo[o]), b \in buffered :
            /\ answers' = [answers EXCEPT ![o] = @ \cup {b.resp}]
            /\ Collected(o, i)
      BY <2>1 DEF Receive
    <3>. QED  BY <2>1, <3>1 DEF Receive, Collected
  <2>2. CASE ReceiveNil(o)
    <3>1. UNCHANGED <<pc, outcome>> \/ \E i \in todo[o] : Collected(o, i)
      BY <2>2 DEF ReceiveNil, Lowest
    <3>2. UNCHANGED <<ids, answers>>
      BY <2>2 DEF ReceiveNil
    <3>. QED  BY <3>1, <3>2 DEF Collected
  <2>3. CASE StartOp(o)
    BY <2>3 DEF StartOp, Refuse, EmptyBatch, Begin
  <2>4. CASE StorePending(o)
    <3>1. UNCHANGED pc \/ pc' = [pc EXCEPT ![o] = "enqueue"]
      BY <2>4 DEF StorePending
    <3>. QED  BY <2>4, <3>1 DEF StorePending
  <2>6. CASE Enqueue(o) \/ Cleanup(o)
    BY <2>6 DEF Enqueue, Cleanup
  <2>5. CASE SeeClosed(o) \/ TimeOut(o)
    BY <2>5 DEF SeeClosed, TimeOut
  <2>. QED  BY <2>1, <2>2, <2>3, <2>4, <2>5, <2>6 DEF OpStep
<1>c. \A q \in Ops \ {o} : PhaseOf(q)' = PhaseOf(q)
  BY <1>a, <1>b, PhaseStays
<1>d. UNCHANGED Sent
  BY <1>a DEF Sent
<1>e. ASSUME pc'[o] = "new" <=> pc[o] = "new", outcome'[o] = outcome[o],
             ids'[o] = ids[o], answers'[o] = answers[o]
      PROVE  PhaseOf(o)' = PhaseOf(o)
  BY <1>a, <1>e, PhaseStays
<1>f. pc[o] \in {"new", "store", "enqueue", "await"} => outcome[o] = "none"
  BY DEF PeerInv, CallInv, LifeInv, AnsweredSoFar
<1>g. pc[o] = "new" => ids[o] = {}
  BY DEF PeerInv, TypeInv, Begun
<1>h. pc[o] \in {"store", "enqueue", "await", "cleanup"} => Started(o)
  BY DEF PeerInv, TypeInv, Begun, Started
<1> USE <1>a, <1>f, <1>g, <1>h, Phases, PhasesNext
      DEF PeerInv, TypeInv, TypeOK, CallsTypeOK, Finish
<1>1. CASE Refuse(o)
  <2>1. PhaseOf(o) = "idle" /\ PhaseOf(o)' = "rejected"
    BY <1>1 DEF Refuse, PhaseTable, Started
  <2>. QED  BY <1>c, <2>1, MoveCalls
<1>2. CASE EmptyBatch(o)
  <2>1. PhaseOf(o) = "idle" /\ PhaseOf(o)' = "accepted"
    BY <1>2 DEF EmptyBatch, PhaseTable, Started
  <2>. QED  BY <1>c, <2>1, MoveCalls
<1>3. ASSUME NEW n \in Sizes(kind[o]), Begin(o, n)  PROVE [Calls!Next]_(Calls!vars)
  <2>1. kind[o] # "register"
    BY <1>3 DEF Sizes
  <2>2. PhaseOf(o) = "idle" /\ PhaseOf(o)' = "open"
    BY <1>3, <2>1 DEF Begin, PhaseTable, Started
  <2>. QED  BY <1>c, <2>2, MoveCalls
<1>4. CASE StorePending(o)
  BY <1>4, <1>c, <1>e, MoveCalls DEF StorePending
<1>5. CASE Enqueue(o)
  <2>1. PhaseOf(o) = "open" /\ PhaseOf(o)' \in {"open", "accepted"}
    BY <1>5 DEF Enqueue, PhaseTable, Started
  <2>. QED  BY <1>c, <2>1, MoveCalls
<1>6. CASE SeeClosed(o)
  <2>1. PhaseOf(o) = "open" /\ PhaseOf(o)' = "failed"
    BY <1>6 DEF SeeClosed, WatchesClose, PhaseTable, Started
  <2>. QED  BY <1>c, <2>1, MoveCalls
<1>7. CASE TimeOut(o)
  <2>1. PhaseOf(o) = "open" /\ PhaseOf(o)' = "failed"
    BY <1>7 DEF TimeOut, PhaseTable, Started
  <2>. QED  BY <1>c, <2>1, MoveCalls
<1>8. CASE Receive(o) \/ ReceiveNil(o)
  <2>1. /\ pc[o] = "await" /\ pc'[o] # "new" /\ ids'[o] = ids[o] /\ ids[o] # {}
        /\ outcome'[o] \in {"none", "answered"}
    BY <1>8 DEF Receive, ReceiveNil, Collected, Lowest, Begun
  <2>2. PhaseOf(o) = "open"
    BY <2>1 DEF PhaseTable
  <2>3. Started(o)'
    BY <2>1 DEF Started
  <2>4. \/ PhaseOf(o)' \in {"open", "failed"}
        \/ PhaseOf(o)' = "succeeded" /\ FullyAnswered(o)'
    BY <2>1, <2>3 DEF PhaseTable
  <2>5. ASSUME FullyAnswered(o)'  PROVE o \in Sent'
    <3>1. (IsFiniteSet(ids[o]) /\ ids[o] # {} /\ RemoteOwned /\ ResponseMatchesCall)'
      BY <2>1 DEF Drawn, CallInv, OwnInv
    <3>. QED  BY <2>5, <3>1, AnsweredWasSentNext
  <2>. QED  BY <1>c, <1>d, <2>2, <2>4, <2>5, MoveCalls
<1>9. CASE Cleanup(o)
  BY <1>9, <1>c, <1>e, MoveCalls DEF Cleanup
<1>. QED  BY <1>1, <1>2, <1>3, <1>4, <1>5, <1>6, <1>7, <1>8, <1>9 DEF StartOp, OpStep


\* A request reaches the wire: it is the one writeLoop holds, and its operation was
\* not sent before.
LEMMA TransmitCalls ==
  ASSUME PeerInv, RemoteOwned, Transmit, wpc = "writing", UNCHANGED callVars
  PROVE  [Calls!Next]_(Calls!vars)
<1>a. \A q \in Ops : PhaseOf(q)' = PhaseOf(q)
  BY PhaseStays DEF callVars
<1>1. CASE wire' = wire
  BY <1>a, <1>1, StutterCalls
<1>2. ASSUME wire' # wire
      PROVE  \E x \in witem : x.kind # "reply" /\ x.ids # {}
  BY <1>2 DEF Transmit
<1>3. ASSUME NEW x \in witem, x.kind # "reply", x.ids # {}  PROVE Calls!Send(x.op)
  <2>1. x.op \in Ops /\ x.ids = ids[x.op] /\ x.kind = kind[x.op] /\ Held(x.op)
    BY <1>3, ItemTypes DEF PeerInv, SendInv, QueueFaithful, Faithful, Held, Of
  <2>2. x.op \notin Sent
    BY <2>1 DEF PeerInv, SendInv, MovesOn, SentBy, Sent
  <2>3. Sent' = Sent \cup {x.op}
    <3>1. \A q \in witem : q = x
      BY DEF PeerInv, SendInv, OneHeld
    <3>2. wire' = wire \cup {[id |-> i, op |-> x.op] : i \in x.ids}
      BY <1>3, <3>1 DEF Transmit
    <3>3. PICK i \in x.ids : [id |-> i, op |-> x.op] \in wire'
      BY <1>3, <3>2
    <3>4. \A e \in wire' : e \in wire \/ e.op = x.op
      BY <3>2
    <3>. QED  BY <3>2, <3>3, <3>4 DEF Sent
  <2>4. PhaseOf(x.op) \in {"open", "failed"}
    <3>1. Started(x.op)
      <4>1. pc[x.op] # "new"
        BY <2>1 DEF PeerInv, SendInv, MovesOn, Unqueued
      <4>2. x.kind \in {"call", "batch", "notify"}
        BY <1>3 DEF PeerInv, TypeInv, TypeOK, WriterTypeOK, Requests, Replies
      <4>. QED  BY <2>1, <4>1, <4>2 DEF Started
    <3>2. ids[x.op] # {} /\ IsFiniteSet(ids[x.op]) /\ outcome[x.op] # "refused"
      BY <1>3, <2>1 DEF PeerInv, Drawn
    <3>3. ~FullyAnswered(x.op)
      BY <2>1, <2>2, <3>2, AnsweredWasSent DEF PeerInv, CallInv, OwnInv
    <3>4. outcome[x.op] \in {"none", "refused", "closed", "timeout", "answered"}
      BY <2>1 DEF PeerInv, TypeInv, TypeOK, CallsTypeOK
    <3>. QED  BY <2>1, <3>1, <3>2, <3>3, <3>4, Phases DEF PhaseTable
  <2>5. [o \in Ops |-> PhaseOf(o)]' = [o \in Ops |-> PhaseOf(o)]
    BY <1>a
  <2>. QED  BY <2>1, <2>2, <2>3, <2>4, <2>5 DEF Calls!Send, Sent
<1>4. ASSUME NEW x \in witem, x.kind # "reply"  PROVE x.op \in Ops
  BY <1>4, ItemTypes DEF PeerInv
<1>. QED  BY <1>1, <1>2, <1>3, <1>4 DEF Calls!Next

LEMMA WriterCalls ==
  ASSUME PeerInv, RemoteOwned, WriterStep
  PROVE  [Calls!Next]_(Calls!vars)
<1>a. UNCHANGED callVars
  BY DEF WriterStep, WriterTake, WriterSeesClosed, WriteOK, WriteFail, NotifyLoad, NotifySend,
     WriterFail, writerFrame
<1>1. CASE Transmit /\ wpc = "writing"
  BY <1>1, <1>a, TransmitCalls
<1>2. CASE UNCHANGED wire
  <2>1. \A q \in Ops : PhaseOf(q)' = PhaseOf(q)
    BY <1>a, PhaseStays DEF callVars
  <2>. QED  BY <1>2, <2>1, StutterCalls
<1>. QED  BY <1>1, <1>2 DEF WriterStep, WriterTake, WriterSeesClosed, WriteOK, WriteFail,
             NotifyLoad, NotifySend, WriterFail

LEMMA RegisterCalls ==
  ASSUME PeerInv, NEW o \in Ops, RegisterObject(o) \/ UnregisterObject(o)
  PROVE  UNCHANGED Calls!vars
<1>1. UNCHANGED <<kind, ids, answers, outcome, wire>>
  BY DEF RegisterObject, UnregisterObject, registerFrame, writerVars
<1>2. \A q \in Ops \ {o} : pc'[q] = pc[q]
  BY DEF RegisterObject, UnregisterObject, PeerInv, TypeInv, TypeOK, CallsTypeOK
<1>3. \A q \in Ops \ {o} : PhaseOf(q)' = PhaseOf(q)
  BY <1>1, <1>2, PhaseStays
<1>4. CASE pc[o] = "new"
  <2>1. kind[o] = "register"
    BY <1>4 DEF RegisterObject, UnregisterObject
  <2>. QED  BY <1>1, <1>3, <2>1, Phases, PhasesNext, StutterCalls DEF PhaseTable, Started
<1>5. CASE pc[o] # "new"
  <2>1. pc'[o] # "new"
    BY <1>5 DEF RegisterObject, UnregisterObject, PeerInv, TypeInv, TypeOK, CallsTypeOK
  <2>2. PhaseOf(o)' = PhaseOf(o)
    BY <1>1, <1>5, <2>1, PhaseStays
  <2>. QED  BY <1>1, <1>3, <2>2, StutterCalls
<1>. QED  BY <1>4, <1>5

LEMMA CallsInit == Init => Calls!Init
<1> SUFFICES ASSUME Init  PROVE Calls!Init
  OBVIOUS
<1>1. \A o \in Ops : ~Started(o)
  BY DEF Init, Started
<1>2. \A o \in Ops : PhaseOf(o) = "idle"
  BY <1>1, Phases DEF PhaseTable
<1>. QED  BY <1>2 DEF Init, Calls!Init

LEMMA CallsStep ==
  PeerInv /\ RemoteOwned /\ (PeerInv /\ RemoteOwned)' /\ [Next]_vars => [Calls!Next]_(Calls!vars)
<1> SUFFICES ASSUME PeerInv, RemoteOwned, (PeerInv /\ RemoteOwned)', [Next]_vars
             PROVE  [Calls!Next]_(Calls!vars)
  OBVIOUS
<1>a. ASSUME UNCHANGED <<callVars, writerVars>>  PROVE UNCHANGED Calls!vars
  <2>1. \A q \in Ops : PhaseOf(q)' = PhaseOf(q)
    BY <1>a, PhaseStays DEF callVars
  <2>. QED  BY <1>a, <2>1, StutterCalls DEF writerVars
<1>1. CASE Remote \/ ReaderStep
  BY <1>1, <1>a DEF Remote, ReaderStep, ReadCheck, ReadEnd, ReadRequest, ReadResponses,
     LoadPending, SendLoaded, ReaderCloses, ReaderDone, CloseChan, closeFrame, readerFrame
<1>2. ASSUME NEW m \in Incoming, HandlerStep(m)  PROVE UNCHANGED Calls!vars
  BY <1>2, <1>a DEF HandlerStep, Handle, Reply, DropReply, handlerFrame
<1>3. CASE CloseChan \/ CloseStep
  BY <1>3, <1>a DEF CloseChan, CloseStep, DisposeAll, RangeClose, RangeDelete, RangeDone,
     closeFrame
<1>4. CASE UNCHANGED vars
  BY <1>4, <1>a DEF vars
<1>. QED  BY <1>1, <1>2, <1>3, <1>4, OpCalls, RegisterCalls, WriterCalls DEF Next

\* The endpoint implements RpcCalls: an operation is sent once, ends once, and
\* succeeds only if the remote can have received it.
THEOREM RpcCallsImplemented == Spec => ImplementsRpcCalls
<1>1. Init => PeerInv /\ RemoteOwned
  BY InitPeer, InitRemote
<1>2. PeerInv /\ RemoteOwned /\ [Next]_vars => (PeerInv /\ RemoteOwned)'
  BY PeerStep, RemoteStep DEF PeerInv
<1>. QED  BY <1>1, <1>2, CallsInit, CallsStep, PTL DEF Spec, ImplementsRpcCalls, Calls!Spec

=============================================================================
