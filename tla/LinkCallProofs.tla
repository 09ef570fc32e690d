--------------------------- MODULE LinkCallProofs ---------------------------
(***************************************************************************)
(* What becomes of a request and of its response on a connection of Links: *)
(* the proof that answers go where they belong, that callbacks find their  *)
(* objects, and that Links implements RemoteCalls.                         *)
(***************************************************************************)
EXTENDS LinkProofs

\* The operations that RemoteCalls counts as asked for.
Begun(o) == pc[o] # "new" /\ outcome[o] # "refused"

\* Each end draws its ids from a counter of its own.
IdsUnique ==
    /\ \A o \in Ops : id[o] <= nextID[plan[o].end]
    /\ \A o, q \in Ops : plan[o].end = plan[q].end /\ id[o] = id[q] /\ id[o] > 0 => o = q

\* An operation that waits has no outcome, and an id if a response can come.
CallersOK == \A o \in Ops :
    /\ pc[o] # "done" => outcome[o] = "none"
    /\ Begun(o) /\ plan[o].kind # "notify" => id[o] > 0
    /\ o \in pending => pc[o] \in {"enqueue", "await"} /\ plan[o].kind # "notify"
    /\ outcome[o] = "answered" => served[o] > 0

HandlersOK == \A o \in Ops :
    /\ hpc[o] # "none" => Begun(o)
    /\ hpc[o] = "replying" => plan[o].kind # "notify"
    /\ hpc[o] \in {"none", "spawned"} => served[o] = 0
    /\ hpc[o] = "running" => served[o] > 0
    /\ served[o] <= 1

\* A message of end e: it carries the id of its operation, and a response that
\* reports success is of a request that has been run.
Proper(e, m) ==
    /\ Begun(m.op) /\ m.id = id[m.op]
    /\ m.type = "request" => plan[m.op].end = e
    /\ m.type = "response" =>
         /\ plan[m.op].end # e /\ plan[m.op].kind # "notify"
         /\ m.res = "ok" => served[m.op] > 0

Items(s) == {s[i] : i \in 1 .. Len(s)}
MessagesOK == \A e \in Ends : \A m \in Items(writeChan[e]) \cup Items(wire[e]) : Proper(e, m)

\* A request is in one place at a time: not sent, queued, under way, or received.
RequestAt(s, i, o) == s[i].type = "request" /\ s[i].op = o
Carries(s, o) == \E i \in 1 .. Len(s) : RequestAt(s, i, o)
Single(s, o) ==
    \A i, j \in 1 .. Len(s) : RequestAt(s, i, o) /\ RequestAt(s, j, o) => i = j

Once(e, o) ==
    /\ Single(writeChan[e], o) /\ Single(wire[e], o)
    /\ ~(Carries(writeChan[e], o) /\ Carries(wire[e], o))
    /\ hpc[o] # "none" \/ pc[o] \in {"new", "enqueue"} =>
         ~Carries(writeChan[e], o) /\ ~Carries(wire[e], o)
InOnePlace ==
    /\ \A o \in Ops : pc[o] \in {"new", "enqueue"} => hpc[o] = "none"
    /\ \A e \in Ends, o \in Ops : Once(e, o)

\* What is in a response channel.
LettersOK == \A o \in Ops : \A a \in answer[o] :
    a.from = o /\ (a.res = "ok" => served[o] > 0)

CallInv == /\ IdsUnique /\ CallersOK /\ HandlersOK /\ MessagesOK
           /\ InOnePlace /\ LettersOK

-----------------------------------------------------------------------------
(* The objects that calls are made on.                                      *)

ClosedIsCut == \A e \in Ends : closing[e] # "open" => e \in cut

\* A callback is begun by a handler of its parent, whose caller has registered the
\* object, and keeps it registered until it has returned or the end has closed.
ParentsBegun == \A o \in Ops :
    pc[o] # "new" => plan[o].kind # "none" /\ (plan[o].parent # NoOp => Begun(plan[o].parent))
KeptWhileCalling == \A o \in Ops :
    Begun(o) /\ Callbacks(o) # {} =>
        pc[o] = "done" \/ o \in registered \/ closing[plan[o].end] = "closed"

\* The caller that passed the object to q's handler has returned.
ParentReturned(q) == plan[q].parent # NoOp /\ pc[plan[q].parent] = "done"
Missed(e, q) == ParentReturned(q) \/ (plan[q].parent # NoOp /\ e \in cut)

MissesOK ==
    /\ \A e \in Ends, q \in Ops :
         hpc[q] \in {"replying", "done"} /\ served[q] = 0 /\ plan[q].end # e => Missed(e, q)
    /\ \A e \in Ends : \A m \in Items(writeChan[e]) :
         m.type = "response" /\ m.res = "missing" => Missed(e, m.op)
    /\ \A e \in Ends : \A m \in Items(wire[e]) :
         m.type = "response" /\ m.res = "missing" => ParentReturned(m.op)
    /\ \A q \in Ops : \A a \in answer[q] : a.res = "missing" => ParentReturned(q)
    /\ \A q \in Ops : outcome[q] = "missing" => ParentReturned(q)

ObjectInv == HandlersAway /\ ClosedIsCut /\ ParentsBegun /\ KeptWhileCalling /\ MissesOK

-----------------------------------------------------------------------------
(* Queues and streams as sequences.                                         *)

LEMMA Appended ==
  ASSUME NEW S, NEW s \in Seq(S), NEW m \in S
  PROVE  /\ Items(Append(s, m)) = Items(s) \cup {m}
         /\ \A o : Carries(Append(s, m), o) <=>
                    Carries(s, o) \/ (m.type = "request" /\ m.op = o)
         /\ \A o : /\ Single(s, o)
                   /\ m.type = "request" /\ m.op = o => ~Carries(s, o)
                   => Single(Append(s, m), o)
<1>. DEFINE t == Append(s, m)
<1>1. /\ Len(s) \in Nat /\ Len(t) = Len(s) + 1
      /\ \A i \in 1 .. Len(s) : t[i] = s[i]
      /\ t[Len(s) + 1] = m
  OBVIOUS
<1>. HIDE DEF t
<1>2. Items(t) = Items(s) \cup {m}
  BY <1>1 DEF Items
<1>3. ASSUME NEW o
      PROVE  Carries(t, o) <=> Carries(s, o) \/ (m.type = "request" /\ m.op = o)
  BY <1>1 DEF Carries, RequestAt
<1>4. ASSUME NEW o, Single(s, o), m.type = "request" /\ m.op = o => ~Carries(s, o)
      PROVE  Single(t, o)
  BY <1>1, <1>4 DEF Single, Carries, RequestAt
<1>. QED  BY <1>2, <1>3, <1>4 DEF t

LEMMA Taken ==
  ASSUME NEW S, NEW s \in Seq(S), s # <<>>, NEW t, t = Tail(s), NEW m, m = Head(s)
  PROVE  /\ Items(t) \subseteq Items(s) /\ m \in Items(s) /\ m \in S
         /\ \A o : Carries(t, o) => Carries(s, o)
         /\ \A o : m.type = "request" /\ m.op = o => Carries(s, o)
         /\ \A o : Single(s, o) => Single(t, o)
         /\ \A o : Single(s, o) /\ m.type = "request" /\ m.op = o => ~Carries(t, o)
<1>1. /\ Len(s) \in Nat \ {0} /\ Len(t) = Len(s) - 1
      /\ \A i \in 1 .. Len(t) : t[i] = s[i + 1]
      /\ m = s[1] /\ m \in S
  OBVIOUS
<1>2. /\ Items(t) \subseteq Items(s) /\ m \in Items(s)
      /\ \A o : Carries(t, o) => Carries(s, o)
      /\ \A o : m.type = "request" /\ m.op = o => Carries(s, o)
  BY <1>1 DEF Items, Carries, RequestAt
<1>3. ASSUME NEW o, Single(s, o)
      PROVE  /\ Single(t, o)
             /\ m.type = "request" /\ m.op = o => ~Carries(t, o)
  <2>1. ASSUME NEW i \in 1 .. Len(t)
        PROVE  /\ i + 1 \in 1 .. Len(s) /\ i + 1 # 1 /\ 1 \in 1 .. Len(s)
               /\ RequestAt(t, i, o) => RequestAt(s, i + 1, o)
    BY <1>1 DEF RequestAt
  <2>2. ASSUME NEW i \in 1 .. Len(t), NEW j \in 1 .. Len(t),
               RequestAt(t, i, o), RequestAt(t, j, o)
        PROVE  i = j
    <3>1. i + 1 = j + 1
      BY <1>3, <2>1, <2>2 DEF Single
    <3>. QED  BY <3>1
  <2>3. ASSUME m.type = "request", m.op = o, Carries(t, o)  PROVE FALSE
    <3>1. PICK i \in 1 .. Len(t) : RequestAt(t, i, o)
      BY <2>3 DEF Carries
    <3>2. RequestAt(s, 1, o)
      BY <1>1, <2>3 DEF RequestAt
    <3>. QED  BY <1>3, <2>1, <3>1, <3>2 DEF Single
  <2>. QED  BY <2>2, <2>3 DEF Single
<1>. QED  BY <1>1, <1>2, <1>3

\* A request in a queue or on the stream is found among its messages.
LEMMA Carried ==
  ASSUME NEW s, NEW o, Carries(s, o)
  PROVE  \E m \in Items(s) : m.type = "request" /\ m.op = o
  BY DEF Carries, RequestAt, Items

-----------------------------------------------------------------------------
(* CallInv is kept.                                                         *)

LEMMA CallInit == Init => CallInv
<1> SUFFICES ASSUME Init  PROVE CallInv
  OBVIOUS
<1>1. IdsUnique
  <2>1. ASSUME NEW o \in Ops  PROVE plan[o].end \in Ends
    BY DEF Init, Plans
  <2>. QED  BY <2>1 DEF Init, IdsUnique
<1>2. CallersOK /\ HandlersOK /\ LettersOK
  BY DEF Init, CallersOK, HandlersOK, LettersOK, Begun
<1>3. \A e \in Ends : writeChan[e] = <<>> /\ wire[e] = <<>>
  BY DEF Init
<1>4. MessagesOK
  BY <1>3 DEF MessagesOK, Items
<1>5. InOnePlace
  BY <1>3 DEF Init, InOnePlace, Once, Carries, Single
<1>. QED  BY <1>1, <1>2, <1>4, <1>5 DEF CallInv

LEMMA CallSame ==
  ASSUME CallInv, UNCHANGED <<plan, opVars, writeChan, wire, runVars>>
  PROVE  CallInv'
  BY DEF CallInv, IdsUnique, CallersOK, HandlersOK, MessagesOK, InOnePlace, Once, LettersOK,
     Begun, Proper, opVars, runVars

\* What a message says stays true of its operation.
Lasts(o) == /\ Begun(o) => Begun(o)' /\ id[o]' = id[o]
            /\ served[o] > 0 => served[o]' > 0
            /\ plan[o]' = plan[o]

LEMMA MessagesLast ==
  ASSUME TypeOK, MessagesOK, \A o \in Ops : Lasts(o),
         NEW e \in Ends, NEW m \in Messages, Proper(e, m)
  PROVE  Proper(e, m)'
<1>1. m.op \in Ops
  BY DEF Messages
<1>. QED  BY <1>1 DEF Proper, Lasts

LEMMA MessagesTyped ==
  ASSUME TypeOK, NEW e \in Ends
  PROVE  Items(writeChan[e]) \cup Items(wire[e]) \subseteq Messages
<1>1. writeChan[e] \in Seq(Messages) /\ wire[e] \in Seq(Messages)
  BY DEF TypeOK, StreamTypeOK
<1>. QED  BY <1>1 DEF Items

\* Where a step puts no new message, and takes none away but from the front.
LEMMA MessagesKept ==
  ASSUME TypeOK, MessagesOK, \A o \in Ops : Lasts(o),
         \A e \in Ends : Items(writeChan'[e]) \cup Items(wire'[e])
                           \subseteq Items(writeChan[e]) \cup Items(wire[e])
  PROVE  MessagesOK'
<1>1. ASSUME NEW e \in Ends, NEW m \in Items(writeChan'[e]) \cup Items(wire'[e])
      PROVE  Proper(e, m)'
  <2>1. m \in Messages /\ Proper(e, m)
    BY <1>1, MessagesTyped DEF MessagesOK
  <2>. QED  BY <2>1, MessagesLast
<1>. QED  BY <1>1 DEF MessagesOK

\* An operation returns, of whatever reason.
LEMMA CallReturn ==
  ASSUME TypeOK, CallInv, NEW o \in Ops, NEW r, Return(o, r),
         pc[o] # "done", pc[o] = "new" <=> r = "refused", r = "answered" => served[o] > 0,
         UNCHANGED <<plan, id, answer, nextID, writeChan, wire, runVars>>
  PROVE  CallInv'
<1> USE DEF Return, runVars
<1>t. pc \in [Ops -> {"new", "enqueue", "await", "done"}] /\ DOMAIN outcome = Ops
  BY DEF TypeOK, CallTypeOK
<1>1. /\ pc'[o] = "done" /\ outcome'[o] = r /\ o \notin pending'
      /\ \A q \in Ops \ {o} : pc'[q] = pc[q] /\ outcome'[q] = outcome[q]
                              /\ (q \in pending' => q \in pending)
      /\ \A q \in Ops : Begun(q)' <=> Begun(q)
  BY <1>t DEF CallInv, CallersOK, Begun
<1>2. IdsUnique' /\ LettersOK'
  BY DEF CallInv, IdsUnique, LettersOK
<1>3. CallersOK' /\ HandlersOK'
  BY <1>1 DEF CallInv, CallersOK, HandlersOK
<1>4. MessagesOK'
  BY <1>1, MessagesKept DEF CallInv, Lasts
<1>5. InOnePlace'
  BY <1>1 DEF CallInv, InOnePlace, Once
<1>. QED  BY <1>2, <1>3, <1>4, <1>5 DEF CallInv

LEMMA CallBegin ==
  ASSUME TypeOK, CallInv, NEW e \in Ends, NEW o \in Ops, NEW given, Begin(e, o, given)
  PROVE  CallInv'
<1> USE DEF Begin, Startable, Mine, opFrame, steady, runVars, linkVars
<1>t. /\ pc \in [Ops -> {"new", "enqueue", "await", "done"}]
      /\ id \in [Ops -> Nat] /\ nextID \in [Ends -> Nat]
  BY DEF TypeOK, CallTypeOK
<1>1. /\ pc[o] = "new" /\ pc'[o] = "enqueue" /\ outcome'[o] = "none" /\ Begun(o)' /\ ~Begun(o)
      /\ \A q \in Ops \ {o} : pc'[q] = pc[q] /\ outcome'[q] = outcome[q]
            /\ id'[q] = id[q] /\ (q \in pending' => q \in pending) /\ (Begun(q)' <=> Begun(q))
      /\ UNCHANGED <<plan, answer, writeChan, wire, hpc, served>>
  BY <1>t DEF CallInv, CallersOK, Begun
<1>2. IdsUnique'
  <2>1. CASE plan[o].kind = "notify"
    BY <2>1 DEF CallInv, IdsUnique
  <2>2. CASE plan[o].kind # "notify"
    <3>1. /\ id' = [id EXCEPT ![o] = nextID[e] + 1] /\ nextID' = [nextID EXCEPT ![e] = @ + 1]
          /\ plan[o].end = e
      BY <2>2 DEF FreshId
    <3>. QED  BY <1>t, <1>1, <3>1 DEF CallInv, IdsUnique
  <2>. QED  BY <2>1, <2>2
<1>3. CallersOK'
  BY <1>t, <1>1 DEF CallInv, CallersOK, FreshId
<1>4. HandlersOK'
  BY <1>1 DEF CallInv, HandlersOK
<1>5. MessagesOK'
  BY <1>1, MessagesKept DEF CallInv, Lasts
<1>6. InOnePlace'
  BY <1>1 DEF CallInv, InOnePlace, Once
<1>7. LettersOK'
  BY <1>1 DEF CallInv, LettersOK
<1>. QED  BY <1>2, <1>3, <1>4, <1>5, <1>6, <1>7 DEF CallInv

LEMMA Typed ==
  ASSUME TypeOK
  PROVE  /\ \A o \in Ops : /\ plan[o].end \in Ends /\ id[o] \in Nat /\ served[o] \in Nat
                           /\ plan[o].parent \in Ops \cup {NoOp}
         /\ DOMAIN plan = Ops /\ DOMAIN answer = Ops /\ DOMAIN hpc = Ops /\ DOMAIN served = Ops
         /\ DOMAIN pc = Ops /\ DOMAIN outcome = Ops
         /\ \A e \in Ends : writeChan[e] \in Seq(Messages) /\ wire[e] \in Seq(Messages)
         /\ DOMAIN writeChan = Ends /\ DOMAIN wire = Ends
  BY DEF TypeOK, CallTypeOK, StreamTypeOK, ServedTypeOK, Plans

\* A message joins the queue of an end: a response, or a request not sent before.
LEMMA CallQueue ==
  ASSUME TypeOK, CallInv, NEW e \in Ends, NEW m \in Messages, Proper(e, m)',
         writeChan' = [writeChan EXCEPT ![e] = Append(@, m)], wire' = wire,
         \A o \in Ops : Lasts(o),
         \A o \in Ops : /\ hpc[o] # "none" <=> hpc'[o] # "none"
                        /\ pc'[o] \in {"new", "enqueue"} => pc[o] \in {"new", "enqueue"},
         m.type = "request" => /\ pc[m.op] = "enqueue" /\ hpc[m.op] = "none"
                               /\ pc'[m.op] \notin {"new", "enqueue"}
  PROVE  MessagesOK' /\ InOnePlace'
<1>t. \A f \in Ends : writeChan[f] \in Seq(Messages) /\ wire[f] \in Seq(Messages)
  BY Typed
<1>m. m.op \in Ops
  BY DEF Messages
<1>1. /\ writeChan'[e] = Append(writeChan[e], m)
      /\ \A f \in Ends \ {e} : writeChan'[f] = writeChan[f]
      /\ \A f \in Ends : wire'[f] = wire[f]
  BY Typed
<1>2. MessagesOK'
  <2>1. ASSUME NEW f \in Ends, NEW k \in Items(writeChan'[f]) \cup Items(wire'[f])
        PROVE  Proper(f, k)'
    <3>1. CASE k = m /\ f = e
      BY <3>1
    <3>2. CASE k \in Items(writeChan[f]) \cup Items(wire[f])
      BY <3>2, MessagesLast, MessagesTyped DEF CallInv, MessagesOK
    <3>. QED  BY <1>1, <1>t, <2>1, <3>1, <3>2, Appended
  <2>. QED  BY <2>1 DEF MessagesOK
<1>3. ASSUME NEW f \in Ends, NEW o \in Ops  PROVE Once(f, o)'
  <2>1. Once(f, o)
    BY DEF CallInv, InOnePlace
  <2>2. CASE f # e
    BY <1>1, <2>1, <2>2 DEF Once
  <2>3. CASE f = e
    <3>1. m.type = "request" /\ m.op = o => ~Carries(writeChan[e], o) /\ ~Carries(wire[e], o)
      BY <1>m, <2>1, <2>3 DEF Once
    <3>2. /\ Single(writeChan'[e], o)
          /\ Carries(writeChan'[e], o) <=>
               Carries(writeChan[e], o) \/ (m.type = "request" /\ m.op = o)
      BY <1>t, <1>1, <2>1, <2>3, <3>1, Appended DEF Once
    <3>. QED  BY <1>1, <1>m, <2>1, <2>3, <3>1, <3>2 DEF Once
  <2>. QED  BY <2>2, <2>3
<1>4. \A o \in Ops : pc'[o] \in {"new", "enqueue"} => hpc'[o] = "none"
  BY DEF CallInv, InOnePlace
<1>. QED  BY <1>2, <1>3, <1>4 DEF InOnePlace

LEMMA CallEnqueue ==
  ASSUME TypeOK, CallInv, NEW e \in Ends, NEW o \in Ops, Enqueue(e, o)
  PROVE  CallInv'
<1> USE DEF Enqueue, Mine, opFrame, steady, runVars, linkVars, Return
<1>m. PICK m \in Messages : m = [type |-> "request", op |-> o, id |-> id[o]]
  BY Typed DEF Messages
<1>1. /\ pc[o] = "enqueue" /\ pc'[o] \in {"await", "done"} /\ outcome[o] = "none"
      /\ outcome'[o] \in {"none", "accepted"}
      /\ pc'[o] = "await" => outcome'[o] = "none" /\ plan[o].kind # "notify"
      /\ pc'[o] = "done" => o \notin pending'
      /\ plan[o].end = e /\ Begun(o)' /\ Begun(o)
      /\ \A q \in Ops \ {o} : pc'[q] = pc[q] /\ outcome'[q] = outcome[q] /\ (Begun(q)' <=> Begun(q))
      /\ pending' \subseteq pending
      /\ UNCHANGED <<plan, answer, wire, hpc, served, id, nextID>>
      /\ writeChan' = [writeChan EXCEPT ![e] = Append(@, m)]
  BY <1>m, Typed DEF CallInv, CallersOK, Begun
<1>2. m.type = "request" /\ m.op = o /\ m.id = id[o]
  BY <1>m
<1>3. Proper(e, m)'
  BY <1>1, <1>2 DEF Proper
<1>4. \A q \in Ops : Lasts(q)
  BY <1>1 DEF Lasts
<1>5. MessagesOK' /\ InOnePlace'
  <2>1. hpc[o] = "none"
    BY <1>1 DEF CallInv, InOnePlace
  <2>2. m.type = "request" => /\ pc[m.op] = "enqueue" /\ hpc[m.op] = "none"
                              /\ pc'[m.op] \notin {"new", "enqueue"}
    BY <1>1, <1>2, <2>1
  <2>3. \A q \in Ops : /\ hpc[q] # "none" <=> hpc'[q] # "none"
                       /\ pc'[q] \in {"new", "enqueue"} => pc[q] \in {"new", "enqueue"}
    BY <1>1
  <2>4. writeChan' = [writeChan EXCEPT ![e] = Append(@, m)] /\ wire' = wire
    BY <1>1
  <2>. QED  BY <1>3, <1>4, <2>2, <2>3, <2>4, CallQueue, Zenon
<1>6. IdsUnique' /\ LettersOK'
  BY <1>1 DEF CallInv, IdsUnique, LettersOK
<1>7. CallersOK' /\ HandlersOK'
  BY <1>1 DEF CallInv, CallersOK, HandlersOK
<1>. QED  BY <1>5, <1>6, <1>7 DEF CallInv

LEMMA CallRun ==
  ASSUME TypeOK, CallInv, NEW e \in Ends, NEW o \in Ops, Run(e, o) \/ Finish(e, o)
  PROVE  CallInv'
<1> USE DEF handlerFrame, steady, linkVars, opVars, AfterRun
<1>1. /\ hpc[o] \in {"spawned", "running"} /\ hpc'[o] \in {"running", "replying", "done"}
      /\ hpc'[o] = "replying" => plan[o].kind # "notify"
      /\ hpc'[o] = "running" => served'[o] = served[o] + 1 /\ hpc[o] = "spawned"
      /\ hpc'[o] # "running" => served'[o] = served[o]
      /\ \A q \in Ops \ {o} : hpc'[q] = hpc[q] /\ served'[q] = served[q]
      /\ UNCHANGED <<plan, pc, outcome, id, answer, shut, pending, nextID, wire, writeChan>>
  BY Typed DEF Run, Finish
<1>2. IdsUnique'
  BY <1>1 DEF CallInv, IdsUnique
<1>3. \A q \in Ops : served[q] > 0 => served'[q] > 0
  BY <1>1, Typed
<1>4. CallersOK' /\ LettersOK'
  BY <1>1, <1>3 DEF CallInv, CallersOK, LettersOK, Begun
<1>5. HandlersOK'
  BY <1>1, Typed DEF CallInv, HandlersOK, Begun
<1>6. MessagesOK'
  BY <1>1, <1>3, MessagesKept DEF CallInv, Lasts, Begun
<1>7. InOnePlace'
  BY <1>1 DEF CallInv, InOnePlace, Once
<1>. QED  BY <1>2, <1>4, <1>5, <1>6, <1>7 DEF CallInv

LEMMA CallReply ==
  ASSUME TypeOK, CallInv, NEW e \in Ends, NEW o \in Ops, Reply(e, o)
  PROVE  CallInv'
<1> USE DEF handlerFrame, steady, linkVars, opVars
<1>1. /\ hpc[o] = "replying" /\ hpc'[o] = "done" /\ plan[o].end # e
      /\ \A q \in Ops \ {o} : hpc'[q] = hpc[q]
      /\ UNCHANGED <<plan, pc, outcome, id, answer, shut, pending, nextID, wire, served>>
  BY Typed, OtherTypes DEF Reply
<1>2. IdsUnique' /\ CallersOK' /\ LettersOK' /\ HandlersOK'
  BY <1>1 DEF CallInv, IdsUnique, CallersOK, LettersOK, HandlersOK, Begun
<1>3. \A q \in Ops : Lasts(q)
  BY <1>1 DEF Lasts, Begun
<1>4. CASE UNCHANGED writeChan
  BY <1>1, <1>2, <1>3, <1>4, MessagesKept DEF CallInv, InOnePlace, Once
<1>5. CASE writeChan # writeChan'
  <2>1. PICK m \in Messages :
          m = [type |-> "response", op |-> o, id |-> id[o],
               res |-> IF served[o] > 0 THEN "ok" ELSE "missing"]
    <3>1. [type |-> "response", op |-> o, id |-> id[o],
           res |-> IF served[o] > 0 THEN "ok" ELSE "missing"] \in Messages
      BY Typed DEF Messages
    <3>. QED  BY <3>1
  <2>2. m.type # "request"
    BY <2>1
  <2>3. Proper(e, m)'
    BY <1>1, <2>1 DEF Proper, CallInv, HandlersOK, Begun
  <2>4. writeChan' = [writeChan EXCEPT ![e] = Append(@, m)] /\ wire' = wire
    BY <1>1, <1>5, <2>1 DEF Reply
  <2>5. \A q \in Ops : /\ hpc[q] # "none" <=> hpc'[q] # "none"
                       /\ pc'[q] \in {"new", "enqueue"} => pc[q] \in {"new", "enqueue"}
    BY <1>1
  <2>6. MessagesOK' /\ InOnePlace'
    BY <1>3, <2>2, <2>3, <2>4, <2>5, CallQueue, Zenon
  <2>. QED  BY <1>2, <2>6 DEF CallInv
<1>. QED  BY <1>4, <1>5

\* A response finds the channel of its own request, if that still waits.
LEMMA Delivered ==
  ASSUME TypeOK, CallInv, NEW e \in Ends, NEW m \in Messages, Proper(Other(e), m),
         m.type = "response", Deliver(e, m), NEW o \in Ops, NEW a \in answer'[o]
  PROVE  a \in answer[o] \/ (o = m.op /\ a = [from |-> o, res |-> m.res])
<1>1. CASE answer'[o] = answer[o]
  BY <1>1
<1>2. CASE answer'[o] # answer[o]
  <2>1. /\ o \in pending /\ plan[o].end = e /\ id[o] = m.id
        /\ answer'[o] = {[from |-> m.op, res |-> m.res]}
    BY <1>2 DEF Deliver
  <2>2. Begun(o) /\ plan[o].kind # "notify" /\ id[o] > 0
    BY <2>1 DEF CallInv, CallersOK, Begun
  <2>3. m.op \in Ops /\ plan[m.op].end = e /\ id[m.op] = id[o]
    BY <2>1, Typed, OtherEnd DEF Messages, Proper, Ends
  <2>4. m.op = o
    BY <2>1, <2>2, <2>3 DEF CallInv, IdsUnique
  <2>. QED  BY <2>1, <2>4
<1>. QED  BY <1>1, <1>2

LEMMA CallRead ==
  ASSUME TypeOK, CallInv, NEW e \in Ends, ReadMessage(e)
  PROVE  CallInv'
<1>. DEFINE f == Other(e)
<1>f. f \in Ends /\ f # e
  BY OtherTypes
<1>m. PICK m \in Messages : m = Head(wire[f]) /\ Proper(f, m) /\ m \in Items(wire[f])
  <2>1. wire[f] \in Seq(Messages) /\ wire[f] # <<>>
    BY <1>f, Typed DEF ReadMessage
  <2>2. Head(wire[f]) \in Items(wire[f]) /\ Head(wire[f]) \in Messages
    BY <2>1, Taken
  <2>. QED  BY <1>f, <2>2 DEF CallInv, MessagesOK
<1>. HIDE DEF f
<1>1. /\ UNCHANGED <<plan, pc, outcome, id, shut, pending, nextID, writeChan, served>>
      /\ wire'[f] = Tail(wire[f]) /\ \A g \in Ends \ {f} : wire'[g] = wire[g]
      /\ m.op \in Ops
  BY <1>f, <1>m, Typed DEF ReadMessage, steady, sendVars, f, Messages
<1>t. wire[f] \in Seq(Messages) /\ wire[f] # <<>>
  BY <1>f, Typed DEF ReadMessage, f
<1>s. /\ Items(wire'[f]) \subseteq Items(wire[f])
      /\ \A o : Carries(wire'[f], o) => Carries(wire[f], o)
      /\ \A o : m.type = "request" /\ m.op = o => Carries(wire[f], o)
      /\ \A o : Single(wire[f], o) => Single(wire'[f], o)
      /\ \A o : Single(wire[f], o) /\ m.type = "request" /\ m.op = o => ~Carries(wire'[f], o)
  <2>1. wire'[f] = Tail(wire[f]) /\ m = Head(wire[f])
    BY <1>1, <1>m
  <2>. QED  BY <1>t, <2>1, Taken
<1>2. IdsUnique' /\ CallersOK'
  BY <1>1 DEF CallInv, IdsUnique, CallersOK, Begun
<1>3. MessagesOK'
  <2>1. Items(wire'[f]) \subseteq Items(wire[f])
    BY <1>s
  <2>2. \A o \in Ops : Lasts(o)
    BY <1>1 DEF Lasts, Begun
  <2>3. \A g \in Ends : Items(writeChan'[g]) \cup Items(wire'[g])
                           \subseteq Items(writeChan[g]) \cup Items(wire[g])
    BY <1>1, <2>1
  <2>. QED  BY <2>2, <2>3, MessagesKept DEF CallInv
\* No end carries more of any request than before.
<1>4. ASSUME NEW g \in Ends, NEW o \in Ops
      PROVE  /\ Single(writeChan'[g], o) /\ Single(wire'[g], o)
             /\ Carries(writeChan'[g], o) <=> Carries(writeChan[g], o)
             /\ Carries(wire'[g], o) => Carries(wire[g], o)
  <2>1. Once(g, o)
    BY DEF CallInv, InOnePlace
  <2>2. CASE g # f
    BY <1>1, <2>1, <2>2 DEF Once
  <2>3. CASE g = f
    BY <1>1, <1>s, <2>1, <2>3 DEF Once
  <2>. QED  BY <2>2, <2>3
<1>5. CASE m.type = "request"
  <2>1. hpc' = [hpc EXCEPT ![m.op] = "spawned"] /\ UNCHANGED answer
    BY <1>5, <1>m DEF ReadMessage, f
  <2>2. Carries(wire[f], m.op)
    BY <1>5, <1>s
  <2>3. hpc[m.op] = "none" /\ pc[m.op] \notin {"new", "enqueue"} /\ ~Carries(writeChan[f], m.op)
    BY <1>f, <1>1, <2>2 DEF CallInv, InOnePlace, Once
  <2>4. ~Carries(wire'[f], m.op)
    <3>1. Single(wire[f], m.op)
      BY <1>f, <1>1 DEF CallInv, InOnePlace, Once
    <3>. QED  BY <1>5, <1>s, <3>1
  <2>5. ASSUME NEW g \in Ends, g # f  PROVE ~Carries(writeChan[g], m.op) /\ ~Carries(wire[g], m.op)
    <3>1. plan[m.op].end # g
      BY <1>5, <1>m, <2>5 DEF Proper
    <3>. QED  BY <2>5, <3>1, Carried DEF CallInv, MessagesOK, Proper
  <2>6. ASSUME NEW g \in Ends, NEW o \in Ops  PROVE Once(g, o)'
    BY <1>1, <1>4, <2>1, <2>3, <2>4, <2>5, Typed DEF CallInv, InOnePlace, Once
  <2>7. InOnePlace'
    BY <1>1, <2>1, <2>3, <2>6, Typed DEF CallInv, InOnePlace
  <2>8. HandlersOK' /\ LettersOK'
    BY <1>1, <1>m, <2>1, <2>3, Typed DEF CallInv, HandlersOK, LettersOK, Begun, Proper
  <2>. QED  BY <1>2, <1>3, <2>7, <2>8 DEF CallInv
<1>6. CASE m.type # "request"
  <2>1. UNCHANGED hpc /\ Deliver(e, m)
    BY <1>6, <1>m DEF ReadMessage, f
  <2>2. InOnePlace'
    BY <1>1, <1>4, <2>1 DEF CallInv, InOnePlace, Once
  <2>3. HandlersOK'
    BY <1>1, <2>1 DEF CallInv, HandlersOK, Begun
  <2>4. LettersOK'
    <3>1. m.type = "response"
      BY <1>6 DEF Messages
    <3>2. ASSUME NEW o \in Ops, NEW a \in answer'[o]
          PROVE  a.from = o /\ (a.res = "ok" => served[o] > 0)
      BY <1>m, <2>1, <3>1, <3>2, Delivered DEF f, CallInv, LettersOK, Proper
    <3>. QED  BY <1>1, <3>2 DEF LettersOK
  <2>. QED  BY <1>2, <1>3, <2>2, <2>3, <2>4 DEF CallInv
<1>. QED  BY <1>5, <1>6

\* writeLoop takes an item: it goes on the stream, or nowhere.
LEMMA CallDequeue ==
  ASSUME TypeOK, CallInv, NEW e \in Ends, writeChan[e] # <<>>,
         writeChan' = [writeChan EXCEPT ![e] = Tail(@)],
         \/ wire' = wire
         \/ wire' = [wire EXCEPT ![e] = Append(@, Head(writeChan[e]))],
         UNCHANGED <<plan, pc, outcome, id, hpc, served>>
  PROVE  MessagesOK' /\ InOnePlace'
<1>t. writeChan[e] \in Seq(Messages) /\ wire[e] \in Seq(Messages)
  BY Typed
<1>m. PICK m \in Messages : m = Head(writeChan[e])
  BY <1>t
<1>1. /\ writeChan'[e] = Tail(writeChan[e])
      /\ wire'[e] = wire[e] \/ wire'[e] = Append(wire[e], m)
      /\ \A f \in Ends \ {e} : writeChan'[f] = writeChan[f] /\ wire'[f] = wire[f]
  BY <1>m, Typed
<1>2. /\ Items(writeChan'[e]) \subseteq Items(writeChan[e]) /\ m \in Items(writeChan[e])
      /\ \A o : Carries(writeChan'[e], o) => Carries(writeChan[e], o)
      /\ \A o : m.type = "request" /\ m.op = o => Carries(writeChan[e], o)
      /\ \A o : Single(writeChan[e], o) => Single(writeChan'[e], o)
      /\ \A o : Single(writeChan[e], o) /\ m.type = "request" /\ m.op = o
                  => ~Carries(writeChan'[e], o)
  <2>1. writeChan'[e] = Tail(writeChan[e]) /\ m = Head(writeChan[e]) /\ writeChan[e] # <<>>
    BY <1>1, <1>m
  <2>2. writeChan[e] \in Seq(Messages)
    BY <1>t
  <2>. QED  BY ONLY <2>1, <2>2, Taken
<1>3. /\ Items(wire'[e]) \subseteq Items(wire[e]) \cup {m}
      /\ \A o : Carries(wire'[e], o) => Carries(wire[e], o) \/ (m.type = "request" /\ m.op = o)
      /\ \A o : Single(wire[e], o) /\ (m.type = "request" /\ m.op = o => ~Carries(wire[e], o))
                  => Single(wire'[e], o)
  <2>1. CASE wire'[e] = wire[e]
    BY <2>1
  <2>2. CASE wire'[e] = Append(wire[e], m)
    BY <1>t, <2>2, Appended
  <2>. QED  BY <1>1, <2>1, <2>2
<1>4. MessagesOK'
  <2>1. \A f \in Ends : Items(writeChan'[f]) \cup Items(wire'[f])
                         \subseteq Items(writeChan[f]) \cup Items(wire[f])
    BY <1>1, <1>2, <1>3
  <2>2. \A o \in Ops : Lasts(o)
    BY DEF Lasts, Begun
  <2>. QED  BY <2>1, <2>2, MessagesKept DEF CallInv
<1>5. ASSUME NEW f \in Ends, NEW o \in Ops  PROVE Once(f, o)'
  <2>1. Once(f, o)
    BY DEF CallInv, InOnePlace
  <2>2. CASE f # e
    BY <1>1, <2>1, <2>2 DEF Once
  <2>3. CASE f = e
    BY <1>2, <1>3, <2>1, <2>3 DEF Once
  <2>. QED  BY <2>2, <2>3
<1>6. \A o \in Ops : pc'[o] \in {"new", "enqueue"} => hpc'[o] = "none"
  BY DEF CallInv, InOnePlace
<1>. QED  BY <1>4, <1>5, <1>6 DEF InOnePlace

LEMMA CallWrite ==
  ASSUME TypeOK, CallInv, NEW e \in Ends,
         Write(e) \/ \E told, recorded, encodes : WriterGivesUp(e, told, recorded, encodes)
  PROVE  CallInv'
<1>1. /\ UNCHANGED <<plan, pc, outcome, id, shut, pending, nextID, hpc, served>>
      /\ writeChan[e] # <<>> /\ writeChan' = [writeChan EXCEPT ![e] = Tail(@)]
      /\ wire' = wire \/ wire' = [wire EXCEPT ![e] = Append(@, Head(writeChan[e]))]
  BY DEF Write, WriterGivesUp, Dequeue, writerFrame, steady, fixed, runVars
<1>2. MessagesOK' /\ InOnePlace'
  BY <1>1, CallDequeue
<1>3. IdsUnique' /\ CallersOK' /\ HandlersOK'
  BY <1>1 DEF CallInv, IdsUnique, CallersOK, HandlersOK, Begun
<1>4. LettersOK'
  <2>1. CASE UNCHANGED answer
    BY <1>1, <2>1 DEF CallInv, LettersOK
  <2>2. ASSUME NEW told, Told(e, told)  PROVE LettersOK'
    BY <1>1, <2>2 DEF Told, CallInv, LettersOK
  <2>. QED  BY <2>1, <2>2 DEF Write, WriterGivesUp
<1>. QED  BY <1>2, <1>3, <1>4 DEF CallInv

LEMMA CallWake ==
  ASSUME CallInv, NEW e \in Ends, NEW disposes, DisposeAndWake(e, disposes)
  PROVE  CallInv'
<1>1. /\ UNCHANGED <<plan, pc, outcome, id, answer, nextID, writeChan, wire, hpc, served>>
      /\ pending' \subseteq pending
  BY DEF DisposeAndWake, steady, sendVars, linkVars, runVars
<1>. QED  BY <1>1 DEF CallInv, IdsUnique, CallersOK, HandlersOK, MessagesOK, Proper, InOnePlace,
             Once, LettersOK, Begun

\* The handler of its parent makes a callback.
MayStart(o) ==
    plan[o].kind # "none" /\ (plan[o].parent # NoOp => hpc[plan[o].parent] = "running")

\* The operations that end: how, and what of.
Ended(o) == \E r :
    /\ Return(o, r) /\ pc[o] # "done" /\ (pc[o] = "new" <=> r = "refused")
    /\ pc[o] = "new" => MayStart(o)
    /\ r = "answered" => \E a \in answer[o] : a.res = "ok"
    /\ r = "missing" => \E a \in answer[o] : a.res = "missing"
    /\ UNCHANGED <<plan, id, answer, nextID, writeChan, wire, hpc, served, registered, closing, cut>>

LEMMA Endings ==
  ASSUME NEW e \in Ends, NEW o \in Ops,
         \/ \E given : Refuse(e, o, given)
         \/ EncodeFails(e, o) \/ SeeClosed(e, o) \/ TimeOut(e, o)
         \/ Receive(e, o) \/ (ReceiveNil(e, o) /\ plan[o].kind = "batch")
  PROVE  Ended(o)
<1> USE DEF opFrame, steady, fixed, linkVars, runVars, sendVars
<1>1. ASSUME NEW given, Refuse(e, o, given)  PROVE Ended(o)
  BY <1>1 DEF Refuse, Startable, Obtained, MayStart, Ended
<1>2. CASE EncodeFails(e, o)
  BY <1>2 DEF EncodeFails, Ended
<1>3. CASE SeeClosed(e, o)
  BY <1>3 DEF SeeClosed, Calling, Ended
<1>4. CASE TimeOut(e, o)
  BY <1>4 DEF TimeOut, Ended
<1>5. CASE Receive(e, o)
  <2>. DEFINE r(a) == CASE a.res = "ok" -> "answered" [] a.res = "missing" -> "missing"
                        [] OTHER -> "failed"
  <2>1. PICK a \in answer[o] : Return(o, r(a))
    BY <1>5 DEF Receive
  <2>2. /\ r(a) # "refused"
        /\ r(a) = "answered" => a.res = "ok"
        /\ r(a) = "missing" => a.res = "missing"
    OBVIOUS
  <2>. QED  BY <1>5, <2>1, <2>2 DEF Receive, Ended
<1>6. CASE ReceiveNil(e, o) /\ plan[o].kind = "batch"
  BY <1>6 DEF ReceiveNil, Ended
<1>. QED  BY <1>1, <1>2, <1>3, <1>4, <1>5, <1>6

LEMMA CallStep == TypeOK /\ CallInv /\ [Next]_vars => CallInv'
<1> SUFFICES ASSUME TypeOK, CallInv, [Next]_vars  PROVE CallInv'
  OBVIOUS
<1>1. CASE UNCHANGED <<plan, opVars, writeChan, wire, runVars>>
  BY <1>1, CallSame
<1>2. CASE LinkStep \/ \E o \in Ops : Register(o) \/ Unregister(o)
  BY <1>2, <1>1 DEF LinkStep, Serve, Established, GiveUp, AcceptStream, LoseConnection, Register,
     Unregister, steady, fixed, sendVars, linkVars
<1>3. ASSUME NEW e \in Ends, EndStep(e)  PROVE CallInv'
  <2>1. CASE ReadMessage(e)
    BY <2>1, CallRead
  <2>2. CASE Write(e) \/ \E told, recorded, encodes : WriterGivesUp(e, told, recorded, encodes)
    BY <2>2, CallWrite
  <2>3. ASSUME NEW disposes, DisposeAndWake(e, disposes)  PROVE CallInv'
    BY <2>3, CallWake
  <2>4. CASE \/ \E recorded : ReadEnds(e, recorded)
             \/ WriterStops(e) \/ CloseChan(e) \/ Crash(e)
    <3>1. UNCHANGED <<plan, opVars, writeChan, wire, runVars>>
      BY <2>4 DEF ReadEnds, WriterStops, WriterSeesClosed, WriterSeesCancelled, CloseChan, Crash,
         steady, fixed, sendVars, writerFrame, opVars, runVars
    <3>. QED  BY <3>1, <1>1
  <2>. QED  BY <1>3, <2>1, <2>2, <2>3, <2>4 DEF EndStep
<1>4. ASSUME NEW e \in Ends, NEW o \in Ops, OpStep(e, o)  PROVE CallInv'
  <2>1. CASE Ended(o)
    <3>1. PICK r : /\ Return(o, r) /\ pc[o] # "done" /\ (pc[o] = "new" <=> r = "refused")
                   /\ r = "answered" => \E a \in answer[o] : a.res = "ok"
                   /\ UNCHANGED <<plan, id, answer, nextID, writeChan, wire, hpc, served>>
      BY <2>1 DEF Ended
    <3>2. r = "answered" => served[o] > 0
      BY <3>1 DEF CallInv, LettersOK
    <3>. QED  BY <3>1, <3>2, CallReturn DEF runVars
  <2>2. ASSUME NEW given, Begin(e, o, given)  PROVE CallInv'
    BY <2>2, CallBegin
  <2>3. CASE Enqueue(e, o)  BY <2>3, CallEnqueue
  <2>4. CASE ReceiveNil(e, o)
    BY <2>1, <2>4, <1>1, Endings DEF ReceiveNil, steady, sendVars, opVars, runVars
  <2>5. CASE Run(e, o) \/ Finish(e, o)  BY <2>5, CallRun
  <2>6. CASE Reply(e, o)  BY <2>6, CallReply
  <2>. QED  BY <1>4, <2>1, <2>2, <2>3, <2>4, <2>5, <2>6, Endings DEF OpStep
<1>5. CASE Step
  BY <1>2, <1>3, <1>4, <1>5, Zenon DEF Step
<1>6. CASE UNCHANGED vars
  BY <1>1, <1>6 DEF vars, sendVars, linkVars
<1>. QED  BY <1>5, <1>6, Steps

\* What is known of every request and response, in every reachable state.
THEOREM CallsCorrect == Spec => []CallInv
<1>1. Init /\ []TypeOK /\ [][Next]_vars => []CallInv
  BY CallInit, CallStep, PTL
<1>. QED  BY <1>1, TypeCorrect, PTL DEF Spec

\* An operation is only ever given the response to its own request, although both ends
\* number theirs from 1 and share the connection (handleIncomingResponse).
THEOREM OwnAnswerCorrect == Spec => []OwnAnswer
<1>1. CallInv => OwnAnswer
  BY DEF CallInv, LettersOK, OwnAnswer
<1>. QED  BY <1>1, CallsCorrect, PTL

-----------------------------------------------------------------------------
(* ObjectInv is kept.                                                       *)

LEMMA ObjectInit == Init => ObjectInv
<1> SUFFICES ASSUME Init  PROVE ObjectInv
  OBVIOUS
<1>1. \A e \in Ends : Items(writeChan[e]) = {} /\ Items(wire[e]) = {}
  BY DEF Init, Items
<1>. QED  BY <1>1 DEF Init, ObjectInv, ClosedIsCut, ParentsBegun, KeptWhileCalling, MissesOK, Begun

\* What lasts: that a caller has returned, and that an end has left the stream.
Onward ==
    /\ plan' = plan /\ cut \subseteq cut'
    /\ \A o \in Ops : (pc[o] = "done" => pc'[o] = "done") /\ (Begun(o) => Begun(o)')

LEMMA MissesLast ==
  ASSUME TypeOK, Onward, NEW q \in Ops
  PROVE  /\ ParentReturned(q) => ParentReturned(q)'
         /\ \A e \in Ends : Missed(e, q) => Missed(e, q)'
  BY Typed DEF Onward, ParentReturned, Missed

\* The steps that are about the connection alone.
Elsewhere ==
    /\ UNCHANGED <<plan, pc, outcome, hpc, served, writeChan, wire, answer, registered>>
    /\ cut \subseteq cut'
    /\ \A e \in Ends : \/ closing'[e] = closing[e]
                       \/ closing[e] = "open" /\ closing'[e] = "streamEnded" /\ e \in cut'

LEMMA Connections ==
  ASSUME TypeOK,
         \/ UNCHANGED vars \/ LinkStep
         \/ \E e \in Ends : \/ \E recorded : ReadEnds(e, recorded)
                            \/ WriterStops(e) \/ CloseChan(e) \/ Crash(e)
                            \/ \E o \in Ops : ReceiveNil(e, o) /\ plan[o].kind # "batch"
  PROVE  Elsewhere
<1> USE DEF steady, fixed, opVars, sendVars, linkVars, endVars, runVars
<1>1. UNCHANGED <<plan, pc, outcome, hpc, served, writeChan, wire, answer, registered>>
  BY DEF vars, LinkStep, Serve, Established, GiveUp, AcceptStream, LoseConnection, StopReading,
     BeginClose, ReadEnds, WriterStops, WriterSeesClosed, WriterSeesCancelled, writerFrame,
     CloseChan, Crash, ReceiveNil
<1>2. \/ UNCHANGED closing /\ cut \subseteq cut'
      \/ \E e \in Ends : ~Closed(e) /\ BeginClose(e)
  BY DEF vars, LinkStep, Serve, Established, GiveUp, AcceptStream, LoseConnection, StopReading,
     ReadEnds, WriterStops, WriterSeesClosed, WriterSeesCancelled, writerFrame,
     CloseChan, Crash, Dies, ReceiveNil, Ends
<1>. QED  BY <1>1, <1>2 DEF Elsewhere, BeginClose, Closed, TypeOK, EndTypeOK

LEMMA ObjectElsewhere ==
  ASSUME TypeOK, ObjectInv, Elsewhere
  PROVE  ObjectInv'
<1>1. Onward
  BY DEF Onward, Elsewhere, Begun
<1>2. HandlersAway' /\ ClosedIsCut' /\ ParentsBegun'
  BY DEF Elsewhere, ObjectInv, HandlersAway, ClosedIsCut, ParentsBegun, Begun
<1>3. KeptWhileCalling'
  BY Typed DEF Elsewhere, ObjectInv, KeptWhileCalling, Begun, Callbacks
<1>4. MissesOK'
  BY <1>1, MissesLast, MessagesTyped DEF Elsewhere, ObjectInv, MissesOK, Messages
<1>. QED  BY <1>2, <1>3, <1>4 DEF ObjectInv

LEMMA ObjectRegister ==
  ASSUME TypeOK, ObjectInv, NEW o \in Ops, Register(o) \/ Unregister(o)
  PROVE  ObjectInv'
<1>1. /\ UNCHANGED <<plan, pc, outcome, hpc, served, writeChan, wire, answer, closing, cut>>
      /\ \A q \in Ops : q \in registered /\ q \notin registered' => pc[q] = "done"
  BY DEF Register, Unregister, steady, opVars, sendVars, linkVars, endVars, runVars
<1>2. Onward
  BY <1>1 DEF Onward, Begun
<1>3. HandlersAway' /\ ClosedIsCut' /\ ParentsBegun' /\ KeptWhileCalling'
  BY <1>1 DEF ObjectInv, HandlersAway, ClosedIsCut, ParentsBegun, KeptWhileCalling, Begun, Callbacks
<1>4. MissesOK'
  BY <1>1, <1>2, MissesLast, MessagesTyped DEF ObjectInv, MissesOK, Messages
<1>. QED  BY <1>3, <1>4 DEF ObjectInv

LEMMA ObjectEnded ==
  ASSUME TypeOK, CallInv, ObjectInv, NEW o \in Ops, Ended(o)
  PROVE  ObjectInv'
<1>1. PICK r : /\ Return(o, r) /\ pc[o] # "done" /\ (pc[o] = "new" <=> r = "refused")
               /\ pc[o] = "new" => MayStart(o)
               /\ r = "missing" => \E a \in answer[o] : a.res = "missing"
               /\ UNCHANGED <<plan, answer, writeChan, wire, hpc, served, registered, closing, cut>>
  BY DEF Ended
<1>2. /\ pc'[o] = "done" /\ outcome'[o] = r
      /\ \A q \in Ops \ {o} : pc'[q] = pc[q] /\ outcome'[q] = outcome[q]
      /\ \A q \in Ops : Begun(q)' <=> Begun(q)
  BY <1>1, Typed DEF Return, CallInv, CallersOK, Begun
<1>3. Onward
  BY <1>1, <1>2 DEF Onward
<1>4. HandlersAway' /\ ClosedIsCut'
  BY <1>1 DEF ObjectInv, HandlersAway, ClosedIsCut
<1>5. ParentsBegun'
  <2>1. pc[o] = "new" => /\ plan[o].kind # "none"
                         /\ plan[o].parent # NoOp => Begun(plan[o].parent)
    BY <1>1, Typed DEF MayStart, CallInv, HandlersOK
  <2>. QED  BY <1>1, <1>2, <2>1, Typed DEF ObjectInv, ParentsBegun
<1>6. KeptWhileCalling'
  BY <1>1, <1>2 DEF ObjectInv, KeptWhileCalling, Callbacks
<1>7. MissesOK'
  <2>1. r = "missing" => ParentReturned(o)'
    BY <1>1, <1>3, MissesLast DEF ObjectInv, MissesOK
  <2>. QED  BY <1>1, <1>2, <1>3, <2>1, MissesLast, MessagesTyped DEF ObjectInv, MissesOK, Messages
<1>. QED  BY <1>4, <1>5, <1>6, <1>7 DEF ObjectInv

LEMMA ObjectBegin ==
  ASSUME TypeOK, CallInv, ObjectInv, NEW e \in Ends, NEW o \in Ops, NEW given, Begin(e, o, given)
  PROVE  ObjectInv'
<1>1. /\ pc[o] = "new" /\ pc'[o] = "enqueue" /\ Startable(e, o, given) /\ MayStart(o)
      /\ \A q \in Ops \ {o} : pc'[q] = pc[q]
      /\ UNCHANGED <<plan, outcome, hpc, served, writeChan, wire, answer, registered, closing, cut>>
  BY Typed DEF Begin, Startable, Obtained, MayStart, opFrame, steady, runVars, linkVars
<1>2. Onward
  BY <1>1 DEF Onward, Begun
<1>3. HandlersAway' /\ ClosedIsCut'
  BY <1>1 DEF ObjectInv, HandlersAway, ClosedIsCut
<1>4. ParentsBegun'
  <2>1. plan[o].parent # NoOp => Begun(plan[o].parent)
    BY <1>1, Typed DEF MayStart, CallInv, HandlersOK
  <2>2. ASSUME NEW q \in Ops, pc'[q] # "new"
        PROVE  plan[q].kind # "none" /\ (plan[q].parent # NoOp => Begun(plan[q].parent))
    <3>1. CASE q = o
      BY <1>1, <2>1, <3>1 DEF MayStart
    <3>2. CASE q # o
      BY <1>1, <2>2, <3>2 DEF ObjectInv, ParentsBegun
    <3>. QED  BY <3>1, <3>2
  <2>. QED  BY <1>1, <1>2, <2>2, Typed DEF ParentsBegun, Onward
<1>5. KeptWhileCalling'
  BY <1>1 DEF ObjectInv, KeptWhileCalling, Callbacks, Begun, Startable
<1>6. MissesOK'
  BY <1>1, <1>2, MissesLast, MessagesTyped DEF ObjectInv, MissesOK, Messages
<1>. QED  BY <1>3, <1>4, <1>5, <1>6 DEF ObjectInv

LEMMA ObjectEnqueue ==
  ASSUME TypeOK, CallInv, ObjectInv, NEW e \in Ends, NEW o \in Ops, Enqueue(e, o)
  PROVE  ObjectInv'
<1>1. /\ pc[o] = "enqueue" /\ pc'[o] \in {"await", "done"} /\ outcome'[o] \in {"none", "accepted"}
      /\ outcome[o] = "none"
      /\ \A q \in Ops \ {o} : pc'[q] = pc[q] /\ outcome'[q] = outcome[q]
      /\ UNCHANGED <<plan, hpc, served, wire, answer, registered, closing, cut>>
  BY Typed DEF Enqueue, Return, opFrame, steady, runVars, linkVars, CallInv, CallersOK
<1>2. Onward
  BY <1>1 DEF Onward, Begun
<1>3. HandlersAway' /\ ClosedIsCut'
  BY <1>1 DEF ObjectInv, HandlersAway, ClosedIsCut
<1>4. ParentsBegun'
  BY <1>1, <1>2, Typed DEF Onward, ObjectInv, ParentsBegun
<1>5. KeptWhileCalling'
  BY <1>1 DEF ObjectInv, KeptWhileCalling, Callbacks, Begun
<1>6. \A f \in Ends : \A m \in Items(writeChan'[f]) :
        m \in Items(writeChan[f]) \/ m.type = "request"
  <2>1. PICK m : m = [type |-> "request", op |-> o, id |-> id[o]]
    OBVIOUS
  <2>2. writeChan' = [writeChan EXCEPT ![e] = Append(@, m)] /\ m \in Messages
    BY <2>1, Typed DEF Enqueue, Messages
  <2>3. Items(Append(writeChan[e], m)) = Items(writeChan[e]) \cup {m}
    BY <2>2, Typed, Appended
  <2>. QED  BY <2>1, <2>2, <2>3, Typed
<1>7. MissesOK'
  BY <1>1, <1>2, <1>6, MissesLast, MessagesTyped DEF ObjectInv, MissesOK, Messages
<1>. QED  BY <1>3, <1>4, <1>5, <1>7 DEF ObjectInv

\* A method that is not found has no object any more: its caller has returned, or the
\* end that runs it has left the stream before it disposed of the objects.
LEMMA ObjectRun ==
  ASSUME TypeOK, CallInv, ObjectInv, NEW e \in Ends, NEW o \in Ops, Run(e, o) \/ Finish(e, o)
  PROVE  ObjectInv'
<1>1. /\ hpc'[o] \in {"running", "replying", "done"} /\ plan[o].end # e
      /\ \/ served'[o] > 0
         \/ hpc[o] = "spawned" /\ ~Found(o)
      /\ \A q \in Ops \ {o} : hpc'[q] = hpc[q] /\ served'[q] = served[q]
      /\ UNCHANGED <<plan, pc, outcome, writeChan, wire, answer, registered, closing, cut>>
  BY Typed, OtherTypes DEF Run, Finish, AfterRun, handlerFrame, steady, opVars, linkVars, endVars,
     CallInv, HandlersOK
<1>2. Onward
  BY <1>1 DEF Onward, Begun
<1>3. HandlersAway' /\ ClosedIsCut' /\ ParentsBegun' /\ KeptWhileCalling'
  BY <1>1 DEF ObjectInv, HandlersAway, ClosedIsCut, ParentsBegun, KeptWhileCalling, Begun, Callbacks
<1>4. ASSUME hpc[o] = "spawned", ~Found(o)  PROVE Missed(e, o)
  <2>. DEFINE p == plan[o].parent
  <2>1. p \in Ops /\ p # NoOp /\ p \notin registered
    BY <1>4, Typed DEF Found
  <2>2. Begun(p) /\ o \in Callbacks(p)
    BY <1>4, <2>1 DEF CallInv, HandlersOK, ObjectInv, ParentsBegun, Begun, Callbacks
  <2>3. plan[p].end = e
    BY <1>1, <2>1, Typed DEF ObjectInv, HandlersAway, Ends
  <2>4. pc[p] = "done" \/ closing[e] = "closed"
    BY <2>1, <2>2, <2>3 DEF ObjectInv, KeptWhileCalling
  <2>. QED  BY <2>1, <2>4 DEF ObjectInv, ClosedIsCut, Missed, ParentReturned
<1>5. MissesOK'
  <2>1. ASSUME NEW f \in Ends, NEW q \in Ops, hpc'[q] \in {"replying", "done"}, served'[q] = 0,
               plan[q].end # f
        PROVE  Missed(f, q)'
    <3>1. CASE q = o
      <4>1. f = e
        BY <1>1, <2>1, <3>1, Typed DEF Ends
      <4>. QED  BY <1>1, <1>2, <1>4, <2>1, <3>1, <4>1, MissesLast
    <3>2. CASE q # o
      BY <1>1, <1>2, <2>1, <3>2, MissesLast DEF ObjectInv, MissesOK
    <3>. QED  BY <3>1, <3>2
  <2>. QED  BY <1>1, <1>2, <2>1, MissesLast, MessagesTyped DEF ObjectInv, MissesOK, Messages
<1>. QED  BY <1>3, <1>5 DEF ObjectInv

LEMMA ObjectReply ==
  ASSUME TypeOK, CallInv, ObjectInv, NEW e \in Ends, NEW o \in Ops, Reply(e, o)
  PROVE  ObjectInv'
<1>1. /\ hpc[o] = "replying" /\ hpc'[o] = "done" /\ plan[o].end # e
      /\ \A q \in Ops \ {o} : hpc'[q] = hpc[q]
      /\ UNCHANGED <<plan, pc, outcome, served, wire, answer, registered, closing, cut>>
  BY Typed, OtherTypes DEF Reply, handlerFrame, steady, opVars, linkVars, endVars
<1>2. Onward
  BY <1>1 DEF Onward, Begun
<1>3. HandlersAway' /\ ClosedIsCut' /\ ParentsBegun' /\ KeptWhileCalling'
  BY <1>1 DEF ObjectInv, HandlersAway, ClosedIsCut, ParentsBegun, KeptWhileCalling, Begun, Callbacks
<1>4. \A f \in Ends : \A m \in Items(writeChan'[f]) :
        \/ m \in Items(writeChan[f])
        \/ f = e /\ m.op = o /\ (m.res = "missing" => served[o] = 0)
  <2>1. CASE UNCHANGED writeChan
    BY <2>1
  <2>2. CASE writeChan' # writeChan
    <3>1. PICK m : m = [type |-> "response", op |-> o, id |-> id[o],
                        res |-> IF served[o] > 0 THEN "ok" ELSE "missing"]
      OBVIOUS
    <3>2. writeChan' = [writeChan EXCEPT ![e] = Append(@, m)]
      BY <2>2, <3>1 DEF Reply
    <3>3. m \in Messages /\ m.op = o /\ (m.res = "missing" => served[o] = 0)
      <4>1. [type |-> "response", op |-> o, id |-> id[o],
             res |-> IF served[o] > 0 THEN "ok" ELSE "missing"] \in Messages
        BY Typed DEF Messages
      <4>. QED  BY <3>1, <4>1, Typed
    <3>4. Items(Append(writeChan[e], m)) = Items(writeChan[e]) \cup {m}
      BY <3>3, Typed, Appended
    <3>. QED  BY <3>2, <3>3, <3>4, Typed
  <2>. QED  BY <2>1, <2>2
<1>5. Missed(e, o)' \/ served[o] # 0
  BY <1>1, <1>2, MissesLast DEF ObjectInv, MissesOK
<1>6. MissesOK'
  BY <1>1, <1>2, <1>4, <1>5, MissesLast, MessagesTyped DEF ObjectInv, MissesOK, Messages
<1>. QED  BY <1>3, <1>6 DEF ObjectInv

\* The end that writes has not left the stream, so a caller told on the stream that an
\* object is missing has returned.
LEMMA ObjectWrite ==
  ASSUME TypeOK, CallInv, ObjectInv, NEW e \in Ends,
         Write(e) \/ \E told, recorded, encodes : WriterGivesUp(e, told, recorded, encodes)
  PROVE  ObjectInv'
<1>1. /\ UNCHANGED <<plan, pc, outcome, hpc, served, registered, closing, cut>>
      /\ writeChan[e] # <<>> /\ writeChan' = [writeChan EXCEPT ![e] = Tail(@)]
      /\ \/ wire' = wire
         \/ /\ wire' = [wire EXCEPT ![e] = Append(@, Head(writeChan[e]))]
            /\ e \notin cut
  BY DEF Write, WriterGivesUp, Dequeue, writerFrame, steady, fixed, runVars
<1>2. Onward
  BY <1>1 DEF Onward, Begun
<1>3. HandlersAway' /\ ClosedIsCut' /\ ParentsBegun' /\ KeptWhileCalling'
  BY <1>1 DEF ObjectInv, HandlersAway, ClosedIsCut, ParentsBegun, KeptWhileCalling, Begun, Callbacks
<1>m. PICK m : m = Head(writeChan[e])
  OBVIOUS
<1>4. Items(Tail(writeChan[e])) \subseteq Items(writeChan[e]) /\ m \in Items(writeChan[e])
      /\ m \in Messages
  <2>1. writeChan[e] \in Seq(Messages) /\ writeChan[e] # <<>>
    BY <1>1, Typed
  <2>. QED  BY ONLY <2>1, <1>m, Taken
<1>5. \A f \in Ends : Items(writeChan'[f]) \subseteq Items(writeChan[f])
  BY <1>1, <1>4, Typed
<1>6. \A f \in Ends : \A k \in Items(wire'[f]) :
        \/ k \in Items(wire[f])
        \/ f = e /\ k = m /\ e \notin cut
  <2>1. CASE wire' = wire
    BY <2>1
  <2>2. CASE wire' = [wire EXCEPT ![e] = Append(@, m)] /\ e \notin cut
    <3>1. Items(Append(wire[e], m)) = Items(wire[e]) \cup {m}
      BY <1>4, Typed, Appended
    <3>. QED  BY <2>2, <3>1, Typed
  <2>. QED  BY <1>1, <1>m, <2>1, <2>2
<1>7. m.type = "response" /\ m.res = "missing" /\ e \notin cut => ParentReturned(m.op)
  BY <1>4 DEF ObjectInv, MissesOK, Missed
<1>8. \A q \in Ops : \A a \in answer'[q] : a \in answer[q] \/ a.res = "unsent"
  <2>1. CASE UNCHANGED answer
    BY <2>1
  <2>2. ASSUME NEW told, Told(e, told)
        PROVE  \A q \in Ops : \A a \in answer'[q] : a \in answer[q] \/ a.res = "unsent"
    BY <2>2 DEF Told
  <2>. QED  BY <2>1, <2>2 DEF Write, WriterGivesUp
<1>9. MissesOK'
  <2>1. ASSUME NEW f \in Ends, NEW k \in Items(writeChan'[f]),
               k.type = "response", k.res = "missing"
        PROVE  Missed(f, k.op)'
    BY <1>2, <1>5, <2>1, MissesLast, MessagesTyped DEF ObjectInv, MissesOK, Messages
  <2>2. ASSUME NEW f \in Ends, NEW k \in Items(wire'[f]), k.type = "response", k.res = "missing"
        PROVE  ParentReturned(k.op)'
    BY <1>2, <1>4, <1>6, <1>7, <2>2, MissesLast, MessagesTyped DEF ObjectInv, MissesOK, Messages
  <2>3. ASSUME NEW q \in Ops, NEW a \in answer'[q], a.res = "missing"
        PROVE  ParentReturned(q)'
    BY <1>2, <1>8, <2>3, MissesLast DEF ObjectInv, MissesOK
  <2>. QED  BY <1>1, <1>2, <2>1, <2>2, <2>3, MissesLast DEF ObjectInv, MissesOK
<1>. QED  BY <1>3, <1>9 DEF ObjectInv

LEMMA ObjectRead ==
  ASSUME TypeOK, CallInv, ObjectInv, NEW e \in Ends, ReadMessage(e)
  PROVE  ObjectInv'
<1>. DEFINE f == Other(e)
<1>f. f \in Ends /\ f # e
  BY OtherTypes
<1>t. wire[f] \in Seq(Messages) /\ wire[f] # <<>>
  BY <1>f, Typed DEF ReadMessage
<1>m. PICK m : m = Head(wire[f])
  OBVIOUS
<1>1. Items(Tail(wire[f])) \subseteq Items(wire[f]) /\ m \in Items(wire[f]) /\ m \in Messages
  BY ONLY <1>t, <1>m, Taken
<1>2. /\ UNCHANGED <<plan, pc, outcome, served, writeChan, registered, closing, cut>>
      /\ wire' = [wire EXCEPT ![f] = Tail(@)]
      /\ m.type = "request" => hpc' = [hpc EXCEPT ![m.op] = "spawned"] /\ UNCHANGED answer
      /\ m.type # "request" => Deliver(e, m) /\ UNCHANGED hpc
  BY <1>m DEF ReadMessage, steady, sendVars, endVars
<1>3. Onward
  BY <1>2 DEF Onward, Begun
<1>4. HandlersAway' /\ ClosedIsCut' /\ ParentsBegun' /\ KeptWhileCalling'
  BY <1>2 DEF ObjectInv, HandlersAway, ClosedIsCut, ParentsBegun, KeptWhileCalling, Begun, Callbacks
<1>5. \A g \in Ends : Items(wire'[g]) \subseteq Items(wire[g])
  BY <1>1, <1>2, <1>f, Typed
<1>6. ASSUME NEW q \in Ops, NEW a \in answer'[q], a.res = "missing"
      PROVE  ParentReturned(q)
  <2>1. CASE a \in answer[q]
    BY <1>6, <2>1 DEF ObjectInv, MissesOK
  <2>2. CASE a \notin answer[q]
    <3>1. m.type = "response" /\ Deliver(e, m)
      BY <1>1, <1>2, <2>2 DEF Messages
    <3>2. Proper(Other(e), m)
      BY <1>1, <1>f DEF CallInv, MessagesOK
    <3>3. q = m.op /\ m.res = "missing"
      BY <1>1, <1>6, <2>2, <3>1, <3>2, Delivered
    <3>. QED  BY <1>1, <1>f, <3>1, <3>3 DEF ObjectInv, MissesOK
  <2>. QED  BY <2>1, <2>2
<1>7. \A q \in Ops : hpc'[q] \in {"replying", "done"} => hpc[q] = hpc'[q]
  BY <1>1, <1>2, Typed DEF Messages
<1>8. MissesOK'
  <2>1. ASSUME NEW g \in Ends, NEW k \in Items(wire'[g]), k.type = "response", k.res = "missing"
        PROVE  ParentReturned(k.op)'
    BY <1>3, <1>5, <2>1, MissesLast, MessagesTyped DEF ObjectInv, MissesOK, Messages
  <2>2. ASSUME NEW g \in Ends, NEW k \in Items(writeChan'[g]),
               k.type = "response", k.res = "missing"
        PROVE  Missed(g, k.op)'
    BY <1>2, <1>3, <2>2, MissesLast, MessagesTyped DEF ObjectInv, MissesOK, Messages
  <2>3. ASSUME NEW q \in Ops, NEW a \in answer'[q], a.res = "missing"
        PROVE  ParentReturned(q)'
    BY <1>3, <1>6, <2>3, MissesLast
  <2>. QED  BY <1>2, <1>3, <1>7, <2>1, <2>2, <2>3, MissesLast DEF ObjectInv, MissesOK
<1>. QED  BY <1>4, <1>8 DEF ObjectInv

\* Close disposes of the objects of an end, which has left the stream.
LEMMA ObjectWake ==
  ASSUME TypeOK, ObjectInv, NEW e \in Ends, NEW disposes, DisposeAndWake(e, disposes)
  PROVE  ObjectInv'
<1>1. /\ UNCHANGED <<plan, pc, outcome, hpc, served, writeChan, wire, answer, cut>>
      /\ closing[e] = "streamEnded" /\ closing'[e] = "closed"
      /\ \A f \in Ends \ {e} : closing'[f] = closing[f]
      /\ \A o \in Ops : o \in registered /\ o \notin registered' => plan[o].end = e
  BY DEF DisposeAndWake, steady, sendVars, linkVars, runVars, TypeOK, EndTypeOK
<1>2. Onward
  BY <1>1 DEF Onward, Begun
<1>3. HandlersAway' /\ ClosedIsCut' /\ ParentsBegun'
  BY <1>1 DEF ObjectInv, HandlersAway, ClosedIsCut, ParentsBegun, Begun
<1>4. KeptWhileCalling'
  BY <1>1, Typed DEF ObjectInv, KeptWhileCalling, Callbacks, Begun
<1>5. MissesOK'
  BY <1>1, <1>2, MissesLast, MessagesTyped DEF ObjectInv, MissesOK, Messages
<1>. QED  BY <1>3, <1>4, <1>5 DEF ObjectInv

LEMMA ObjectStep == TypeOK /\ CallInv /\ ObjectInv /\ [Next]_vars => ObjectInv'
<1> SUFFICES ASSUME TypeOK, CallInv, ObjectInv, [Next]_vars  PROVE ObjectInv'
  OBVIOUS
<1>1. CASE UNCHANGED vars \/ LinkStep
  BY <1>1, Connections, ObjectElsewhere
<1>2. ASSUME NEW e \in Ends, EndStep(e)  PROVE ObjectInv'
  <2>1. CASE \/ \E recorded : ReadEnds(e, recorded)
             \/ WriterStops(e) \/ CloseChan(e) \/ Crash(e)
    BY <2>1, Connections, ObjectElsewhere
  <2>. QED  BY <1>2, <2>1, ObjectRead, ObjectWrite, ObjectWake DEF EndStep
<1>3. ASSUME NEW e \in Ends, NEW o \in Ops, OpStep(e, o)  PROVE ObjectInv'
  <2>1. CASE ReceiveNil(e, o) /\ plan[o].kind # "batch"
    BY <2>1, Connections, ObjectElsewhere
  <2>. QED  BY <1>3, <2>1, Endings, ObjectEnded, ObjectBegin, ObjectEnqueue, ObjectRun, ObjectReply
            DEF OpStep
<1>. QED  BY <1>1, <1>2, <1>3, Steps, ObjectRegister DEF Step

\* What is known of the objects that callbacks are made on, in every reachable state.
THEOREM ObjectsCorrect == Spec => []ObjectInv
<1>1. Init /\ []TypeOK /\ []CallInv /\ [][Next]_vars => []ObjectInv
  BY ObjectInit, ObjectStep, PTL
<1>. QED  BY <1>1, TypeCorrect, CallsCorrect, PTL DEF Spec

\* A callback is told that its object does not exist only when the caller that passed
\* the object on has stopped waiting: Close ends the stream before it disposes.
THEOREM ObjectsOutliveTheStreamCorrect == Spec => []ObjectsOutliveTheStream
<1>1. ObjectInv => ObjectsOutliveTheStream
  BY DEF ObjectInv, MissesOK, ParentReturned, ObjectsOutliveTheStream
<1>. QED  BY <1>1, ObjectsCorrect, PTL

-----------------------------------------------------------------------------
(* Links implements RemoteCalls.                                            *)

LEMMA PromiseInit == Init => Promise!Init
  BY DEF Init, Promise!Init, VerdictOf

LEMMA PromiseSame ==
  ASSUME UNCHANGED <<pc, outcome, served>>
  PROVE  UNCHANGED Promise!vars
  BY DEF Promise!vars, VerdictOf

\* What each step is to RemoteCalls: the caller begins, is told, or the method runs.
LEMMA PromiseEnded ==
  ASSUME TypeOK, CallInv, NEW o \in Ops, Ended(o)
  PROVE  [Promise!Next]_Promise!vars
<1>1. PICK r : /\ Return(o, r) /\ pc[o] # "done" /\ (pc[o] = "new" <=> r = "refused")
               /\ r = "answered" => \E a \in answer[o] : a.res = "ok"
               /\ UNCHANGED served
  BY DEF Ended
<1>2. /\ outcome[o] = "none" /\ outcome'[o] = r /\ pc'[o] = "done"
      /\ \A q \in Ops \ {o} : pc'[q] = pc[q] /\ outcome'[q] = outcome[q]
  BY <1>1, Typed DEF Return, CallInv, CallersOK
<1>3. UNCHANGED {q \in Ops : pc[q] # "new" /\ outcome[q] # "refused"}
  BY <1>1, <1>2
<1>4. [q \in Ops |-> VerdictOf(q)]' = [[q \in Ops |-> VerdictOf(q)] EXCEPT ![o] = VerdictOf(o)']
  BY <1>2 DEF VerdictOf
<1>5. VerdictOf(o)' = "succeeded" => served[o] > 0
  BY <1>1, <1>2 DEF VerdictOf, CallInv, LettersOK
<1>6. CASE VerdictOf(o)' = "none"
  <2>1. UNCHANGED [q \in Ops |-> VerdictOf(q)]
    BY <1>2, <1>6 DEF VerdictOf
  <2>. QED  BY <1>1, <1>3, <2>1 DEF Promise!vars
<1>7. CASE VerdictOf(o)' # "none"
  <2>1. VerdictOf(o)' \in {"succeeded", "failed"}
    BY <1>7 DEF VerdictOf
  <2>2. PICK v \in {"succeeded", "failed"} : v = VerdictOf(o)'
    BY <2>1
  <2>3. Promise!Tell(o, v)
    BY <1>1, <1>2, <1>3, <1>4, <1>5, <2>2 DEF Promise!Tell, VerdictOf
  <2>. QED  BY <2>3 DEF Promise!Next
<1>. QED  BY <1>6, <1>7

LEMMA PromiseBegin ==
  ASSUME TypeOK, CallInv, NEW e \in Ends, NEW o \in Ops, NEW given, Begin(e, o, given)
  PROVE  [Promise!Next]_Promise!vars
<1>1. /\ pc[o] = "new" /\ pc'[o] = "enqueue" /\ outcome[o] = "none" /\ UNCHANGED <<outcome, served>>
      /\ \A q \in Ops \ {o} : pc'[q] = pc[q]
  BY Typed DEF Begin, Startable, opFrame, runVars, CallInv, CallersOK
<1>2. Promise!Ask(o)
  BY <1>1 DEF Promise!Ask, VerdictOf
<1>. QED  BY <1>2 DEF Promise!Next

LEMMA PromiseRun ==
  ASSUME TypeOK, CallInv, NEW e \in Ends, NEW o \in Ops, Run(e, o)
  PROVE  [Promise!Next]_Promise!vars
<1>1. UNCHANGED <<pc, outcome>> /\ hpc[o] = "spawned"
  BY DEF Run, handlerFrame, opVars
<1>2. CASE Found(o)
  <2>1. served' = [served EXCEPT ![o] = @ + 1] /\ served[o] = 0 /\ Begun(o)
    BY <1>1, <1>2 DEF Run, CallInv, HandlersOK
  <2>2. Promise!Run(o)
    BY <1>1, <2>1 DEF Promise!Run, VerdictOf, Begun
  <2>. QED  BY <2>2 DEF Promise!Next
<1>3. CASE ~Found(o)
  BY <1>1, <1>3, PromiseSame DEF Run
<1>. QED  BY <1>2, <1>3

LEMMA PromiseEnqueue ==
  ASSUME TypeOK, CallInv, NEW e \in Ends, NEW o \in Ops, Enqueue(e, o)
  PROVE  UNCHANGED Promise!vars
<1>1. /\ pc[o] = "enqueue" /\ pc'[o] \in {"await", "done"} /\ outcome[o] = "none"
      /\ outcome'[o] \in {"none", "accepted"} /\ UNCHANGED served
      /\ \A q \in Ops \ {o} : pc'[q] = pc[q] /\ outcome'[q] = outcome[q]
  BY Typed DEF Enqueue, Return, opFrame, runVars, CallInv, CallersOK
<1>2. UNCHANGED {q \in Ops : pc[q] # "new" /\ outcome[q] # "refused"}
  BY <1>1
<1>3. UNCHANGED [q \in Ops |-> VerdictOf(q)]
  BY <1>1 DEF VerdictOf
<1>. QED  BY <1>1, <1>2, <1>3 DEF Promise!vars

LEMMA PromiseStep == TypeOK /\ CallInv /\ [Next]_vars => [Promise!Next]_Promise!vars
<1> SUFFICES ASSUME TypeOK, CallInv, [Next]_vars  PROVE [Promise!Next]_Promise!vars
  OBVIOUS
<1> USE DEF steady, fixed, opVars, sendVars, linkVars, endVars, runVars, writerFrame, handlerFrame
<1>1. CASE UNCHANGED <<pc, outcome, served>>
  BY <1>1, PromiseSame
<1>2. CASE UNCHANGED vars \/ LinkStep
  BY <1>1, <1>2, Connections DEF Elsewhere
<1>3. CASE \E o \in Ops : Register(o) \/ Unregister(o)
  BY <1>1, <1>3 DEF Register, Unregister
<1>4. ASSUME NEW e \in Ends, EndStep(e)  PROVE [Promise!Next]_Promise!vars
  BY <1>1, <1>4 DEF EndStep, ReadMessage, ReadEnds, Write, WriterStops, WriterSeesClosed,
     WriterSeesCancelled, WriterGivesUp, CloseChan, DisposeAndWake, Crash
<1>5. ASSUME NEW e \in Ends, NEW o \in Ops, OpStep(e, o)  PROVE [Promise!Next]_Promise!vars
  <2>1. CASE (ReceiveNil(e, o) /\ plan[o].kind # "batch") \/ Finish(e, o) \/ Reply(e, o)
    BY <1>1, <2>1 DEF ReceiveNil, Finish, Reply
  <2>. QED  BY <1>5, <2>1, Endings, PromiseEnded, PromiseBegin, PromiseRun, PromiseEnqueue
            DEF OpStep
<1>. QED  BY <1>2, <1>3, <1>4, <1>5, Steps DEF Step

\* Whatever is lost or closed on the way, no request is run twice, and no caller is told
\* of a success that did not happen.
THEOREM RemoteCallsImplemented == Spec => ImplementsRemoteCalls
<1>1. Init /\ []TypeOK /\ []CallInv /\ [][Next]_vars => Promise!Spec
  BY PromiseInit, PromiseStep, PTL DEF Promise!Spec
<1>. QED  BY <1>1, TypeCorrect, CallsCorrect, PTL DEF Spec, ImplementsRemoteCalls

=============================================================================
