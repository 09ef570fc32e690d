--------------------------- MODULE DispatchProofs ---------------------------
(***************************************************************************)
(* Proofs about Dispatch, for any goroutines and batches: the types, and   *)
(* the references of the session.                                          *)
(*                                                                         *)
(* TypeOK is not inductive: that a worker stays within its batch also      *)
(* needs that it starts at the first entry and that it handles an entry    *)
(* only if it has one (Placed).                                            *)
(*                                                                         *)
(* References are distinct, disposed of once, and never denote another     *)
(* object.  GenerateRefID and AddLocalRef are two steps.  In between the   *)
(* reference is known to one goroutine only, so the invariant RefInv says  *)
(* of each worker about to register that its reference is new (Fresh) and  *)
(* of every two of them that they differ (FreshDistinct); both rest on the *)
(* counter being an upper bound of every reference (Counted).              *)
(***************************************************************************)
EXTENDS DispatchProperties, TLAPS

Placed ==
    \A w \in Workers : /\ pc[w] = "idle" => pos[w] = 1
                       /\ pc[w] \in {"handle", "call", "register"} => batch[w] # <<>>

TypeInv == TypeOK /\ Placed

\* The part of the types that belongs to the session.
SessionTypes ==
    /\ localRefs \in [Live -> Nat] /\ Live \subseteq Nat
    /\ refCounter \in Nat
    /\ disposed \subseteq Nat /\ twice \subseteq Nat

\* The part that belongs to the workers.
WorkerTypes ==
    /\ batch \in [Workers -> Seq(Entry)]
    /\ format \in [Workers -> {"json", "cbor"}]
    /\ pos \in [Workers -> Nat \ {0}]
    /\ pc \in [Workers -> {"idle", "next", "handle", "call", "register", "done"}]
    /\ name \in [Workers -> Nat] /\ held \in [Workers -> Nat]
    /\ out \in [Workers -> Seq(Reply)]
    /\ ran \in [Workers -> SUBSET [entry : Nat, obj : Nat]]

Within ==
    \A w \in Workers : pc[w] \notin {"idle", "done"} /\ batch[w] # <<>> =>
        pos[w] <= Len(batch[w])

LEMMA TypeParts == TypeInv <=> SessionTypes /\ WorkerTypes /\ Within /\ Placed
BY DEF TypeInv, TypeOK, SessionTypes, WorkerTypes, Within

LEMMA InitTypes == Init => TypeInv
<1> SUFFICES ASSUME Init PROVE TypeInv
  OBVIOUS
<1>1. SessionTypes
  BY DEF Init, SessionTypes, Live
<1>2. WorkerTypes
  BY DEF Init, WorkerTypes, Root
<1>3. Within /\ Placed
  BY DEF Init, Within, Placed
<1> QED BY <1>1, <1>2, <1>3, TypeParts

-----------------------------------------------------------------------------
(* A worker that is past Arrive and not done has a current entry.           *)

At(w) == pc[w] \in {"next", "handle", "call", "register"} /\ batch[w] # <<>>

LEMMA CurrentEntry ==
    ASSUME WorkerTypes, Within, NEW w \in Workers, At(w)
    PROVE  /\ pos[w] \in 1 .. Len(batch[w])
           /\ Cur(w) \in Entry
<1>1. batch[w] \in Seq(Entry) /\ pos[w] \in Nat \ {0}
  BY DEF WorkerTypes
<1>2. pos[w] \in 1 .. Len(batch[w])
  BY <1>1 DEF Within, At
<1>3. batch[w][pos[w]] \in Entry
  BY <1>1, <1>2
<1> QED BY <1>2, <1>3 DEF Cur

LEMMA EntryFields ==
    ASSUME NEW e \in Entry
    PROVE  e.id \in BOOLEAN /\ e.arg \in Nat
BY DEF Entry

\* The responses an iteration may append.
Appended(w, resps) ==
    resps = <<>> \/ \E r \in Reply : resps = <<r>> /\ r.entry = pos[w]

LEMMA ResponseType ==
    ASSUME WorkerTypes, Within, NEW w \in Workers, At(w),
           NEW v \in Outcomes, NEW n \in Nat, NEW o \in Nat
    PROVE  /\ Response(w, v, n, o) \in Reply
           /\ Response(w, v, n, o).entry = pos[w]
           /\ Response(w, v, n, o).val = v
           /\ Response(w, v, n, o).ref = n
           /\ Response(w, v, n, o).obj = o
           /\ Response(w, v, n, o).id = Cur(w).id
<1>1. pos[w] \in Nat /\ Cur(w).id \in BOOLEAN
  BY CurrentEntry, EntryFields
<1> QED BY <1>1 DEF Response, Reply

LEMMA PlainResponses ==
    ASSUME WorkerTypes, Within, NEW w \in Workers, At(w)
    PROVE  /\ \E r \in Reply : Errors(w) = <<r>> /\ r.entry = pos[w] /\ r.val # "ref"
           /\ \/ Success(w) = <<>>
              \/ \E r \in Reply : Success(w) = <<r>> /\ r.entry = pos[w] /\ r.val # "ref"
<1>1. 0 \in Nat /\ Root \in Nat /\ "error" \in Outcomes /\ "value" \in Outcomes
  BY DEF Root, Outcomes
<1>2. /\ Response(w, "error", 0, Root) \in Reply
      /\ Response(w, "error", 0, Root).entry = pos[w]
      /\ Response(w, "error", 0, Root).val = "error"
  BY <1>1, ResponseType
<1>3. /\ Response(w, "value", 0, Root) \in Reply
      /\ Response(w, "value", 0, Root).entry = pos[w]
      /\ Response(w, "value", 0, Root).val = "value"
  BY <1>1, ResponseType
<1> QED BY <1>2, <1>3 DEF Errors, Success

\* The frame of every step of w but Arrive: the batch and the format stay.
Stays == batch' = batch /\ format' = format

\* Advance keeps the types of the workers, given those of what it does not assign.
LEMMA AdvanceTypes ==
    ASSUME WorkerTypes, Within, Placed, NEW w \in Workers, At(w), Stays,
           NEW resps \in Seq(Reply), Advance(w, resps),
           name' \in [Workers -> Nat], held' \in [Workers -> Nat],
           ran' \in [Workers -> SUBSET [entry : Nat, obj : Nat]]
    PROVE  WorkerTypes' /\ Within' /\ Placed'
<1>1. /\ out' = [out EXCEPT ![w] = @ \o resps]
      /\ pos' = [pos EXCEPT ![w] = @ + 1]
      /\ pc' = [pc EXCEPT ![w] = IF pos[w] = Len(batch[w]) THEN "done" ELSE "next"]
  BY DEF Advance
<1>2. out[w] \o resps \in Seq(Reply)
  BY DEF WorkerTypes
<1>3. WorkerTypes'
  BY <1>1, <1>2 DEF WorkerTypes, Stays
<1>4. pos[w] \in 1 .. Len(batch[w]) /\ Len(batch[w]) \in Nat
  BY CurrentEntry DEF WorkerTypes
<1>5. Within'
  <2> SUFFICES ASSUME NEW v \in Workers, pc'[v] \notin {"idle", "done"}, batch[v] # <<>>
               PROVE  pos'[v] <= Len(batch[v])
    BY DEF Within, Stays
  <2>1. CASE v = w
    BY <2>1, <1>1, <1>4 DEF WorkerTypes
  <2>2. CASE v # w
    BY <2>2, <1>1 DEF WorkerTypes, Within
  <2> QED BY <2>1, <2>2
<1>6. Placed'
  <2> SUFFICES ASSUME NEW v \in Workers
               PROVE  /\ pc'[v] = "idle" => pos'[v] = 1
                      /\ pc'[v] \in {"handle", "call", "register"} => batch[v] # <<>>
    BY DEF Placed, Stays
  <2>1. CASE v = w
    BY <2>1, <1>1 DEF WorkerTypes
  <2>2. CASE v # w
    BY <2>2, <1>1 DEF WorkerTypes, Placed
  <2> QED BY <2>1, <2>2
<1> QED BY <1>3, <1>5, <1>6

\* A step of w that stays on its entry.
LEMMA MoveTypes ==
    ASSUME WorkerTypes, Within, Placed, NEW w \in Workers, At(w), Stays,
           NEW c \in {"handle", "call", "register"}, pc' = [pc EXCEPT ![w] = c],
           UNCHANGED <<pos, out>>,
           name' \in [Workers -> Nat], held' \in [Workers -> Nat],
           ran' \in [Workers -> SUBSET [entry : Nat, obj : Nat]]
    PROVE  WorkerTypes' /\ Within' /\ Placed'
<1>1. WorkerTypes'
  BY DEF WorkerTypes, Stays
<1>2. Within'
  BY CurrentEntry DEF WorkerTypes, Within, Stays
<1>3. Placed'
  BY DEF WorkerTypes, Placed, Stays, At
<1> QED BY <1>1, <1>2, <1>3

LEMMA ErrorsAreReplies ==
    ASSUME WorkerTypes, Within, NEW w \in Workers, At(w)
    PROVE  Errors(w) \in Seq(Reply) /\ Success(w) \in Seq(Reply)
<1>1. \A r \in Reply : <<r>> \in Seq(Reply)
  OBVIOUS
<1>2. <<>> \in Seq(Reply)
  OBVIOUS
<1>3. Errors(w) \in Seq(Reply)
  BY <1>1, PlainResponses, Zenon
<1>4. Success(w) \in Seq(Reply)
  BY <1>1, <1>2, PlainResponses, Zenon
<1> QED BY <1>3, <1>4

LEMMA HandlingAt ==
    ASSUME WorkerTypes, Placed, NEW w \in Workers, Handling(w)
    PROVE  At(w)
BY DEF Handling, At, Placed

-----------------------------------------------------------------------------
(* One lemma for each action: it keeps the types of the workers...          *)

LEMMA ArriveTypes ==
    ASSUME WorkerTypes, Within, Placed, NEW w \in Workers, Arrive(w)
    PROVE  WorkerTypes' /\ Within' /\ Placed'
<1>1. PICK b \in Batches[w] : batch' = [batch EXCEPT ![w] = b]
  BY DEF Arrive
<1>2. b \in Seq(Entry)
  BY BatchesAssumption
<1>3. /\ pc[w] = "idle" /\ pc' = [pc EXCEPT ![w] = "next"]
      /\ UNCHANGED <<format, pos, name, held, out, ran>>
  BY DEF Arrive
<1>4. WorkerTypes'
  BY <1>1, <1>2, <1>3 DEF WorkerTypes
<1>5. pos[w] = 1 /\ (b # <<>> => 1 <= Len(b))
  BY <1>2, <1>3 DEF Placed
<1>6. Within'
  BY <1>1, <1>2, <1>3, <1>5 DEF WorkerTypes, Within
<1>7. Placed'
  BY <1>1, <1>3 DEF WorkerTypes, Placed
<1> QED BY <1>4, <1>6, <1>7

LEMMA EmptyBatchTypes ==
    ASSUME WorkerTypes, Within, Placed, NEW w \in Workers, EmptyBatch(w)
    PROVE  WorkerTypes' /\ Within' /\ Placed'
<1> DEFINE r == [entry |-> 0, id |-> FALSE, val |-> "error", ref |-> 0, obj |-> Root]
<1>1. r \in Reply
  BY DEF Reply, Outcomes, Root
<1>2. <<r>> \in Seq(Reply)
  BY <1>1
<1>3. /\ out' = [out EXCEPT ![w] = <<r>>]
      /\ pc' = [pc EXCEPT ![w] = "done"] /\ batch[w] = <<>>
      /\ UNCHANGED <<batch, format, pos, name, held, ran>>
  BY DEF EmptyBatch
<1> HIDE DEF r
<1>4. WorkerTypes'
  BY <1>2, <1>3 DEF WorkerTypes
<1>5. Within' /\ Placed'
  BY <1>3 DEF WorkerTypes, Within, Placed
<1> QED BY <1>4, <1>5

LEMMA ResolveLocalTypes ==
    ASSUME WorkerTypes, Within, Placed, NEW w \in Workers, ResolveLocal(w)
    PROVE  WorkerTypes' /\ Within' /\ Placed'
<1>1. At(w) /\ Stays /\ UNCHANGED <<held, ran>>
  BY DEF ResolveLocal, At, Stays
<1>2. ran' \in [Workers -> SUBSET [entry : Nat, obj : Nat]]
  BY <1>1 DEF WorkerTypes
<1>3. held' \in [Workers -> Nat]
  BY <1>1 DEF WorkerTypes
<1>4. CASE Resolvable(w, Cur(w).arg)
  <2>1. /\ name' = [name EXCEPT ![w] = Named(w, Cur(w).arg).ref]
        /\ pc' = [pc EXCEPT ![w] = "handle"] /\ UNCHANGED <<pos, out>>
    BY <1>4 DEF ResolveLocal
  <2>2. Cur(w).arg \in Nat
    BY <1>1, CurrentEntry, EntryFields
  <2>3. Named(w, Cur(w).arg).ref \in Nat
    <3>1. Cur(w).arg < Len(out[w])
      BY <1>4 DEF Resolvable
    <3>2. out[w] \in Seq(Reply)
      BY DEF WorkerTypes
    <3>3. out[w][Cur(w).arg + 1] \in Reply
      BY <2>2, <3>1, <3>2
    <3> QED BY <3>3 DEF Named, Reply
  <2>4. name' \in [Workers -> Nat]
    BY <2>1, <2>3 DEF WorkerTypes
  <2> QED BY <1>1, <1>2, <1>3, <2>1, <2>4, MoveTypes
<1>5. CASE ~Resolvable(w, Cur(w).arg)
  <2>1. Advance(w, Errors(w)) /\ name' = name
    BY <1>5 DEF ResolveLocal
  <2>2. name' \in [Workers -> Nat]
    BY <2>1 DEF WorkerTypes
  <2> QED BY <1>1, <1>2, <1>3, <2>1, <2>2, ErrorsAreReplies, AdvanceTypes
<1> QED BY <1>4, <1>5

\* A step of w that answers its entry at once and leaves name, held and ran alone.
LEMMA AnswerTypes ==
    ASSUME WorkerTypes, Within, Placed, NEW w \in Workers, Handling(w),
           Stays, UNCHANGED <<name, held, ran>>,
           Advance(w, Errors(w)) \/ Advance(w, Success(w))
    PROVE  WorkerTypes' /\ Within' /\ Placed'
<1>1. At(w) /\ Errors(w) \in Seq(Reply) /\ Success(w) \in Seq(Reply)
  BY HandlingAt, ErrorsAreReplies
<1>2. /\ name' \in [Workers -> Nat] /\ held' \in [Workers -> Nat]
      /\ ran' \in [Workers -> SUBSET [entry : Nat, obj : Nat]]
  BY DEF WorkerTypes
<1> QED BY <1>1, <1>2, AdvanceTypes

LEMMA AtOnceTypes ==
    ASSUME WorkerTypes, Within, Placed, NEW w \in Workers,
           MissingMethod(w) \/ Dispose(w) \/ DisposeAll(w) \/ Introspect(w)
    PROVE  WorkerTypes' /\ Within' /\ Placed'
<1>1. Handling(w) /\ Stays /\ UNCHANGED <<name, held, ran>>
  BY DEF MissingMethod, Dispose, DisposeAll, Introspect, Stays
<1>2. Advance(w, Errors(w)) \/ Advance(w, Success(w))
  BY DEF MissingMethod, Dispose, DisposeAll, Introspect
<1> QED BY <1>1, <1>2, AnswerTypes

LEMMA LookUpTypes ==
    ASSUME SessionTypes, WorkerTypes, Within, Placed, NEW w \in Workers, LookUp(w)
    PROVE  WorkerTypes' /\ Within' /\ Placed'
<1>1. Handling(w) /\ Stays /\ UNCHANGED <<name, ran>>
  BY DEF LookUp, Stays
<1>2. /\ At(w) /\ name' \in [Workers -> Nat]
      /\ ran' \in [Workers -> SUBSET [entry : Nat, obj : Nat]]
  BY <1>1, HandlingAt DEF WorkerTypes
<1>3. CASE Target(w) \in Live
  <2>1. /\ held' = [held EXCEPT ![w] = localRefs[Target(w)]]
        /\ pc' = [pc EXCEPT ![w] = "call"] /\ UNCHANGED <<pos, out>>
    BY <1>3 DEF LookUp
  <2>2. held' \in [Workers -> Nat]
    BY <1>3, <2>1 DEF WorkerTypes, SessionTypes
  <2> QED BY <1>1, <1>2, <2>1, <2>2, MoveTypes
<1>4. CASE Target(w) \notin Live
  <2>1. Advance(w, Errors(w)) /\ held' = held
    BY <1>4 DEF LookUp
  <2> QED BY <1>1, <2>1, AnswerTypes
<1> QED BY <1>3, <1>4

LEMMA CallRootTypes ==
    ASSUME WorkerTypes, Within, Placed, NEW w \in Workers, CallRoot(w)
    PROVE  WorkerTypes' /\ Within' /\ Placed'
<1>1. /\ Handling(w) /\ Stays /\ UNCHANGED <<name, ran, pos, out>>
      /\ held' = [held EXCEPT ![w] = Root] /\ pc' = [pc EXCEPT ![w] = "call"]
  BY DEF CallRoot, Stays
<1>2. /\ name' \in [Workers -> Nat] /\ held' \in [Workers -> Nat]
      /\ ran' \in [Workers -> SUBSET [entry : Nat, obj : Nat]]
  BY <1>1 DEF WorkerTypes, Root
<1> QED BY <1>1, <1>2, HandlingAt, MoveTypes

LEMMA CallMethodTypes ==
    ASSUME SessionTypes, WorkerTypes, Within, Placed, NEW w \in Workers, CallMethod(w)
    PROVE  WorkerTypes' /\ Within' /\ Placed'
<1>1. /\ At(w) /\ Stays /\ held' = held
      /\ ran' = [ran EXCEPT ![w] = @ \cup {[entry |-> pos[w], obj |-> held[w]]}]
  BY DEF CallMethod, At, Stays, Placed
<1>2. /\ held' \in [Workers -> Nat]
      /\ ran' \in [Workers -> SUBSET [entry : Nat, obj : Nat]]
  <2>1. [entry |-> pos[w], obj |-> held[w]] \in [entry : Nat, obj : Nat]
    BY DEF WorkerTypes
  <2>2. \A v \in Workers : ran'[v] \subseteq ran[v] \cup {[entry |-> pos[w], obj |-> held[w]]}
    BY <1>1
  <2> QED BY <1>1, <2>1, <2>2 DEF WorkerTypes
<1>3. CASE Cur(w).id /\ ReturnsObject(w)
  <2>1. /\ name' = [name EXCEPT ![w] = NextRef]
        /\ pc' = [pc EXCEPT ![w] = "register"] /\ UNCHANGED <<pos, out>>
    BY <1>3 DEF CallMethod
  <2>2. name' \in [Workers -> Nat]
    BY <2>1 DEF WorkerTypes, SessionTypes, NextRef
  <2> QED BY <1>1, <1>2, <2>1, <2>2, MoveTypes
<1>4. CASE ~(Cur(w).id /\ ReturnsObject(w))
  <2>1. (Advance(w, Errors(w)) \/ Advance(w, Success(w))) /\ name' = name
    BY <1>4 DEF CallMethod
  <2>2. name' \in [Workers -> Nat]
    BY <2>1 DEF WorkerTypes
  <2> QED BY <1>1, <1>2, <2>1, <2>2, ErrorsAreReplies, AdvanceTypes
<1> QED BY <1>3, <1>4

\* What Register stores and answers.
Stored(w) == IF Cur(w).does = "self" THEN held[w] ELSE name[w]
Answer(w) == IF Cur(w).does = "garble" THEN Errors(w)
             ELSE <<Response(w, "ref", name[w], Stored(w))>>

LEMMA RegisterParts ==
    ASSUME NEW w \in Workers, Register(w)
    PROVE  /\ pc[w] = "register" /\ AddLocalRef(name[w], Stored(w)) /\ Advance(w, Answer(w))
           /\ Stays /\ UNCHANGED <<name, held, ran, refCounter, disposed, twice>>
BY DEF Register, Stored, Answer, Stays

LEMMA RegisterTypes ==
    ASSUME WorkerTypes, Within, Placed, NEW w \in Workers, Register(w)
    PROVE  WorkerTypes' /\ Within' /\ Placed'
<1>1. At(w)
  BY RegisterParts DEF At, Placed
<1>2. name[w] \in Nat /\ Stored(w) \in Nat /\ "ref" \in Outcomes
  BY DEF WorkerTypes, Stored, Outcomes
<1>3. <<Response(w, "ref", name[w], Stored(w))>> \in Seq(Reply)
  <2>1. Response(w, "ref", name[w], Stored(w)) \in Reply
    BY <1>1, <1>2, ResponseType
  <2> QED BY <2>1
<1>4. Answer(w) \in Seq(Reply)
  BY <1>1, <1>3, ErrorsAreReplies DEF Answer
<1>5. /\ name' \in [Workers -> Nat] /\ held' \in [Workers -> Nat]
      /\ ran' \in [Workers -> SUBSET [entry : Nat, obj : Nat]]
  BY RegisterParts DEF WorkerTypes
<1> QED BY <1>1, <1>4, <1>5, RegisterParts, AdvanceTypes

-----------------------------------------------------------------------------
(* ... and the types of the session.                                        *)

LEMMA RemoveRefsTypes ==
    ASSUME SessionTypes, NEW S \in SUBSET Live, RemoveRefs(S), refCounter' = refCounter
    PROVE  SessionTypes'
BY DEF SessionTypes, RemoveRefs, Live

LEMMA AddLocalRefTypes ==
    ASSUME SessionTypes, NEW r \in Nat, NEW o \in Nat, AddLocalRef(r, o),
           UNCHANGED <<refCounter, disposed, twice>>
    PROVE  SessionTypes'
BY DEF SessionTypes, AddLocalRef, Live

\* What a step of a worker does to the session.
LEMMA SessionSteps ==
    ASSUME NEW w \in Workers, Arrive(w) \/ Step(w)
    PROVE  \/ UNCHANGED sessionVars
           \/ Register(w)
           \/ CallMethod(w) /\ refCounter' = NextRef /\ UNCHANGED <<localRefs, disposed, twice>>
           \/ (\E S \in SUBSET Live : RemoveRefs(S)) /\ refCounter' = refCounter
<1>1. CASE Dispose(w)
  BY <1>1 DEF Dispose, sessionVars
<1>2. CASE DisposeAll(w)
  BY <1>2 DEF DisposeAll
<1>3. CASE CallMethod(w)
  BY <1>3 DEF CallMethod, sessionVars
<1>4. CASE Arrive(w) \/ EmptyBatch(w) \/ ResolveLocal(w) \/ MissingMethod(w)
  BY <1>4 DEF Arrive, EmptyBatch, ResolveLocal, MissingMethod
<1>5. CASE LookUp(w) \/ CallRoot(w) \/ Introspect(w)
  BY <1>5 DEF LookUp, CallRoot, Introspect
<1> QED BY <1>1, <1>2, <1>3, <1>4, <1>5 DEF Step

LEMMA StepSessionTypes ==
    ASSUME SessionTypes, WorkerTypes, NEW w \in Workers, Arrive(w) \/ Step(w)
    PROVE  SessionTypes'
<1>1. CASE UNCHANGED sessionVars
  BY <1>1 DEF SessionTypes, sessionVars, Live
<1>2. CASE Register(w)
  <2>1. name[w] \in Nat /\ Stored(w) \in Nat
    BY DEF WorkerTypes, Stored
  <2> QED BY <1>2, <2>1, RegisterParts, AddLocalRefTypes
<1>3. CASE refCounter' = NextRef /\ UNCHANGED <<localRefs, disposed, twice>>
  BY <1>3 DEF SessionTypes, NextRef, Live
<1>4. CASE (\E S \in SUBSET Live : RemoveRefs(S)) /\ refCounter' = refCounter
  BY <1>4, RemoveRefsTypes
<1> QED BY <1>1, <1>2, <1>3, <1>4, SessionSteps

LEMMA TypeStep == ASSUME TypeInv, [Next]_vars PROVE TypeInv'
<1>1. CASE UNCHANGED vars
  BY <1>1 DEF TypeInv, TypeOK, Placed, vars, workerVars, sessionVars, Live
<1>2. ASSUME NEW w \in Workers, Arrive(w) \/ Step(w) PROVE TypeInv'
  <2>1. SessionTypes /\ WorkerTypes /\ Within /\ Placed
    BY TypeParts
  <2>2. SessionTypes'
    BY <1>2, <2>1, StepSessionTypes
  <2>3. WorkerTypes' /\ Within' /\ Placed'
    BY <1>2, <2>1, ArriveTypes, EmptyBatchTypes, ResolveLocalTypes, AtOnceTypes,
       LookUpTypes, CallRootTypes, CallMethodTypes, RegisterTypes DEF Step
  <2> QED BY <2>2, <2>3 DEF TypeInv, TypeOK, SessionTypes, WorkerTypes, Within
<1> QED BY <1>1, <1>2 DEF Next

\* Every variable stays in its type, and a worker on an entry until its batch is done
\* (the loop of HandleBatch), for any goroutines and any batches.
THEOREM TypeCorrect == Spec => []TypeOK
<1>1. Init => TypeInv
  BY InitTypes
<1>2. TypeInv /\ [Next]_vars => TypeInv'
  BY TypeStep
<1>3. TypeInv => TypeOK
  BY DEF TypeInv
<1> QED BY <1>1, <1>2, <1>3, PTL DEF Spec

-----------------------------------------------------------------------------
(* References.                                                              *)

Counted == \A r \in Live \cup disposed : r <= refCounter

Fresh ==
    \A w \in Workers : pc[w] = "register" =>
        name[w] <= refCounter /\ name[w] \notin Live \cup disposed

FreshDistinct ==
    \A v, w \in Workers : pc[v] = "register" /\ pc[w] = "register" /\ name[v] = name[w] => v = w

RefInv == Counted /\ Fresh /\ FreshDistinct /\ DisposedOnce /\ RefsDistinct

LEMMA InitRefs == Init => RefInv
BY DEF Init, RefInv, Counted, Fresh, FreshDistinct, DisposedOnce, RefsDistinct, Live

-----------------------------------------------------------------------------
(* What a step does to the references in responses and to those about to be *)
(* registered.                                                              *)

\* Every response that carries a reference was there before.
SameRefs ==
    \A v \in Workers : \A k \in 1 .. Len(out'[v]) : out'[v][k].val = "ref" =>
        k \in 1 .. Len(out[v]) /\ out'[v][k] = out[v][k]

\* Every worker about to register was so before, with the same reference.
SameNames ==
    \A v \in Workers : pc'[v] = "register" => pc[v] = "register" /\ name'[v] = name[v]

LEMMA AppendPlain ==
    ASSUME NEW s \in Seq(Reply), NEW r \in Reply, r.val # "ref",
           NEW k \in 1 .. Len(s \o <<r>>), (s \o <<r>>)[k].val = "ref"
    PROVE  k \in 1 .. Len(s) /\ (s \o <<r>>)[k] = s[k]
<1>1. Len(s \o <<r>>) = Len(s) + 1 /\ (s \o <<r>>)[Len(s) + 1] = r
  OBVIOUS
<1>2. k \in 1 .. Len(s)
  BY <1>1
<1> QED BY <1>2

LEMMA AppendOld ==
    ASSUME NEW s \in Seq(Reply), NEW r \in Reply
    PROVE  /\ Len(s \o <<r>>) = Len(s) + 1
           /\ (s \o <<r>>)[Len(s) + 1] = r
           /\ \A k \in 1 .. Len(s) : (s \o <<r>>)[k] = s[k]
OBVIOUS

\* Advance without a reference.
LEMMA AdvanceRefs ==
    ASSUME WorkerTypes, NEW w \in Workers, NEW resps, Advance(w, resps),
           resps = <<>> \/ \E r \in Reply : resps = <<r>> /\ r.val # "ref"
    PROVE  SameRefs
<1>1. out' = [out EXCEPT ![w] = out[w] \o resps] /\ out[w] \in Seq(Reply)
  BY DEF Advance, WorkerTypes
<1> SUFFICES ASSUME NEW v \in Workers, NEW k \in 1 .. Len(out'[v]), out'[v][k].val = "ref"
             PROVE  k \in 1 .. Len(out[v]) /\ out'[v][k] = out[v][k]
  BY DEF SameRefs
<1>2. CASE v # w
  BY <1>1, <1>2 DEF WorkerTypes
<1>3. CASE v = w /\ resps = <<>>
  <2>1. out[w] \o <<>> = out[w]
    BY <1>1
  <2> QED BY <1>1, <1>3, <2>1 DEF WorkerTypes
<1>4. CASE v = w /\ \E r \in Reply : resps = <<r>> /\ r.val # "ref"
  <2>1. PICK r \in Reply : resps = <<r>> /\ r.val # "ref"
    BY <1>4
  <2>2. out'[v] = out[w] \o <<r>>
    BY <1>1, <1>4, <2>1 DEF WorkerTypes
  <2> QED BY <1>1, <1>4, <2>1, <2>2, AppendPlain
<1> QED BY <1>2, <1>3, <1>4

LEMMA AdvanceNames ==
    ASSUME WorkerTypes, NEW w \in Workers, NEW resps, Advance(w, resps),
           \A v \in Workers : v # w => name'[v] = name[v]
    PROVE  SameNames
BY DEF Advance, WorkerTypes, SameNames

LEMMA PlainAdvance ==
    ASSUME WorkerTypes, Within, NEW w \in Workers, At(w),
           Advance(w, Errors(w)) \/ Advance(w, Success(w)),
           name' = name
    PROVE  SameRefs /\ SameNames
<1>1. CASE Advance(w, Errors(w))
  BY <1>1, PlainResponses, AdvanceRefs, AdvanceNames
<1>2. CASE Advance(w, Success(w))
  BY <1>2, PlainResponses, AdvanceRefs, AdvanceNames
<1> QED BY <1>1, <1>2

\* A step that stays on its entry and does not register next.
LEMMA PlainMove ==
    ASSUME WorkerTypes, NEW w \in Workers, out' = out,
           NEW c, c # "register", pc' = [pc EXCEPT ![w] = c],
           \A v \in Workers : v # w => name'[v] = name[v]
    PROVE  SameRefs /\ SameNames
BY DEF WorkerTypes, SameRefs, SameNames

\* CallMethod takes a reference from the counter.
Allocates(w) ==
    /\ SameRefs
    /\ refCounter' = refCounter + 1
    /\ pc' = [pc EXCEPT ![w] = "register"]
    /\ name' = [name EXCEPT ![w] = refCounter + 1]
    /\ UNCHANGED <<localRefs, disposed, twice>>

LEMMA CallMethodRefs ==
    ASSUME WorkerTypes, Within, Placed, NEW w \in Workers, CallMethod(w)
    PROVE  Allocates(w) \/ (SameRefs /\ SameNames /\ UNCHANGED sessionVars)
<1>1. At(w) /\ UNCHANGED <<localRefs, disposed, twice>>
  BY DEF CallMethod, At, Placed
<1>2. CASE Cur(w).id /\ ReturnsObject(w)
  <2>1. /\ refCounter' = refCounter + 1 /\ pc' = [pc EXCEPT ![w] = "register"]
        /\ name' = [name EXCEPT ![w] = refCounter + 1] /\ out' = out
    BY <1>2 DEF CallMethod, NextRef
  <2>2. SameRefs
    BY <2>1 DEF SameRefs
  <2> QED BY <1>1, <2>1, <2>2 DEF Allocates
<1>3. CASE ~(Cur(w).id /\ ReturnsObject(w))
  <2>1. /\ Advance(w, Errors(w)) \/ Advance(w, Success(w))
        /\ UNCHANGED <<refCounter, name>>
    BY <1>3 DEF CallMethod
  <2> QED BY <1>1, <2>1, PlainAdvance DEF sessionVars
<1> QED BY <1>2, <1>3

LEMMA OtherRefs ==
    ASSUME WorkerTypes, Within, Placed, NEW w \in Workers,
           \/ Arrive(w) \/ EmptyBatch(w) \/ ResolveLocal(w) \/ MissingMethod(w)
           \/ LookUp(w) \/ CallRoot(w) \/ Dispose(w) \/ DisposeAll(w) \/ Introspect(w)
    PROVE  SameRefs /\ SameNames
<1>1. CASE Arrive(w)
  <2>1. out' = out /\ name' = name /\ pc' = [pc EXCEPT ![w] = "next"]
    BY <1>1 DEF Arrive
  <2> QED BY <2>1, PlainMove
<1>2. CASE EmptyBatch(w)
  <2> DEFINE r == [entry |-> 0, id |-> FALSE, val |-> "error", ref |-> 0, obj |-> Root]
  <2>1. out' = [out EXCEPT ![w] = <<r>>] /\ pc' = [pc EXCEPT ![w] = "done"] /\ name' = name
    BY <1>2 DEF EmptyBatch
  <2>2. Len(<<r>>) = 1 /\ <<r>>[1].val = "error"
    OBVIOUS
  <2> HIDE DEF r
  <2>3. SameRefs
    BY <2>1, <2>2 DEF WorkerTypes, SameRefs
  <2>4. SameNames
    BY <2>1 DEF WorkerTypes, SameNames
  <2> QED BY <2>3, <2>4
<1>3. CASE ResolveLocal(w)
  <2>1. At(w)
    BY <1>3 DEF ResolveLocal, At
  <2>2. \/ /\ name' = [name EXCEPT ![w] = Named(w, Cur(w).arg).ref]
           /\ pc' = [pc EXCEPT ![w] = "handle"] /\ out' = out
        \/ Advance(w, Errors(w)) /\ name' = name
    BY <1>3 DEF ResolveLocal
  <2>3. CASE Advance(w, Errors(w)) /\ name' = name
    BY <2>1, <2>3, PlainAdvance
  <2>4. CASE /\ name' = [name EXCEPT ![w] = Named(w, Cur(w).arg).ref]
             /\ pc' = [pc EXCEPT ![w] = "handle"] /\ out' = out
    BY <2>4, PlainMove DEF WorkerTypes
  <2> QED BY <2>2, <2>3, <2>4
<1>4. CASE MissingMethod(w) \/ Dispose(w) \/ DisposeAll(w) \/ Introspect(w)
  <2>1. Handling(w) /\ name' = name
    BY <1>4 DEF MissingMethod, Dispose, DisposeAll, Introspect
  <2>2. Advance(w, Errors(w)) \/ Advance(w, Success(w))
    BY <1>4 DEF MissingMethod, Dispose, DisposeAll, Introspect
  <2> QED BY <2>1, <2>2, HandlingAt, PlainAdvance
<1>5. CASE LookUp(w)
  <2>1. At(w) /\ name' = name
    BY <1>5, HandlingAt DEF LookUp
  <2>2. \/ pc' = [pc EXCEPT ![w] = "call"] /\ out' = out
        \/ Advance(w, Errors(w))
    BY <1>5 DEF LookUp
  <2> QED BY <2>1, <2>2, PlainMove, PlainAdvance
<1>6. CASE CallRoot(w)
  <2>1. out' = out /\ name' = name /\ pc' = [pc EXCEPT ![w] = "call"]
    BY <1>6 DEF CallRoot
  <2> QED BY <2>1, PlainMove
<1> QED BY <1>1, <1>2, <1>3, <1>4, <1>5, <1>6

-----------------------------------------------------------------------------
(* The invariant is kept.                                                   *)

LEMMA DistinctStays ==
    ASSUME RefsDistinct, SameRefs
    PROVE  RefsDistinct'
<1> SUFFICES ASSUME NEW u \in Workers, NEW v \in Workers,
                    NEW j \in 1 .. Len(out'[u]), NEW k \in 1 .. Len(out'[v]),
                    out'[u][j].val = "ref", out'[v][k].val = "ref",
                    out'[u][j].ref = out'[v][k].ref
             PROVE  u = v /\ j = k
  BY DEF RefsDistinct
<1>1. j \in 1 .. Len(out[u]) /\ out'[u][j] = out[u][j]
  BY DEF SameRefs
<1>2. k \in 1 .. Len(out[v]) /\ out'[v][k] = out[v][k]
  BY DEF SameRefs
<1> QED BY <1>1, <1>2 DEF RefsDistinct

\* Nothing happens to the session.
LEMMA QuietRefs ==
    ASSUME RefInv, SameRefs, SameNames, UNCHANGED sessionVars
    PROVE  RefInv'
<1>1. UNCHANGED <<localRefs, refCounter, disposed, twice>> /\ Live' = Live
  BY DEF sessionVars, Live
<1>2. Counted' /\ Fresh' /\ FreshDistinct'
  BY <1>1 DEF RefInv, Counted, Fresh, FreshDistinct, SameNames
<1>3. DisposedOnce'
  BY <1>1 DEF RefInv, DisposedOnce, SameRefs
<1>4. RefsDistinct'
  BY DistinctStays DEF RefInv
<1> QED BY <1>2, <1>3, <1>4 DEF RefInv

\* References are disposed of.
LEMMA RemoveRefsInv ==
    ASSUME RefInv, SameRefs, SameNames, NEW S \in SUBSET Live, RemoveRefs(S),
           refCounter' = refCounter
    PROVE  RefInv'
<1>1. Live' = Live \ S /\ disposed' = disposed \cup S /\ twice' = twice \cup (disposed \cap S)
  BY DEF RemoveRefs, Live
<1>2. Live' \cup disposed' = Live \cup disposed
  BY <1>1
<1>3. Counted' /\ Fresh' /\ FreshDistinct'
  BY <1>2 DEF RefInv, Counted, Fresh, FreshDistinct, SameNames
<1>4. DisposedOnce'
  <2>1. twice' = {} /\ Live' \cap disposed' = {}
    BY <1>1 DEF RefInv, DisposedOnce
  <2>2. \A v \in Workers : \A k \in 1 .. Len(out'[v]) :
          out'[v][k].val = "ref" => out'[v][k].ref \in Live' \cup disposed'
    BY <1>2 DEF RefInv, DisposedOnce, SameRefs
  <2> QED BY <2>1, <2>2 DEF DisposedOnce
<1>5. RefsDistinct'
  BY DistinctStays DEF RefInv
<1> QED BY <1>3, <1>4, <1>5 DEF RefInv

\* The counter gives a worker a reference that nothing has yet.
LEMMA AllocateInv ==
    ASSUME SessionTypes, WorkerTypes, RefInv, NEW w \in Workers, Allocates(w)
    PROVE  RefInv'
<1>1. /\ refCounter \in Nat /\ refCounter' = refCounter + 1
      /\ pc' = [pc EXCEPT ![w] = "register"]
      /\ name' = [name EXCEPT ![w] = refCounter + 1]
      /\ UNCHANGED <<localRefs, disposed, twice>> /\ Live' = Live
      /\ Live \subseteq Nat /\ disposed \subseteq Nat
  BY DEF Allocates, SessionTypes, Live
<1>2. Counted'
  BY <1>1 DEF RefInv, Counted
<1>3. refCounter + 1 \notin Live \cup disposed
  BY <1>1 DEF RefInv, Counted
<1>4. Fresh'
  BY <1>1, <1>3 DEF RefInv, Fresh, WorkerTypes
<1>5. FreshDistinct'
  BY <1>1 DEF RefInv, Fresh, FreshDistinct, WorkerTypes
<1>6. DisposedOnce'
  BY <1>1 DEF RefInv, DisposedOnce, Allocates, SameRefs
<1>7. RefsDistinct'
  BY DistinctStays DEF RefInv, Allocates
<1> QED BY <1>2, <1>4, <1>5, <1>6, <1>7 DEF RefInv

\* The table after Register, and that its reference was new.
LEMMA RegisterLive ==
    ASSUME RefInv, NEW w \in Workers, Register(w)
    PROVE  /\ Live' = Live \cup {name[w]} /\ name[w] \notin Live \cup disposed
           /\ name[w] <= refCounter
           /\ \A r \in Live : localRefs'[r] = localRefs[r]
<1>1. pc[w] = "register" /\ AddLocalRef(name[w], Stored(w))
  BY RegisterParts
<1>2. name[w] \notin Live \cup disposed /\ name[w] <= refCounter
  BY <1>1 DEF RefInv, Fresh
<1> QED BY <1>1, <1>2 DEF AddLocalRef, Live

\* The responses after Register.
LEMMA RegisterOut ==
    ASSUME WorkerTypes, Within, Placed, NEW w \in Workers, Register(w),
           NEW v \in Workers, NEW k \in 1 .. Len(out'[v]), out'[v][k].val = "ref"
    PROVE  \/ k \in 1 .. Len(out[v]) /\ out'[v][k] = out[v][k]
           \/ /\ v = w /\ k = Len(out[w]) + 1
              /\ out'[v][k].ref = name[w] /\ out'[v][k].obj = Stored(w)
<1>1. At(w) /\ Advance(w, Answer(w))
  BY RegisterParts DEF At, Placed
<1>2. CASE Cur(w).does = "garble"
  <2>1. Advance(w, Errors(w))
    BY <1>1, <1>2 DEF Answer
  <2>2. SameRefs
    BY <1>1, <2>1, PlainResponses, AdvanceRefs
  <2> QED BY <2>2 DEF SameRefs
<1>3. CASE Cur(w).does # "garble"
  <2> DEFINE r == Response(w, "ref", name[w], Stored(w))
  <2>1. r \in Reply /\ r.ref = name[w] /\ r.obj = Stored(w)
    <3>1. name[w] \in Nat /\ Stored(w) \in Nat /\ "ref" \in Outcomes
      BY DEF WorkerTypes, Stored, Outcomes
    <3> QED BY <1>1, <3>1, ResponseType
  <2>2. out' = [out EXCEPT ![w] = out[w] \o <<r>>]
    BY <1>1, <1>3 DEF Answer, Advance
  <2> HIDE DEF r
  <2>3. CASE v # w
    BY <2>2, <2>3 DEF WorkerTypes
  <2>4. CASE v = w
    <3>1. out'[v] = out[w] \o <<r>> /\ out[w] \in Seq(Reply)
      BY <2>2, <2>4 DEF WorkerTypes
    <3>2. k \in 1 .. Len(out[w]) \/ k = Len(out[w]) + 1
      BY <2>1, <3>1, AppendOld
    <3> QED BY <2>1, <2>4, <3>1, <3>2, AppendOld
  <2> QED BY <2>3, <2>4
<1> QED BY <1>2, <1>3

LEMMA RegisterInv ==
    ASSUME SessionTypes, WorkerTypes, Within, Placed, RefInv, NEW w \in Workers, Register(w)
    PROVE  RefInv'
<1>1. /\ UNCHANGED <<name, refCounter, disposed, twice>>
      /\ pc[w] = "register" /\ Advance(w, Answer(w))
  BY RegisterParts
<1>2. /\ Live' = Live \cup {name[w]} /\ name[w] \notin Live \cup disposed
      /\ name[w] <= refCounter
  BY RegisterLive
<1>3. Counted'
  BY <1>1, <1>2 DEF RefInv, Counted
<1>4. \A v \in Workers : pc'[v] = "register" => pc[v] = "register" /\ v # w
  BY <1>1 DEF Advance, WorkerTypes
<1>5. Fresh'
  BY <1>1, <1>2, <1>4 DEF RefInv, Fresh, FreshDistinct
<1>6. FreshDistinct'
  BY <1>1, <1>4 DEF RefInv, FreshDistinct
<1>7. DisposedOnce'
  <2>1. twice' = {} /\ Live' \cap disposed' = {}
    BY <1>1, <1>2 DEF RefInv, DisposedOnce
  <2>2. ASSUME NEW v \in Workers, NEW k \in 1 .. Len(out'[v]), out'[v][k].val = "ref"
        PROVE  out'[v][k].ref \in Live' \cup disposed'
    BY <1>1, <1>2, <2>2, RegisterOut DEF RefInv, DisposedOnce
  <2> QED BY <2>1, <2>2 DEF DisposedOnce
<1>8. RefsDistinct'
  <2> SUFFICES ASSUME NEW u \in Workers, NEW v \in Workers,
                      NEW j \in 1 .. Len(out'[u]), NEW k \in 1 .. Len(out'[v]),
                      out'[u][j].val = "ref", out'[v][k].val = "ref",
                      out'[u][j].ref = out'[v][k].ref
               PROVE  u = v /\ j = k
    BY DEF RefsDistinct
  <2>1. ASSUME NEW x \in Workers, NEW i \in 1 .. Len(out[x]), out[x][i].val = "ref"
        PROVE  out[x][i].ref # name[w]
    BY <1>2, <2>1 DEF RefInv, DisposedOnce
  <2>2. \/ j \in 1 .. Len(out[u]) /\ out'[u][j] = out[u][j]
        \/ u = w /\ j = Len(out[w]) + 1 /\ out'[u][j].ref = name[w]
    BY RegisterOut
  <2>3. \/ k \in 1 .. Len(out[v]) /\ out'[v][k] = out[v][k]
        \/ v = w /\ k = Len(out[w]) + 1 /\ out'[v][k].ref = name[w]
    BY RegisterOut
  <2>4. CASE j \in 1 .. Len(out[u]) /\ out'[u][j] = out[u][j]
    <3>1. out[u][j].ref # name[w]
      BY <2>1, <2>4
    <3>2. k \in 1 .. Len(out[v]) /\ out'[v][k] = out[v][k]
      BY <2>3, <2>4, <3>1
    <3> QED BY <2>4, <3>2 DEF RefInv, RefsDistinct
  <2>5. CASE u = w /\ j = Len(out[w]) + 1 /\ out'[u][j].ref = name[w]
    <3>1. ~(k \in 1 .. Len(out[v]) /\ out'[v][k] = out[v][k])
      BY <2>1, <2>5
    <3> QED BY <2>3, <2>5, <3>1
  <2> QED BY <2>2, <2>4, <2>5
<1> QED BY <1>3, <1>5, <1>6, <1>7, <1>8 DEF RefInv

LEMMA RefStep ==
    ASSUME TypeInv, RefInv, NEW w \in Workers, Arrive(w) \/ Step(w)
    PROVE  RefInv'
<1>1. SessionTypes /\ WorkerTypes /\ Within /\ Placed
  BY TypeParts
<1>2. CASE Register(w)
  BY <1>1, <1>2, RegisterInv
<1>3. CASE CallMethod(w)
  BY <1>1, <1>3, CallMethodRefs, AllocateInv, QuietRefs
<1>4. CASE ~Register(w) /\ ~CallMethod(w)
  <2>1. SameRefs /\ SameNames
    BY <1>1, <1>4, OtherRefs DEF Step
  <2>2. \/ UNCHANGED sessionVars
        \/ (\E S \in SUBSET Live : RemoveRefs(S)) /\ refCounter' = refCounter
    BY <1>4, SessionSteps
  <2> QED BY <2>1, <2>2, QuietRefs, RemoveRefsInv
<1> QED BY <1>2, <1>3, <1>4

LEMMA RefNext == ASSUME TypeInv, RefInv, [Next]_vars PROVE RefInv'
<1>1. CASE UNCHANGED vars
  BY <1>1 DEF vars, workerVars, sessionVars, Live, RefInv, Counted, Fresh, FreshDistinct,
              DisposedOnce, RefsDistinct
<1> QED BY <1>1, RefStep DEF Next

LEMMA Invariant == Spec => [](TypeInv /\ RefInv)
<1>1. Init => TypeInv /\ RefInv
  BY InitTypes, InitRefs
<1>2. TypeInv /\ RefInv /\ [Next]_vars => (TypeInv /\ RefInv)'
  BY TypeStep, RefNext
<1> QED BY <1>1, <1>2, PTL DEF Spec

-----------------------------------------------------------------------------

\* Concurrent calls of GenerateRefID and AddLocalRef never hand out one reference for
\* two results, for any number of goroutines.
THEOREM ReferencesDistinct == Spec => []RefsDistinct
<1>1. RefInv => RefsDistinct
  BY DEF RefInv
<1> QED BY <1>1, Invariant, PTL

\* Every reference a response has carried is live or was disposed of, never both, and
\* RemoveLocalRef and DisposeAll run Dispose once for it however they race.
THEOREM ReferencesDisposedOnce == Spec => []DisposedOnce
<1>1. RefInv => DisposedOnce
  BY DEF RefInv
<1> QED BY <1>1, Invariant, PTL

\* The claim of NeverRebound about one step.
Bound ==
    /\ \A r \in Live \cap Live' : localRefs'[r] = localRefs[r]
    /\ disposed \cap Live' = {}

\* A reference never changes its object and never comes back: a client that holds it
\* calls the object it was given or gets an error.
THEOREM ReferencesNeverRebound == Spec => NeverRebound
<1>1. TypeInv /\ RefInv /\ [Next]_vars => [Bound]_vars
  <2> SUFFICES ASSUME TypeInv, RefInv, NEW w \in Workers, Arrive(w) \/ Step(w) PROVE Bound
    BY DEF Next
  <2>1. Live \cap disposed = {}
    BY DEF RefInv, DisposedOnce
  <2>2. CASE UNCHANGED localRefs
    BY <2>1, <2>2 DEF Bound, Live
  <2>3. CASE Register(w)
    BY <2>1, <2>3, RegisterLive DEF Bound
  <2>4. ASSUME NEW S \in SUBSET Live, RemoveRefs(S) PROVE Bound
    BY <2>1, <2>4 DEF RemoveRefs, Bound, Live
  <2> QED BY <2>2, <2>3, <2>4, SessionSteps DEF sessionVars
<1> QED BY <1>1, Invariant, PTL DEF Spec, NeverRebound, Bound

=============================================================================
