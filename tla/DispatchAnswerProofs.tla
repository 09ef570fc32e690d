------------------------ MODULE DispatchAnswerProofs ------------------------
(***************************************************************************)
(* What HandleBatch answers, for any goroutines and batches: every entry   *)
(* with an id once and in order, a batch-local reference to the right      *)
(* entry where no notification comes before it, and outcomes as SPEC.md    *)
(* 3.6.2 has them.                                                         *)
(*                                                                         *)
(* The three properties speak of responses and entries; what makes them    *)
(* inductive is how the two are related at every point of the batch        *)
(* (AnswerInv), what a batch-local reference has been resolved to while it *)
(* is in the hands of its goroutine (InHand) and what every method so far  *)
(* ran on (RanOn).  The goroutines share only the table of references, of  *)
(* which Denotes says that a reference still denotes the object its        *)
(* response was about: with that, what another goroutine does between the  *)
(* resolution and the look-up cannot lead to another object.               *)
(***************************************************************************)
EXTENDS DispatchProofs, WellFoundedInduction

-----------------------------------------------------------------------------
(* Specified is defined by recursion over the batch.                        *)

LEMMA SetInduction ==
    ASSUME NEW S \in SUBSET Nat, 0 \in S, \A n \in S : n + 1 \in S
    PROVE  S = Nat
<1> DEFINE R == {p \in Nat \X Nat : p[1] < p[2]}
<1>1. IsWellFoundedOn(R, Nat)
  BY NatLessThanWellFounded DEF OpToRel
<1>2. SUFFICES ASSUME Nat \ S # {} PROVE FALSE
  OBVIOUS
<1>3. PICK x \in Nat \ S : \A y \in Nat \ S : <<y, x>> \notin R
  <2> HIDE DEF R
  <2> QED BY <1>1, <1>2, WFMin
<1>4. x # 0 /\ x - 1 \in Nat /\ (x - 1) + 1 = x
  BY <1>3
<1>5. <<x - 1, x>> \in R
  BY <1>4
<1>6. x - 1 \in S
  BY <1>3, <1>4, <1>5
<1> QED BY <1>3, <1>4, <1>6

LEMMA EntryAt ==
    ASSUME NEW b \in Seq(Entry), NEW p \in 1 .. Len(b)
    PROVE  b[p] \in Entry /\ b[p].arg \in Nat /\ Len(b) \in Nat /\ p \in Nat
<1>1. b[p] \in Entry
  OBVIOUS
<1> QED BY <1>1, EntryFields

\* Expected looks at the entries before p only.
LEMMA ExpectedLocal ==
    ASSUME NEW b \in Seq(Entry), NEW p \in 1 .. Len(b), NEW f, NEW g,
           \A q \in 1 .. p - 1 : f[q] = g[q]
    PROVE  Expected(b, f, p) = Expected(b, g, p)
<1>1. b[p].arg \in Nat /\ p \in Nat
  BY EntryAt
<1>2. CASE b[p].arg >= p - 1
  BY <1>2 DEF Expected
<1>3. CASE ~(b[p].arg >= p - 1)
  <2>1. b[p].arg + 1 \in 1 .. p - 1
    BY <1>1, <1>3
  <2>2. f[b[p].arg + 1] = g[b[p].arg + 1]
    BY <2>1
  <2> QED BY <2>2 DEF Expected
<1> QED BY <1>2, <1>3

LEMMA SpecifiedExists ==
    ASSUME NEW b \in Seq(Entry)
    PROVE  \E g : g = [p \in 1 .. Len(b) |-> Expected(b, g, p)]
<1> DEFINE S == {n \in Nat : n <= Len(b) => \E g : g = [p \in 1 .. n |-> Expected(b, g, p)]}
<1>1. Len(b) \in Nat
  OBVIOUS
<1>2. 0 \in S
  <2> DEFINE g == <<>>
  <2>1. g = [p \in 1 .. 0 |-> Expected(b, g, p)]
    OBVIOUS
  <2> QED BY <2>1
<1>3. ASSUME NEW n \in S, n + 1 <= Len(b)
      PROVE  \E g : g = [p \in 1 .. n + 1 |-> Expected(b, g, p)]
  <2>1. PICK g : g = [p \in 1 .. n |-> Expected(b, g, p)]
    BY <1>1, <1>3
  <2> DEFINE h == [p \in 1 .. n + 1 |-> IF p = n + 1 THEN Expected(b, g, n + 1) ELSE g[p]]
  <2>2. /\ DOMAIN h = 1 .. n + 1 /\ h[n + 1] = Expected(b, g, n + 1)
        /\ \A q \in 1 .. n : h[q] = g[q]
    BY <1>3
  <2>3. h = [p \in 1 .. n + 1 |-> h[p]]
    OBVIOUS
  <2> HIDE DEF h
  <2>4. ASSUME NEW p \in 1 .. n + 1 PROVE h[p] = Expected(b, h, p)
    <3>1. p \in 1 .. Len(b) /\ \A q \in 1 .. p - 1 : q \in 1 .. n
      BY <1>1, <1>3
    <3>2. \A q \in 1 .. p - 1 : g[q] = h[q]
      BY <2>2, <3>1
    <3>3. Expected(b, g, p) = Expected(b, h, p)
      BY <3>1, <3>2, ExpectedLocal
    <3>4. CASE p = n + 1
      BY <2>2, <3>3, <3>4
    <3>5. CASE p # n + 1
      <4>1. p \in 1 .. n
        BY <1>3, <3>5
      <4>2. g[p] = Expected(b, g, p)
        BY <2>1, <4>1
      <4> QED BY <2>2, <3>3, <4>1, <4>2
    <3> QED BY <3>4, <3>5
  <2>5. h = [p \in 1 .. n + 1 |-> Expected(b, h, p)]
    BY <2>3, <2>4
  <2> QED BY <2>5
<1>4. S = Nat
  <2>1. \A n \in S : n + 1 \in S
    BY <1>3
  <2> HIDE DEF S
  <2>2. S \subseteq Nat
    BY DEF S
  <2> QED BY <1>2, <2>1, <2>2, SetInduction
<1> QED BY <1>1, <1>4

\* The equation of the recursion.
LEMMA SpecifiedAt ==
    ASSUME NEW b \in Seq(Entry), NEW p \in 1 .. Len(b)
    PROVE  Specified(b)[p] = Expected(b, Specified(b), p)
<1>1. \E g : g = [q \in 1 .. Len(b) |-> Expected(b, g, q)]
  BY SpecifiedExists
<1>2. Specified(b) = [q \in 1 .. Len(b) |-> Expected(b, Specified(b), q)]
  BY <1>1 DEF Specified
<1> QED BY <1>2

-----------------------------------------------------------------------------
(* The responses of a worker.                                               *)

\* A worker that has no message, or an empty one, has run nothing.
Blank(w) ==
    pc[w] = "idle" \/ batch[w] = <<>> =>
        pos[w] = 1 /\ ran[w] = {} /\ (pc[w] # "done" => out[w] = <<>>)

\* The responses are in the order of their entries, all of them before the current one.
Ordered(w) ==
    /\ \A k \in 1 .. Len(out[w]) : out[w][k].entry < pos[w]
    /\ \A j, k \in 1 .. Len(out[w]) : j < k => out[w][j].entry < out[w][k].entry

\* The entries with an id are answered.
Answered(w) == {out[w][k].entry : k \in {i \in 1 .. Len(out[w]) : out[w][i].id}}
Complete(w) == Answered(w) = {p \in 1 .. pos[w] - 1 : batch[w][p].id}

AtMostOne(w) == batch[w] # <<>> => Len(out[w]) <= pos[w] - 1

\* No notification among the first p entries of w.
NoneSilent(w, p) == \A q \in 1 .. p : batch[w][q].id

\* Up to the first notification, the indices of entries and responses agree.
Indices(w) ==
    \A p \in 1 .. pos[w] - 1 : NoneSilent(w, p) => p <= Len(out[w]) /\ out[w][p].entry = p

\* The outcome of a response is the one of SPEC.md 3.6.2, where it applies.
Plain(w) == format[w] = "json" /\ \A p \in 1 .. Len(batch[w]) : batch[w][p].id

Meets(w, r) ==
    r.entry # 0 =>
        \/ r.val = Specified(batch[w])[r.entry]
        \/ r.val = "error" /\ MayBeGone(batch[w][r.entry])

Outcome(w) == Plain(w) => \A k \in 1 .. Len(out[w]) : Meets(w, out[w][k])

AnswerInv(w) ==
    Blank(w) /\ Ordered(w) /\ Complete(w) /\ AtMostOne(w) /\ Indices(w) /\ Outcome(w)

\* What an iteration appends: a response to the entry, unless it is a notification.
Good(w, resps) ==
    \/ resps = <<>> /\ ~Cur(w).id
    \/ \E r \in Reply : /\ resps = <<r>> /\ r.entry = pos[w] /\ r.id = Cur(w).id
                        /\ Plain(w) => Meets(w, r)

LEMMA AdvanceOut ==
    ASSUME WorkerTypes, Within, NEW w \in Workers, At(w), Stays,
           NEW resps, Advance(w, resps), Good(w, resps)
    PROVE  /\ pos'[w] = pos[w] + 1 /\ pos[w] \in 1 .. Len(batch[w])
           /\ pc'[w] \in {"next", "done"}
           /\ out[w] \in Seq(Reply) /\ out'[w] \in Seq(Reply)
           /\ \A k \in 1 .. Len(out[w]) : k \in 1 .. Len(out'[w]) /\ out'[w][k] = out[w][k]
           /\ \/ ~Cur(w).id /\ out'[w] = out[w]
              \/ /\ Len(out'[w]) = Len(out[w]) + 1
                 /\ out'[w][Len(out[w]) + 1].entry = pos[w]
                 /\ out'[w][Len(out[w]) + 1].id = Cur(w).id
                 /\ Plain(w) => Meets(w, out'[w][Len(out[w]) + 1])
<1>1. /\ out'[w] = out[w] \o resps /\ pos'[w] = pos[w] + 1
      /\ pc'[w] \in {"next", "done"} /\ out[w] \in Seq(Reply)
  BY DEF Advance, WorkerTypes
<1>2. pos[w] \in 1 .. Len(batch[w])
  BY CurrentEntry
<1>3. CASE resps = <<>> /\ ~Cur(w).id
  <2>1. out'[w] = out[w]
    BY <1>1, <1>3
  <2> QED BY <1>1, <1>2, <1>3, <2>1
<1>4. CASE \E r \in Reply : /\ resps = <<r>> /\ r.entry = pos[w] /\ r.id = Cur(w).id
                            /\ Plain(w) => Meets(w, r)
  <2>1. PICK r \in Reply : /\ resps = <<r>> /\ r.entry = pos[w] /\ r.id = Cur(w).id
                           /\ Plain(w) => Meets(w, r)
    BY <1>4
  <2>2. /\ Len(out'[w]) = Len(out[w]) + 1 /\ out'[w][Len(out[w]) + 1] = r
        /\ \A k \in 1 .. Len(out[w]) : out'[w][k] = out[w][k]
    BY <1>1, <2>1, AppendOld
  <2>3. out'[w] \in Seq(Reply)
    BY <1>1, <2>1
  <2>4. \A k \in 1 .. Len(out[w]) : k \in 1 .. Len(out'[w])
    BY <1>1, <2>2
  <2> QED BY <1>1, <1>2, <2>1, <2>2, <2>3, <2>4
<1> QED BY <1>3, <1>4 DEF Good

LEMMA AdvanceAnswers ==
    ASSUME WorkerTypes, Within, NEW w \in Workers, At(w), Stays, AnswerInv(w),
           NEW resps, Advance(w, resps), Good(w, resps)
    PROVE  AnswerInv(w)'
<1> DEFINE n == Len(out[w])
<1>1. /\ pos'[w] = pos[w] + 1 /\ pos[w] \in 1 .. Len(batch[w]) /\ pc'[w] \in {"next", "done"}
      /\ out[w] \in Seq(Reply) /\ out'[w] \in Seq(Reply)
      /\ \A k \in 1 .. n : k \in 1 .. Len(out'[w]) /\ out'[w][k] = out[w][k]
  BY AdvanceOut
<1>2. \/ ~Cur(w).id /\ out'[w] = out[w]
      \/ /\ Len(out'[w]) = n + 1 /\ out'[w][n + 1].entry = pos[w]
         /\ out'[w][n + 1].id = Cur(w).id
         /\ Plain(w) => Meets(w, out'[w][n + 1])
  BY AdvanceOut
<1>3. /\ batch' = batch /\ format' = format /\ batch[w] # <<>> /\ batch[w] \in Seq(Entry)
      /\ n \in Nat /\ Len(out'[w]) \in Nat /\ pos[w] \in Nat
      /\ Cur(w) = batch[w][pos[w]]
  BY <1>1 DEF Stays, At, WorkerTypes, Cur
<1> HIDE DEF n
<1>4. Blank(w)'
  BY <1>1, <1>3 DEF Blank
<1>5. ASSUME NEW k \in 1 .. Len(out'[w])
      PROVE  \/ k \in 1 .. n /\ out'[w][k] = out[w][k]
             \/ /\ k = n + 1 /\ Len(out'[w]) = n + 1 /\ out'[w][k].entry = pos[w]
                /\ out'[w][k].id = Cur(w).id /\ (Plain(w) => Meets(w, out'[w][k]))
  BY <1>1, <1>2, <1>3 DEF n
<1>6. Ordered(w)'
  <2>1. \A k \in 1 .. n : out[w][k].entry \in Nat /\ out[w][k].entry < pos[w]
    <3>1. \A k \in 1 .. n : out[w][k] \in Reply
      BY <1>1 DEF n
    <3> QED BY <3>1 DEF AnswerInv, Ordered, n, Reply
  <2>2. ASSUME NEW k \in 1 .. Len(out'[w]) PROVE out'[w][k].entry < pos'[w]
    <3>1. pos'[w] = pos[w] + 1 /\ pos[w] \in Nat
      BY <1>1, <1>3
    <3>2. CASE k \in 1 .. n /\ out'[w][k] = out[w][k]
      BY <2>1, <3>1, <3>2
    <3>3. CASE out'[w][k].entry = pos[w]
      BY <3>1, <3>3
    <3> QED BY <1>5, <3>2, <3>3
  <2>3. ASSUME NEW j \in 1 .. Len(out'[w]), NEW k \in 1 .. Len(out'[w]), j < k
        PROVE  out'[w][j].entry < out'[w][k].entry
    <3>1. j \in 1 .. n /\ out'[w][j] = out[w][j]
      BY <1>3, <1>5, <2>3
    <3>2. CASE k \in 1 .. n /\ out'[w][k] = out[w][k]
      BY <2>3, <3>1, <3>2 DEF AnswerInv, Ordered, n
    <3>3. CASE out'[w][k].entry = pos[w]
      BY <2>1, <3>1, <3>3
    <3> QED BY <1>5, <3>2, <3>3
  <2> QED BY <2>2, <2>3 DEF Ordered
<1>7. Complete(w)'
  <2>1. \A p : p \in Answered(w)' <=> p \in Answered(w) \/ (p = pos[w] /\ Cur(w).id)
    <3>1. ASSUME NEW p \in Answered(w)'
          PROVE  p \in Answered(w) \/ (p = pos[w] /\ Cur(w).id)
      <4>1. PICK k \in 1 .. Len(out'[w]) : out'[w][k].id /\ p = out'[w][k].entry
        BY <3>1 DEF Answered
      <4> QED BY <1>5, <4>1 DEF Answered, n
    <3>2. ASSUME NEW p \in Answered(w) PROVE p \in Answered(w)'
      <4>1. PICK k \in 1 .. n : out[w][k].id /\ p = out[w][k].entry
        BY <3>2 DEF Answered, n
      <4> QED BY <1>1, <4>1 DEF Answered
    <3>3. ASSUME Cur(w).id PROVE pos[w] \in Answered(w)'
      <4>1. /\ Len(out'[w]) = n + 1 /\ out'[w][n + 1].entry = pos[w]
            /\ out'[w][n + 1].id = Cur(w).id
        BY <1>2, <3>3
      <4>2. n + 1 \in 1 .. Len(out'[w])
        BY <1>3, <4>1
      <4>3. out'[w][n + 1].id
        BY <3>3, <4>1
      <4> QED BY <4>1, <4>2, <4>3 DEF Answered
    <3> QED BY <3>1, <3>2, <3>3
  <2>2. 1 .. pos'[w] - 1 = (1 .. pos[w] - 1) \cup {pos[w]}
    BY <1>1, <1>3
  <2> QED BY <1>3, <2>1, <2>2 DEF AnswerInv, Complete
<1>8. AtMostOne(w)'
  BY <1>1, <1>2, <1>3 DEF AnswerInv, AtMostOne, n
<1>9. Indices(w)'
  <2> SUFFICES ASSUME NEW p \in 1 .. pos[w], NoneSilent(w, p)
               PROVE  p <= Len(out'[w]) /\ out'[w][p].entry = p
    BY <1>1, <1>3 DEF Indices, NoneSilent
  <2>1. CASE p < pos[w]
    <3>1. p \in 1 .. pos[w] - 1
      BY <1>3, <2>1
    <3>2. p \in 1 .. n /\ out[w][p].entry = p
      BY <1>3, <3>1 DEF AnswerInv, Indices, n
    <3>3. p \in 1 .. Len(out'[w]) /\ out'[w][p] = out[w][p]
      BY <1>1, <3>2
    <3> QED BY <3>2, <3>3
  <2>2. CASE p = pos[w]
    <3>1. Cur(w).id
      BY <1>3, <2>2 DEF NoneSilent
    <3>2. n = pos[w] - 1
      <4>1. n <= pos[w] - 1
        BY <1>3 DEF AnswerInv, AtMostOne, n
      <4>2. CASE pos[w] = 1
        BY <1>3, <4>1, <4>2
      <4>3. CASE pos[w] # 1
        <5>1. pos[w] - 1 \in 1 .. pos[w] - 1 /\ pos[w] - 1 \in 1 .. p
          BY <1>3, <2>2, <4>3
        <5>2. NoneSilent(w, pos[w] - 1)
          BY <1>3, <2>2 DEF NoneSilent
        <5>3. pos[w] - 1 <= n
          BY <5>1, <5>2 DEF AnswerInv, Indices, n
        <5> QED BY <1>3, <4>1, <5>3
      <4> QED BY <4>2, <4>3
    <3>3. Len(out'[w]) = n + 1 /\ out'[w][n + 1].entry = pos[w]
      BY <1>2, <3>1
    <3> QED BY <1>3, <2>2, <3>2, <3>3
  <2> QED BY <1>3, <2>1, <2>2
<1>10. Outcome(w)'
  <2> SUFFICES ASSUME Plain(w), NEW k \in 1 .. Len(out'[w]) PROVE Meets(w, out'[w][k])
    BY <1>3 DEF Outcome, Plain, Meets
  <2> QED BY <1>5 DEF AnswerInv, Outcome, n
<1> QED BY <1>4, <1>6, <1>7, <1>8, <1>9, <1>10 DEF AnswerInv

-----------------------------------------------------------------------------
(* What a batch-local reference has been resolved to.                       *)

\* Entry p of w names a response that carried a reference.
Names(w, p) ==
    LET k == batch[w][p].arg + 1 IN k < p /\ k <= Len(out[w]) /\ out[w][k].val = "ref"

\* If entry p of w has a batch-local reference, o is the object of that response.
Via(w, p, o) ==
    batch[w][p].to = "local" => Names(w, p) /\ out[w][batch[w][p].arg + 1].obj = o

\* What is in the hands of a worker between two steps of an entry.
InHand(w) ==
    /\ pc[w] = "handle" =>
         Cur(w).to = "local" /\ Names(w, pos[w]) /\ out[w][Cur(w).arg + 1].ref = name[w]
    /\ pc[w] \in {"call", "register"} =>
         Cur(w).to # "rpc" /\ Cur(w).does # "empty" /\ Via(w, pos[w], held[w])
    /\ pc[w] = "register" => Cur(w).id /\ ReturnsObject(w)

\* Every method that ran through a batch-local reference.
RanOn(w) ==
    \A x \in ran[w] : x.entry \in 1 .. Len(batch[w]) /\ x.entry <= pos[w] /\ Via(w, x.entry, x.obj)

\* A reference that is live denotes the object its response was about.
Denotes ==
    \A v \in Workers : \A k \in 1 .. Len(out[v]) :
        out[v][k].val = "ref" /\ out[v][k].ref \in Live => localRefs[out[v][k].ref] = out[v][k].obj

WorkerInv(w) == AnswerInv(w) /\ InHand(w) /\ RanOn(w)

HandInv == Denotes /\ \A w \in Workers : WorkerInv(w)

LEMMA InitHand == Init => HandInv
<1> SUFFICES ASSUME Init PROVE HandInv
  OBVIOUS
<1>1. \A w \in Workers : /\ batch[w] = <<>> /\ pos[w] = 1 /\ pc[w] = "idle"
                         /\ out[w] = <<>> /\ ran[w] = {} /\ Len(out[w]) = 0
  BY DEF Init
<1>2. Denotes
  BY <1>1 DEF Denotes
<1>3. ASSUME NEW w \in Workers PROVE WorkerInv(w)
  <2>1. Blank(w) /\ Ordered(w) /\ AtMostOne(w) /\ Indices(w) /\ Outcome(w)
    BY <1>1 DEF Blank, Ordered, AtMostOne, Indices, Outcome
  <2>2. Complete(w)
    BY <1>1 DEF Complete, Answered
  <2>3. InHand(w) /\ RanOn(w)
    BY <1>1 DEF InHand, RanOn
  <2> QED BY <2>1, <2>2, <2>3 DEF WorkerInv, AnswerInv
<1> QED BY <1>2, <1>3 DEF HandInv

\* A step of w leaves the other workers alone.
Same(v) ==
    /\ batch'[v] = batch[v] /\ format'[v] = format[v] /\ pos'[v] = pos[v] /\ pc'[v] = pc[v]
    /\ name'[v] = name[v] /\ held'[v] = held[v] /\ out'[v] = out[v] /\ ran'[v] = ran[v]

LEMMA OthersStay ==
    ASSUME WorkerTypes, NEW w \in Workers,
           Arrive(w) \/ Step(w), NEW v \in Workers, v # w
    PROVE  Same(v)
<1>1. CASE Arrive(w) \/ EmptyBatch(w) \/ CallRoot(w)
  BY <1>1 DEF WorkerTypes, Arrive, EmptyBatch, CallRoot, Same
<1>2. CASE ResolveLocal(w)
  BY <1>2 DEF WorkerTypes, ResolveLocal, Advance, Same
<1>3. CASE MissingMethod(w) \/ LookUp(w)
  BY <1>3 DEF WorkerTypes, MissingMethod, LookUp, Advance, Same
<1>4. CASE CallMethod(w)
  BY <1>4 DEF WorkerTypes, CallMethod, Advance, Same
<1>5. CASE Register(w)
  BY <1>5, RegisterParts DEF WorkerTypes, Stays, Advance, Same
<1>6. CASE Dispose(w) \/ DisposeAll(w) \/ Introspect(w)
  BY <1>6 DEF WorkerTypes, Dispose, DisposeAll, Introspect, Advance, Same
<1> QED BY <1>1, <1>2, <1>3, <1>4, <1>5, <1>6 DEF Step

LEMMA SameWorker ==
    ASSUME NEW v \in Workers, Same(v), WorkerInv(v)
    PROVE  WorkerInv(v)'
<1> USE DEF Same
<1>1. Blank(v)' /\ Ordered(v)' /\ AtMostOne(v)'
  BY DEF WorkerInv, AnswerInv, Blank, Ordered, AtMostOne
<1>2. Complete(v)'
  BY DEF WorkerInv, AnswerInv, Complete, Answered
<1>3. Indices(v)'
  BY DEF WorkerInv, AnswerInv, Indices, NoneSilent
<1>4. Outcome(v)'
  BY DEF WorkerInv, AnswerInv, Outcome, Plain, Meets
<1>5. InHand(v)'
  BY DEF WorkerInv, InHand, Via, Names, Cur, ReturnsObject
<1>6. RanOn(v)'
  BY DEF WorkerInv, RanOn, Via, Names
<1> QED BY <1>1, <1>2, <1>3, <1>4, <1>5, <1>6 DEF WorkerInv, AnswerInv

-----------------------------------------------------------------------------
(* Each answer is a good one.                                               *)

\* What Expected says of the current entry.
Due(w) == Expected(batch[w], Specified(batch[w]), pos[w])

LEMMA DueAt ==
    ASSUME WorkerTypes, Within, NEW w \in Workers, At(w)
    PROVE  Specified(batch[w])[pos[w]] = Due(w)
<1>1. batch[w] \in Seq(Entry) /\ pos[w] \in 1 .. Len(batch[w])
  BY CurrentEntry DEF WorkerTypes
<1> QED BY <1>1, SpecifiedAt DEF Due

LEMMA ErrorGood ==
    ASSUME WorkerTypes, Within, NEW w \in Workers, At(w),
           Plain(w) => Due(w) = "error" \/ MayBeGone(Cur(w))
    PROVE  Good(w, Errors(w))
<1> DEFINE r == Response(w, "error", 0, Root)
<1>1. r \in Reply /\ r.entry = pos[w] /\ r.val = "error" /\ r.id = Cur(w).id
  <2>1. 0 \in Nat /\ Root \in Nat /\ "error" \in Outcomes
    BY DEF Root, Outcomes
  <2> QED BY <2>1, ResponseType
<1>2. Errors(w) = <<r>>
  BY DEF Errors
<1> HIDE DEF r
<1>3. Plain(w) => Meets(w, r)
  BY <1>1, DueAt DEF Meets, Cur
<1> QED BY <1>1, <1>2, <1>3 DEF Good

LEMMA SuccessGood ==
    ASSUME WorkerTypes, Within, NEW w \in Workers, At(w), Plain(w) => Due(w) = "value"
    PROVE  Good(w, Success(w))
<1> DEFINE r == Response(w, "value", 0, Root)
<1>1. r \in Reply /\ r.entry = pos[w] /\ r.val = "value" /\ r.id = Cur(w).id
  <2>1. 0 \in Nat /\ Root \in Nat /\ "value" \in Outcomes
    BY DEF Root, Outcomes
  <2> QED BY <2>1, ResponseType
<1>2. Success(w) = IF Cur(w).id THEN <<r>> ELSE <<>>
  BY DEF Success
<1> HIDE DEF r
<1>3. Plain(w) => Meets(w, r)
  BY <1>1, DueAt DEF Meets
<1>4. CASE Cur(w).id
  BY <1>1, <1>2, <1>3, <1>4 DEF Good
<1>5. CASE ~Cur(w).id
  BY <1>2, <1>5 DEF Good
<1> QED BY <1>4, <1>5

LEMMA AnswerGood ==
    ASSUME WorkerTypes, Within, NEW w \in Workers, At(w), Cur(w).id,
           Plain(w) => IF Cur(w).does = "garble" THEN Due(w) = "error" ELSE Due(w) = "ref"
    PROVE  Good(w, Answer(w))
<1>1. CASE Cur(w).does = "garble"
  BY <1>1, ErrorGood DEF Answer
<1>2. CASE Cur(w).does # "garble"
  <2> DEFINE r == Response(w, "ref", name[w], Stored(w))
  <2>1. r \in Reply /\ r.entry = pos[w] /\ r.val = "ref" /\ r.id = Cur(w).id
    <3>1. name[w] \in Nat /\ Stored(w) \in Nat /\ "ref" \in Outcomes
      BY DEF WorkerTypes, Stored, Outcomes
    <3>2. r \in Reply /\ r.entry = pos[w] /\ r.val = "ref"
      BY <3>1, ResponseType
    <3>3. r.id = Cur(w).id
      BY <3>1, ResponseType, Zenon
    <3> QED BY <3>2, <3>3
  <2>2. Answer(w) = <<r>>
    BY <1>2 DEF Answer
  <2> HIDE DEF r
  <2>3. Plain(w) => Meets(w, r)
    BY <1>2, <2>1, DueAt DEF Meets
  <2> QED BY <2>1, <2>2, <2>3 DEF Good
<1> QED BY <1>1, <1>2

\* Under Plain, the response that a batch-local reference names is to the entry that it
\* means, and that entry was to yield a reference.
LEMMA LocalYields ==
    ASSUME WorkerTypes, Within, NEW w \in Workers, At(w), AnswerInv(w), Plain(w),
           Cur(w).to = "local", Names(w, pos[w])
    PROVE  /\ ~(Cur(w).arg >= pos[w] - 1)
           /\ Specified(batch[w])[Cur(w).arg + 1] = "ref"
<1> DEFINE k == Cur(w).arg + 1
<1>1. pos[w] \in 1 .. Len(batch[w]) /\ Cur(w).arg \in Nat /\ Len(batch[w]) \in Nat
  BY CurrentEntry, EntryFields DEF WorkerTypes
<1>2. k < pos[w] /\ k <= Len(out[w]) /\ out[w][k].val = "ref"
  BY DEF Names, Cur
<1>3. k \in 1 .. pos[w] - 1
  BY <1>1, <1>2
<1>4. NoneSilent(w, k)
  BY <1>1, <1>3 DEF Plain, NoneSilent
<1>5. out[w][k].entry = k
  BY <1>3, <1>4 DEF AnswerInv, Indices
<1>6. Len(out[w]) \in Nat
  BY DEF WorkerTypes
<1>7. Meets(w, out[w][k])
  BY <1>2, <1>3, <1>6 DEF AnswerInv, Outcome
<1>8. Specified(batch[w])[k] = "ref"
  BY <1>2, <1>3, <1>5, <1>7 DEF Meets
<1> QED BY <1>1, <1>2, <1>8

\* What a method that is called on a live object, and does not fail, is to yield.
LEMMA CalledDue ==
    ASSUME WorkerTypes, Within, NEW w \in Workers, At(w), WorkerInv(w), Plain(w),
           pc[w] \in {"call", "register"}
    PROVE  Due(w) = IF Cur(w).does \in {"fail", "garble"} THEN "error"
                    ELSE IF Cur(w).does \in {"make", "self"} THEN "ref" ELSE "value"
<1>1. Cur(w).to # "rpc" /\ Cur(w).does # "empty" /\ Via(w, pos[w], held[w])
  BY DEF WorkerInv, InHand
<1>2. ~(Cur(w).to = "local" /\ (\/ Cur(w).arg >= pos[w] - 1
                               \/ Specified(batch[w])[Cur(w).arg + 1] # "ref"))
  BY <1>1, LocalYields DEF WorkerInv, Via, Cur
<1> QED BY <1>1, <1>2 DEF Due, Expected, Cur

-----------------------------------------------------------------------------
(* A step of a worker keeps its invariant.                                  *)

\* CallMethod alone adds to the methods that ran.
RanMore(w) ==
    \/ ran'[w] = ran[w]
    \/ pc[w] = "call" /\ ran'[w] = ran[w] \cup {[entry |-> pos[w], obj |-> held[w]]}

LEMMA ViaStays ==
    ASSUME NEW w \in Workers, NEW p \in 1 .. Len(batch[w]), NEW o,
           batch[w] \in Seq(Entry), Len(out[w]) \in Nat, Len(out'[w]) \in Nat, batch' = batch,
           \A k \in 1 .. Len(out[w]) : k \in 1 .. Len(out'[w]) /\ out'[w][k] = out[w][k],
           Via(w, p, o)
    PROVE  batch[w][p].to = "local" =>
             /\ batch[w][p].arg + 1 < p /\ batch[w][p].arg + 1 <= Len(out'[w])
             /\ out'[w][batch[w][p].arg + 1].val = "ref"
             /\ out'[w][batch[w][p].arg + 1].obj = o
<1> SUFFICES ASSUME batch[w][p].to = "local"
             PROVE  /\ batch[w][p].arg + 1 < p /\ batch[w][p].arg + 1 <= Len(out'[w])
                    /\ out'[w][batch[w][p].arg + 1].val = "ref"
                    /\ out'[w][batch[w][p].arg + 1].obj = o
  OBVIOUS
<1> DEFINE k == batch[w][p].arg + 1
<1>1. /\ k < p /\ k <= Len(out[w]) /\ out[w][k].val = "ref" /\ out[w][k].obj = o
  BY DEF Via, Names
<1>2. k \in 1 .. Len(out[w])
  BY <1>1, EntryAt
<1>3. k \in 1 .. Len(out'[w]) /\ out'[w][k] = out[w][k]
  BY <1>2
<1> QED BY <1>1, <1>3

LEMMA RanOnStays ==
    ASSUME WorkerTypes, Within, NEW w \in Workers, At(w), batch' = batch, WorkerInv(w),
           pos'[w] = pos[w] \/ pos'[w] = pos[w] + 1, Len(out'[w]) \in Nat,
           \A k \in 1 .. Len(out[w]) : k \in 1 .. Len(out'[w]) /\ out'[w][k] = out[w][k],
           RanMore(w)
    PROVE  RanOn(w)'
<1>1. /\ batch[w] \in Seq(Entry) /\ Len(batch[w]) \in Nat /\ Len(out[w]) \in Nat
      /\ pos[w] \in 1 .. Len(batch[w])
  BY CurrentEntry DEF WorkerTypes
<1> SUFFICES ASSUME NEW x \in ran'[w]
             PROVE  /\ x.entry \in 1 .. Len(batch[w]) /\ x.entry <= pos'[w]
                    /\ Via(w, x.entry, x.obj)'
  BY DEF RanOn
<1>2. x.entry \in 1 .. Len(batch[w]) /\ x.entry <= pos[w] /\ Via(w, x.entry, x.obj)
  <2>1. CASE x \in ran[w]
    BY <2>1 DEF WorkerInv, RanOn
  <2>2. CASE pc[w] = "call" /\ x = [entry |-> pos[w], obj |-> held[w]]
    <3>1. Via(w, pos[w], held[w])
      BY <2>2 DEF WorkerInv, InHand
    <3> QED BY <1>1, <2>2, <3>1
  <2> QED BY <2>1, <2>2 DEF RanMore
<1>3. Via(w, x.entry, x.obj)'
  <2>1. batch[w][x.entry].to = "local" =>
          /\ batch[w][x.entry].arg + 1 < x.entry /\ batch[w][x.entry].arg + 1 <= Len(out'[w])
          /\ out'[w][batch[w][x.entry].arg + 1].val = "ref"
          /\ out'[w][batch[w][x.entry].arg + 1].obj = x.obj
    BY <1>1, <1>2, ViaStays
  <2> QED BY <2>1 DEF Via, Names
<1> QED BY <1>1, <1>2, <1>3

LEMMA AdvanceWorker ==
    ASSUME WorkerTypes, Within, NEW w \in Workers, At(w), Stays, WorkerInv(w), RanMore(w),
           NEW resps, Advance(w, resps), Good(w, resps)
    PROVE  WorkerInv(w)'
<1>1. AnswerInv(w)'
  BY AdvanceAnswers DEF WorkerInv
<1>2. /\ pos'[w] = pos[w] + 1 /\ pc'[w] \in {"next", "done"} /\ Len(out'[w]) \in Nat
      /\ \A k \in 1 .. Len(out[w]) : k \in 1 .. Len(out'[w]) /\ out'[w][k] = out[w][k]
  BY AdvanceOut
<1>3. InHand(w)'
  BY <1>2 DEF InHand
<1>4. RanOn(w)'
  BY <1>2, RanOnStays DEF Stays
<1> QED BY <1>1, <1>3, <1>4 DEF WorkerInv

LEMMA MoveWorker ==
    ASSUME WorkerTypes, Within, NEW w \in Workers, At(w), Stays, WorkerInv(w), RanMore(w),
           UNCHANGED <<pos, out>>, pc'[w] # "idle", InHand(w)'
    PROVE  WorkerInv(w)'
<1>1. RanOn(w)'
  <2>1. Len(out'[w]) \in Nat
    BY DEF WorkerTypes
  <2>2. \A k \in 1 .. Len(out[w]) : k \in 1 .. Len(out'[w]) /\ out'[w][k] = out[w][k]
    OBVIOUS
  <2> QED BY <2>1, <2>2, RanOnStays DEF Stays
<1> USE DEF Stays
<1>2. Blank(w)' /\ Ordered(w)' /\ AtMostOne(w)'
  BY DEF WorkerInv, AnswerInv, Blank, Ordered, AtMostOne, At
<1>3. Complete(w)'
  BY DEF WorkerInv, AnswerInv, Complete, Answered
<1>4. Indices(w)'
  BY DEF WorkerInv, AnswerInv, Indices, NoneSilent
<1>5. Outcome(w)'
  BY DEF WorkerInv, AnswerInv, Outcome, Plain, Meets
<1> QED BY <1>1, <1>2, <1>3, <1>4, <1>5 DEF WorkerInv, AnswerInv

LEMMA ArriveWorker ==
    ASSUME WorkerTypes, NEW w \in Workers, WorkerInv(w), Arrive(w)
    PROVE  WorkerInv(w)'
<1>1. /\ pos'[w] = 1 /\ out'[w] = <<>> /\ ran'[w] = {} /\ pc'[w] = "next" /\ Len(out'[w]) = 0
  BY DEF Arrive, WorkerTypes, WorkerInv, AnswerInv, Blank
<1>2. Blank(w)' /\ Ordered(w)' /\ AtMostOne(w)' /\ Indices(w)' /\ Outcome(w)'
  BY <1>1 DEF Blank, Ordered, AtMostOne, Indices, Outcome
<1>3. Complete(w)'
  BY <1>1 DEF Complete, Answered
<1>4. InHand(w)' /\ RanOn(w)'
  BY <1>1 DEF InHand, RanOn
<1> QED BY <1>2, <1>3, <1>4 DEF WorkerInv, AnswerInv

LEMMA EmptyBatchWorker ==
    ASSUME WorkerTypes, NEW w \in Workers, WorkerInv(w), EmptyBatch(w)
    PROVE  WorkerInv(w)'
<1> DEFINE r == [entry |-> 0, id |-> FALSE, val |-> "error", ref |-> 0, obj |-> Root]
<1>1. r.entry = 0 /\ r.id = FALSE /\ Len(<<r>>) = 1 /\ <<r>>[1] = r
  OBVIOUS
<1>2. /\ pos'[w] = 1 /\ out'[w] = <<r>> /\ ran'[w] = {} /\ pc'[w] = "done" /\ batch'[w] = <<>>
  BY DEF EmptyBatch, WorkerTypes, WorkerInv, AnswerInv, Blank
<1> HIDE DEF r
<1>3. Blank(w)' /\ Ordered(w)' /\ AtMostOne(w)' /\ Indices(w)'
  BY <1>1, <1>2 DEF Blank, Ordered, AtMostOne, Indices
<1>4. Outcome(w)'
  BY <1>1, <1>2 DEF Outcome, Meets
<1>5. Complete(w)'
  BY <1>1, <1>2 DEF Complete, Answered
<1>6. InHand(w)' /\ RanOn(w)'
  BY <1>2 DEF InHand, RanOn
<1> QED BY <1>3, <1>4, <1>5, <1>6 DEF WorkerInv, AnswerInv

LEMMA ResolveLocalWorker ==
    ASSUME WorkerTypes, Within, NEW w \in Workers, WorkerInv(w), ResolveLocal(w)
    PROVE  WorkerInv(w)'
<1>1. /\ At(w) /\ Stays /\ ran' = ran /\ Cur(w).to = "local"
  BY DEF ResolveLocal, At, Stays
<1>2. RanMore(w)
  BY <1>1 DEF RanMore
<1>3. CASE Resolvable(w, Cur(w).arg)
  <2>1. /\ name'[w] = Named(w, Cur(w).arg).ref /\ pc'[w] = "handle" /\ UNCHANGED <<pos, out>>
    BY <1>3 DEF ResolveLocal, WorkerTypes
  <2>2. /\ Cur(w).arg \in Nat /\ pos[w] \in Nat /\ Len(out[w]) \in Nat
    BY <1>1, CurrentEntry, EntryFields DEF WorkerTypes
  <2>3. Names(w, pos[w])
    BY <1>3, <2>2 DEF Resolvable, Named, Names, Cur
  <2>4. InHand(w)'
    BY <1>1, <2>1, <2>3 DEF InHand, Names, Named, Cur, Stays
  <2> QED BY <1>1, <1>2, <2>1, <2>4, MoveWorker
<1>4. CASE ~Resolvable(w, Cur(w).arg)
  <2>1. Advance(w, Errors(w))
    BY <1>4 DEF ResolveLocal
  <2>2. Good(w, Errors(w))
    BY <1>1, ErrorGood DEF MayBeGone
  <2> QED BY <1>1, <1>2, <2>1, <2>2, AdvanceWorker
<1> QED BY <1>3, <1>4

LEMMA AtOnceWorker ==
    ASSUME WorkerTypes, Within, Placed, NEW w \in Workers, WorkerInv(w),
           MissingMethod(w) \/ Dispose(w) \/ DisposeAll(w) \/ Introspect(w)
    PROVE  WorkerInv(w)'
<1>1. At(w) /\ Stays /\ RanMore(w)
  <2>1. Handling(w) /\ Stays /\ ran' = ran
    BY DEF MissingMethod, Dispose, DisposeAll, Introspect, Stays
  <2> QED BY <2>1, HandlingAt DEF RanMore
<1>2. CASE MissingMethod(w)
  <2>1. Advance(w, Errors(w)) /\ Cur(w).does = "empty"
    BY <1>2 DEF MissingMethod
  <2>2. Due(w) = "error"
    BY <2>1 DEF Due, Expected, Cur
  <2> QED BY <1>1, <2>1, <2>2, ErrorGood, AdvanceWorker
<1>3. CASE Dispose(w)
  <2>1. /\ Cur(w).to = "rpc" /\ Cur(w).does = "dispose"
        /\ Advance(w, Success(w)) \/ Advance(w, Errors(w))
    BY <1>3 DEF Dispose
  <2>2. Due(w) = "value" /\ MayBeGone(Cur(w))
    BY <2>1 DEF Due, Expected, Cur, MayBeGone
  <2> QED BY <1>1, <2>1, <2>2, ErrorGood, SuccessGood, AdvanceWorker
<1>4. CASE DisposeAll(w)
  <2>1. Cur(w).to = "rpc" /\ Cur(w).does = "dispose_all" /\ Advance(w, Success(w))
    BY <1>4 DEF DisposeAll
  <2>2. Due(w) = "value"
    BY <2>1 DEF Due, Expected, Cur
  <2> QED BY <1>1, <2>1, <2>2, SuccessGood, AdvanceWorker
<1>5. CASE Introspect(w)
  <2>1. /\ Cur(w).to = "rpc" /\ Cur(w).does \notin {"empty", "dispose", "dispose_all"}
        /\ Advance(w, IF Cur(w).does = "introspect" THEN Success(w) ELSE Errors(w))
    BY <1>5 DEF Introspect
  <2>2. CASE Cur(w).does = "introspect"
    <3>1. Due(w) = "value"
      BY <2>1, <2>2 DEF Due, Expected, Cur
    <3> QED BY <1>1, <2>1, <2>2, <3>1, SuccessGood, AdvanceWorker
  <2>3. CASE Cur(w).does # "introspect"
    <3>1. Due(w) = "error"
      BY <2>1, <2>3 DEF Due, Expected, Cur
    <3> QED BY <1>1, <2>1, <2>3, <3>1, ErrorGood, AdvanceWorker
  <2> QED BY <2>2, <2>3
<1> QED BY <1>2, <1>3, <1>4, <1>5

\* The object that is looked up is the one the response named by the entry was about.
LEMMA LookUpWorker ==
    ASSUME WorkerTypes, Within, Placed, Denotes, NEW w \in Workers, WorkerInv(w), LookUp(w)
    PROVE  WorkerInv(w)'
<1>1. /\ Handling(w) /\ Stays /\ ran' = ran /\ Cur(w).does # "empty"
      /\ Cur(w).to \in {"ref", "local"}
  BY DEF LookUp, Stays
<1>2. At(w) /\ RanMore(w)
  BY <1>1, HandlingAt DEF RanMore
<1>3. CASE Target(w) \in Live
  <2>1. /\ held'[w] = localRefs[Target(w)] /\ pc'[w] = "call" /\ UNCHANGED <<pos, out>>
    BY <1>3 DEF LookUp, WorkerTypes
  <2>2. ASSUME Cur(w).to = "local"
        PROVE  Names(w, pos[w]) /\ out[w][Cur(w).arg + 1].obj = localRefs[Target(w)]
    <3> DEFINE k == Cur(w).arg + 1
    <3>1. pc[w] = "handle" /\ Target(w) = name[w]
      BY <1>1, <2>2 DEF Handling, Target
    <3>2. Names(w, pos[w]) /\ out[w][k].ref = name[w]
      BY <3>1 DEF WorkerInv, InHand
    <3>3. k \in 1 .. Len(out[w]) /\ out[w][k].val = "ref"
      <4>1. k <= Len(out[w]) /\ out[w][k].val = "ref"
        BY <3>2 DEF Names, Cur
      <4> QED BY <4>1, <1>2, CurrentEntry, EntryFields DEF WorkerTypes
    <3>4. out[w][k].obj = localRefs[name[w]]
      BY <1>3, <3>1, <3>2, <3>3 DEF Denotes
    <3> QED BY <3>1, <3>2, <3>4
  <2>3. Via(w, pos[w], localRefs[Target(w)])
    BY <2>2 DEF Via, Cur
  <2>4. InHand(w)'
    BY <1>1, <2>1, <2>3 DEF InHand, Via, Names, Cur, Stays
  <2> QED BY <1>1, <1>2, <2>1, <2>4, MoveWorker
<1>4. CASE Target(w) \notin Live
  <2>1. Advance(w, Errors(w)) /\ MayBeGone(Cur(w))
    BY <1>1, <1>4 DEF LookUp, MayBeGone
  <2> QED BY <1>1, <1>2, <2>1, ErrorGood, AdvanceWorker
<1> QED BY <1>3, <1>4

LEMMA CallRootWorker ==
    ASSUME WorkerTypes, Within, Placed, NEW w \in Workers, WorkerInv(w), CallRoot(w)
    PROVE  WorkerInv(w)'
<1>1. /\ Handling(w) /\ Stays /\ ran' = ran /\ Cur(w).does # "empty" /\ Cur(w).to = "root"
      /\ pc'[w] = "call" /\ UNCHANGED <<pos, out>>
  BY DEF CallRoot, Stays, WorkerTypes
<1>2. At(w) /\ RanMore(w)
  BY <1>1, HandlingAt DEF RanMore
<1>3. InHand(w)'
  BY <1>1 DEF InHand, Via, Cur, Stays
<1> QED BY <1>1, <1>2, <1>3, MoveWorker

LEMMA CallMethodWorker ==
    ASSUME WorkerTypes, Within, Placed, NEW w \in Workers, WorkerInv(w), CallMethod(w)
    PROVE  WorkerInv(w)'
<1>1. /\ At(w) /\ Stays /\ held' = held /\ pc[w] = "call"
      /\ ran' = [ran EXCEPT ![w] = @ \cup {[entry |-> pos[w], obj |-> held[w]]}]
  BY DEF CallMethod, At, Stays, Placed
<1>2. RanMore(w)
  BY <1>1 DEF RanMore, WorkerTypes
<1>3. Cur(w).to # "rpc" /\ Cur(w).does # "empty" /\ Via(w, pos[w], held[w])
  BY <1>1 DEF WorkerInv, InHand
<1>4. CASE Cur(w).id /\ ReturnsObject(w)
  <2>1. pc'[w] = "register" /\ UNCHANGED <<pos, out>>
    BY <1>4 DEF CallMethod, WorkerTypes
  <2>2. InHand(w)'
    BY <1>1, <1>3, <1>4, <2>1 DEF InHand, Via, Names, Cur, ReturnsObject, Stays
  <2> QED BY <1>1, <1>2, <2>1, <2>2, MoveWorker
<1>5. CASE ~(Cur(w).id /\ ReturnsObject(w))
  <2>1. Advance(w, IF Cur(w).does = "fail" THEN Errors(w) ELSE Success(w))
    BY <1>5 DEF CallMethod
  <2>2. Plain(w) => /\ Cur(w).id
                    /\ Due(w) = IF Cur(w).does \in {"fail", "garble"} THEN "error"
                                ELSE IF Cur(w).does \in {"make", "self"} THEN "ref" ELSE "value"
    BY <1>1, CalledDue, CurrentEntry DEF Plain, Cur
  <2>3. CASE Cur(w).does = "fail"
    BY <1>1, <1>2, <2>1, <2>2, <2>3, ErrorGood, AdvanceWorker
  <2>4. CASE Cur(w).does # "fail"
    <3>1. Plain(w) => Due(w) = "value"
      BY <1>5, <2>2, <2>4 DEF ReturnsObject
    <3> QED BY <1>1, <1>2, <2>1, <2>4, <3>1, SuccessGood, AdvanceWorker
  <2> QED BY <2>3, <2>4
<1> QED BY <1>4, <1>5

LEMMA RegisterWorker ==
    ASSUME WorkerTypes, Within, Placed, NEW w \in Workers, WorkerInv(w), Register(w)
    PROVE  WorkerInv(w)'
<1>1. At(w) /\ Stays /\ pc[w] = "register" /\ Advance(w, Answer(w)) /\ RanMore(w)
  BY RegisterParts DEF At, Placed, RanMore
<1>2. Cur(w).id /\ ReturnsObject(w)
  BY <1>1 DEF WorkerInv, InHand
<1>3. Plain(w) => IF Cur(w).does = "garble" THEN Due(w) = "error" ELSE Due(w) = "ref"
  BY <1>1, <1>2, CalledDue DEF ReturnsObject
<1> QED BY <1>1, <1>2, <1>3, AnswerGood, AdvanceWorker

-----------------------------------------------------------------------------
(* The table of the session keeps denoting what the responses were about.   *)

LEMMA DenotesStays ==
    ASSUME Denotes, SameRefs, Live' \subseteq Live, \A r \in Live' : localRefs'[r] = localRefs[r]
    PROVE  Denotes'
BY DEF Denotes, SameRefs

LEMMA RegisterDenotes ==
    ASSUME WorkerTypes, Within, Placed, RefInv, Denotes, NEW w \in Workers, Register(w)
    PROVE  Denotes'
<1>1. /\ Live' = Live \cup {name[w]} /\ name[w] \notin Live \cup disposed
      /\ \A r \in Live : localRefs'[r] = localRefs[r]
  BY RegisterLive
<1>2. localRefs'[name[w]] = Stored(w)
  BY RegisterParts DEF AddLocalRef
<1> SUFFICES ASSUME NEW v \in Workers, NEW k \in 1 .. Len(out'[v]),
                    out'[v][k].val = "ref", out'[v][k].ref \in Live'
             PROVE  localRefs'[out'[v][k].ref] = out'[v][k].obj
  BY DEF Denotes
<1>3. CASE k \in 1 .. Len(out[v]) /\ out'[v][k] = out[v][k]
  <2>1. out[v][k].ref \in Live \cup disposed
    BY <1>3 DEF RefInv, DisposedOnce
  <2>2. out[v][k].ref \in Live
    BY <1>1, <1>3, <2>1
  <2>3. localRefs[out[v][k].ref] = out[v][k].obj
    BY <1>3, <2>2 DEF Denotes
  <2> QED BY <1>1, <1>3, <2>2, <2>3
<1>4. CASE out'[v][k].ref = name[w] /\ out'[v][k].obj = Stored(w)
  BY <1>2, <1>4
<1> QED BY <1>3, <1>4, RegisterOut

LEMMA DenotesStep ==
    ASSUME TypeInv, RefInv, Denotes, NEW w \in Workers, Arrive(w) \/ Step(w)
    PROVE  Denotes'
<1>1. WorkerTypes /\ Within /\ Placed
  BY TypeParts
<1>2. CASE Register(w)
  BY <1>1, <1>2, RegisterDenotes
<1>3. CASE CallMethod(w)
  <2>1. SameRefs /\ localRefs' = localRefs /\ Live' = Live
    BY <1>1, <1>3, CallMethodRefs DEF Allocates, sessionVars, Live
  <2> QED BY <2>1, DenotesStays
<1>4. CASE ~Register(w) /\ ~CallMethod(w)
  <2>1. SameRefs
    BY <1>1, <1>4, OtherRefs DEF Step
  <2>2. CASE UNCHANGED sessionVars
    BY <2>1, <2>2, DenotesStays DEF sessionVars, Live
  <2>3. CASE \E S \in SUBSET Live : RemoveRefs(S)
    <3>1. Live' \subseteq Live /\ \A r \in Live' : localRefs'[r] = localRefs[r]
      BY <2>3 DEF RemoveRefs, Live
    <3> QED BY <2>1, <3>1, DenotesStays
  <2> QED BY <1>4, <2>2, <2>3, SessionSteps
<1> QED BY <1>2, <1>3, <1>4

LEMMA HandStep ==
    ASSUME TypeInv, RefInv, HandInv, NEW w \in Workers, Arrive(w) \/ Step(w)
    PROVE  HandInv'
<1>1. WorkerTypes /\ Within /\ Placed
  BY TypeParts
<1>2. Denotes /\ \A v \in Workers : WorkerInv(v)
  BY DEF HandInv
<1>3. Denotes'
  BY <1>2, DenotesStep
<1>4. WorkerInv(w)'
  BY <1>1, <1>2, ArriveWorker, EmptyBatchWorker, ResolveLocalWorker, AtOnceWorker,
     LookUpWorker, CallRootWorker, CallMethodWorker, RegisterWorker DEF Step
<1>5. ASSUME NEW v \in Workers, v # w PROVE WorkerInv(v)'
  BY <1>1, <1>2, <1>5, OthersStay, SameWorker
<1> QED BY <1>3, <1>4, <1>5 DEF HandInv

LEMMA HandNext == ASSUME TypeInv, RefInv, HandInv, [Next]_vars PROVE HandInv'
<1>1. CASE UNCHANGED vars
  <2>1. Denotes'
    BY <1>1 DEF HandInv, Denotes, vars, workerVars, sessionVars, Live
  <2>2. \A v \in Workers : Same(v)
    BY <1>1 DEF Same, vars, workerVars
  <2> QED BY <2>1, <2>2, SameWorker DEF HandInv
<1> QED BY <1>1, HandStep DEF Next

LEMMA HandInvariant == Spec => []HandInv
<1>1. Init => HandInv
  BY InitHand
<1>2. TypeInv /\ RefInv /\ HandInv /\ [Next]_vars => HandInv'
  BY HandNext
<1> QED BY <1>1, <1>2, Invariant, PTL DEF Spec

-----------------------------------------------------------------------------

\* HandleBatch answers every entry with an id exactly once and in the order of the
\* batch, whichever path it takes, for any goroutines and any batches.
THEOREM AnsweredOnce == Spec => []EachAnsweredOnce
<1>1. HandInv => EachAnsweredOnce
  BY DEF HandInv, WorkerInv, AnswerInv, Ordered, Complete, Answered, EachAnsweredOnce
<1> QED BY <1>1, HandInvariant, PTL

\* Without notifications before it, a batch-local \N only runs a method on the object
\* that entry N returned, however the other goroutines register and dispose.
THEOREM LocalRefsExact == Spec => []LocalRefExact
<1>1. TypeInv /\ HandInv => LocalRefExact
  <2> SUFFICES ASSUME TypeInv, HandInv, NEW w \in Workers, NEW x \in ran[w],
                      batch[w][x.entry].to = "local", \A p \in 1 .. x.entry : batch[w][p].id
               PROVE  RunsOnEntry(w, x)
    BY DEF LocalRefExact
  <2> DEFINE k == batch[w][x.entry].arg + 1
  <2>1. x.entry \in 1 .. Len(batch[w]) /\ x.entry <= pos[w] /\ Via(w, x.entry, x.obj)
    BY DEF HandInv, WorkerInv, RanOn
  <2>2. k < x.entry /\ k <= Len(out[w]) /\ out[w][k].val = "ref" /\ out[w][k].obj = x.obj
    BY <2>1 DEF Via, Names
  <2>3. /\ batch[w] \in Seq(Entry) /\ Len(batch[w]) \in Nat /\ pos[w] \in Nat
        /\ Len(out[w]) \in Nat
    BY DEF TypeInv, TypeOK
  <2>4. batch[w][x.entry].arg \in Nat
    BY <2>1, <2>3, EntryAt
  <2> HIDE DEF k
  <2>5. k \in Nat /\ k # 0
    BY <2>4 DEF k
  <2>6. k \in 1 .. Len(out[w]) /\ k \in 1 .. pos[w] - 1
    BY <2>1, <2>2, <2>3, <2>5
  <2>7. NoneSilent(w, k)
    BY <2>1, <2>2, <2>3, <2>5 DEF NoneSilent
  <2>8. out[w][k].entry = k
    BY <2>6, <2>7 DEF HandInv, WorkerInv, AnswerInv, Indices
  <2> QED BY <2>2, <2>6, <2>8 DEF RunsOnEntry, k
<1>2. Spec => []TypeInv
  BY Invariant, PTL
<1> QED BY <1>1, <1>2, HandInvariant, PTL

\* In a batch without notifications, answered in JSON, every outcome is the one that
\* SPEC.md 3.6.2 specifies, or an error about a reference that is gone.
THEOREM OutcomesCorrect == Spec => []OutcomesAsSpecified
<1>1. HandInv => OutcomesAsSpecified
  BY DEF HandInv, WorkerInv, AnswerInv, Outcome, Plain, Meets, OutcomesAsSpecified
<1> QED BY <1>1, HandInvariant, PTL
=============================================================================
