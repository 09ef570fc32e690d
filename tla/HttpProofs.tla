----------------------------- MODULE HttpProofs -----------------------------
(***************************************************************************)
(* Proofs about the client and the handler of Http, for any operations,    *)
(* plans, number of formats, troubles and sessions.                        *)
(***************************************************************************)
EXTENDS Http, FiniteSetTheorems, TLAPS

\* The server has stored the session.
Known(s) == s \in sessions \cup ended

\* A request with a new session that is not stored yet: storeSession comes last, except
\* for a stream.
Unstored(x) ==
    /\ ~exchange[x].existing
    /\ exchange[x].stage = "held" \/ (exchange[x].stage = "ran" /\ ~Streamed(x))

\* How far an exchange has come, and what it knows by then.
Unserved(x) == exchange[x].stage \in {"none", "sent", "lost", "rejected"}
Answered(x) == exchange[x].stage \in {"replied", "failed"}

ExchangeOK(x) ==
    /\ Unserved(x) => /\ exchange[x].session = NoId /\ ~exchange[x].existing
                      /\ exchange[x].told = NoId
    /\ Unserved(x) \/ exchange[x].stage \in {"held", "streaming"} => exchange[x].result = "none"
    /\ InProgress(x) => Method(x) # "delete"
    /\ InProgress(x) \/ (Answered(x) /\ Method(x) # "delete") => exchange[x].session # NoId
    /\ exchange[x].session <= created /\ exchange[x].told \in {NoId, exchange[x].session}
ExchangesOK == \A x \in Exchanges : ExchangeOK(x)

\* An attempt that is not made yet has no exchange.
AttemptsOK == \A x \in Exchanges :
    \/ pc[x[1]] = "new" \/ x[2] > attempt[x[1]]
    \/ pc[x[1]] = "send" /\ x[2] = attempt[x[1]]
    => exchange[x].stage = "none"

\* Where the session of a request is: in the table, or with that request alone.
Placed(x) ==
    /\ exchange[x].existing => Known(exchange[x].session)
    /\ Streamed(x) /\ exchange[x].stage \in {"streaming", "ran", "replied", "failed"}
         /\ exchange[x].session # NoId => Known(exchange[x].session)
    /\ Unstored(x) => ~Known(exchange[x].session)
Shared(x, y) ==
    /\ ~exchange[x].existing /\ ~exchange[y].existing
    /\ exchange[x].session = exchange[y].session /\ exchange[x].session # NoId
SessionsOK ==
    /\ \A x \in Exchanges : Placed(x)
    /\ \A x, y \in Exchanges : Shared(x, y) => x = y

HttpInv == TypeOK /\ ExchangesOK /\ AttemptsOK /\ SessionsOK

\* How often an operation has run is the number of its attempts that did.
RanBy(o) == {n \in 1 .. Attempts : exchange[<<o, n>>].result = "ok"}
RanOK == \A o \in Ops :
    /\ plan[o].method # "delete" => ran[o] = Cardinality(RanBy(o))
    /\ pc[o] # "done" => outcome[o] = "none"

\* The objects a session refers to, the one that a request has made, and the session of a
\* request that was ended meanwhile.
HolderOK(s) == \A x \in refs[s] :
    /\ Method(x) = "make" /\ exchange[x].session = s
    /\ exchange[x].stage \in {"ran", "replied", "failed"}
MadeOK(x) ==
    LET s == exchange[x].session IN
    /\ InProgress(x) /\ s \in ended => s \in interrupted
    /\ Method(x) = "make" =>
         /\ exchange[x].stage \in {"ran", "replied"} => x \in refs[s] \cup disposed
         /\ exchange[x].stage = "ran" /\ Unstored(x) => x \in refs[s]
         /\ exchange[x].stage = "replied" => exchange[x].told = s /\ Known(s)
ObjectsOK ==
    /\ \A s \in Ids : HolderOK(s)
    /\ \A x \in Exchanges : MadeOK(x)

ObjectsInv == HttpInv /\ ObjectsOK /\ LeaksOnlyIfInterrupted

\* One operation at a time and nothing lost: where the session on the server is known to
\* the client, or about to be told to it.
Sequential == ~overlapped /\ troubles = 0
WaitOK(o) ==
    LET x == Last(o) IN
    /\ exchange[x].stage # "none"
    /\ exchange[x].stage = "sent" => sessions \subseteq {exchange[x].asks} \cap {session}
    /\ InProgress(x) => sessions \subseteq {exchange[x].session}
    /\ exchange[x].stage = "replied" \/ (Streamed(x) /\ exchange[x].stage \in {"streaming", "ran"})
         => sessions \subseteq {exchange[x].told}
    /\ exchange[x].stage = "replied" /\ Method(x) = "delete" => sessions = {}
AheadOK(x) ==
    /\ exchange[x].stage \notin {"failed", "lost", "rejected"}
    /\ exchange[x].stage \in {"sent", "held"} \/ (exchange[x].stage = "ran" /\ ~Streamed(x)) =>
         pc[x[1]] = "wait" /\ x = Last(x[1])
    /\ Streamed(x) /\ exchange[x].stage \in {"streaming", "ran"} =>
         exchange[x].told = exchange[x].session
SequentialOK ==
    /\ \A o, q \in Ops : UnderWay(o) /\ UnderWay(q) => o = q
    /\ \A x \in Exchanges : AheadOK(x)
    /\ (\A o \in Ops : pc[o] # "wait") => sessions \subseteq {session}
    /\ \A o \in Ops : pc[o] = "wait" => WaitOK(o)
    /\ \A o \in Ops : pc[o] = "listen" => sessions \subseteq {Reply(o).told}
SequentialInv == troubles \in Nat /\ (Sequential => SequentialOK)

-----------------------------------------------------------------------------
(* HttpInv is kept.                                                         *)

LEMMA Pairs ==
  /\ \A x \in Exchanges : x[1] \in Ops /\ x[2] \in 1 .. Attempts /\ x = <<x[1], x[2]>>
  /\ \A o \in Ops, n \in 1 .. Attempts : <<o, n>> \in Exchanges /\ <<o, n>>[1] = o /\ <<o, n>>[2] = n
  BY DEF Exchanges

LEMMA Blank == NoExchange \in HttpExchanges
  BY DEF NoExchange, HttpExchanges, Stages, Results

LEMMA HttpInit == Init => HttpInv
<1> SUFFICES ASSUME Init  PROVE HttpInv
  OBVIOUS
<1> USE DEF Init, ServerInit, ClientInit
<1>1. TypeOK
  BY Blank, HttpBoundsAssumption DEF TypeOK, NoId, Formats, Ids
<1>2. ExchangesOK /\ AttemptsOK
  BY DEF ExchangesOK, ExchangeOK, AttemptsOK, NoExchange, InProgress, Unserved, Answered, NoId
<1>3. SessionsOK
  BY DEF SessionsOK, Placed, Shared, NoExchange, Known, Unstored, NoId
<1>. QED  BY <1>1, <1>2, <1>3 DEF HttpInv

\* The fields of an exchange, and the attempt an operation is at.
LEMMA Fields ==
  ASSUME TypeOK
  PROVE  /\ \A x \in Exchanges :
              /\ exchange[x] \in HttpExchanges
              /\ exchange[x].session \in Ids \cup {NoId} /\ exchange[x].session \in Nat
              /\ exchange[x].asks \in Ids \cup {NoId} /\ exchange[x].existing \in BOOLEAN
              /\ exchange[x].stage \in Stages
         /\ \A o \in Ops : attempt[o] \in 1 .. Attempts /\ Last(o) \in Exchanges
                          /\ Last(o)[1] = o /\ Last(o)[2] = attempt[o]
         /\ created \in Nat /\ created <= MaxSessions
         /\ sessions \subseteq Ids /\ ended \subseteq Ids
<1>1. \A x \in Exchanges : exchange[x] \in HttpExchanges
  BY DEF TypeOK
<1>2. \A o \in Ops : attempt[o] \in 1 .. Attempts
  BY DEF TypeOK
<1>3. created \in Nat /\ created <= MaxSessions
  BY HttpBoundsAssumption DEF TypeOK
<1>4. sessions \subseteq Ids /\ ended \subseteq Ids
  BY <1>3, HttpBoundsAssumption DEF TypeOK, Ids
<1>. QED  BY <1>1, <1>2, <1>3, <1>4, Pairs, HttpBoundsAssumption DEF HttpExchanges, Last, Ids, NoId

LEMMA FieldTypes ==
  ASSUME NEW e \in HttpExchanges, NEW st \in Stages
  PROVE  /\ [e EXCEPT !.stage = st] \in HttpExchanges
         /\ \A s \in Ids \cup {NoId} :
              /\ [e EXCEPT !.stage = st, !.session = s] \in HttpExchanges
              /\ [e EXCEPT !.stage = st, !.existing = TRUE, !.session = s] \in HttpExchanges
              /\ [e EXCEPT !.stage = st, !.told = s] \in HttpExchanges
              /\ [e EXCEPT !.stage = st, !.asks = s] \in HttpExchanges
         /\ \A r \in Results : [e EXCEPT !.stage = st, !.result = r] \in HttpExchanges
  BY DEF HttpExchanges

LEMMA HttpGet ==
  ASSUME HttpInv, NEW x \in Exchanges, GetOrCreateSession(x), UNCHANGED clientVars
  PROVE  HttpInv'
<1> USE DEF clientVars, fixed, objectVars
<1>1. /\ exchange[x].stage = "sent" /\ Method(x) # "delete"
      /\ \A y \in Exchanges \ {x} : exchange'[y] = exchange[y]
      /\ exchange'[x].stage = "held" /\ exchange'[x].told = exchange[x].told
      /\ exchange'[x].result = exchange[x].result /\ exchange'[x].format = exchange[x].format
      /\ \/ /\ exchange[x].asks \in sessions /\ exchange'[x].existing = TRUE
            /\ exchange'[x].session = exchange[x].asks /\ created' = created
         \/ /\ exchange'[x].existing = FALSE
            /\ exchange'[x].session = created + 1 /\ created' = created + 1
            /\ created < MaxSessions
  <2>1. exchange[x].existing = FALSE
    BY Fields DEF GetOrCreateSession, HttpInv, ExchangesOK, ExchangeOK, Unserved
  <2>2. CASE Resumed(x)
    BY <2>2, Fields DEF HttpInv, TypeOK, HttpExchanges, GetOrCreateSession, Resumed
  <2>3. CASE ~Resumed(x)
    <3>1. exchange'[x].existing = exchange[x].existing
      BY <2>3, Fields DEF HttpInv, TypeOK, HttpExchanges, GetOrCreateSession
    <3>. QED  BY <2>1, <2>3, <3>1, Fields DEF HttpInv, TypeOK, HttpExchanges, GetOrCreateSession
  <2>. QED  BY <2>2, <2>3
<1>u. UNCHANGED <<plan, sessions, ended, interrupted, refs, disposed, ran, session, contentType,
                  pc, outcome, attempt, formats>>
  BY DEF GetOrCreateSession
<1>2. TypeOK'
  <2>1. exchange' \in [Exchanges -> HttpExchanges]
    <3>1. exchange'[x] \in HttpExchanges
      <4>. DEFINE e == exchange[x]
      <4>1. /\ e \in HttpExchanges /\ "held" \in Stages /\ e.asks \in Ids \cup {NoId}
            /\ created < MaxSessions => created + 1 \in Ids \cup {NoId}
        BY Fields, HttpBoundsAssumption DEF HttpInv, Stages, Ids
      <4>2. \/ exchange'[x] = [e EXCEPT !.stage = "held", !.existing = TRUE, !.session = e.asks]
            \/ exchange'[x] = [e EXCEPT !.stage = "held", !.session = created + 1]
               /\ created < MaxSessions
        BY DEF GetOrCreateSession, HttpInv, TypeOK
      <4>3. [e EXCEPT !.stage = "held", !.existing = TRUE, !.session = e.asks] \in HttpExchanges
        BY <4>1, FieldTypes
      <4>4. created < MaxSessions
              => [e EXCEPT !.stage = "held", !.session = created + 1] \in HttpExchanges
        BY <4>1, FieldTypes
      <4>. QED  BY <4>2, <4>3, <4>4
    <3>. QED  BY <1>1, <3>1 DEF HttpInv, TypeOK, GetOrCreateSession
  <2>2. age' \in [Ids -> 0 .. 2]
    BY DEF HttpInv, TypeOK, GetOrCreateSession
  <2>3. created' \in 0 .. MaxSessions /\ created <= created'
    BY <1>1, Fields, HttpBoundsAssumption DEF HttpInv
  <2>. QED  BY <1>u, <2>1, <2>2, <2>3, Fields, HttpBoundsAssumption DEF HttpInv, TypeOK
<1>3. ExchangesOK'
  <2>1. ExchangeOK(x)'
    BY <1>1, <1>u, Fields DEF HttpInv, TypeOK, ExchangesOK, ExchangeOK, Unserved, InProgress,
       Answered, Method, NoId
  <2>2. ASSUME NEW y \in Exchanges, y # x  PROVE ExchangeOK(y)'
    BY <1>1, <1>u, <2>2, Fields DEF HttpInv, ExchangesOK, ExchangeOK, Unserved, InProgress,
       Answered, Method
  <2>. QED  BY <2>1, <2>2 DEF ExchangesOK
<1>4. AttemptsOK'
  BY <1>1, <1>u DEF HttpInv, AttemptsOK
<1>5. SessionsOK'
  <2>1. Placed(x)'
    <3>1. created + 1 \notin sessions \cup ended
      BY Fields DEF HttpInv, TypeOK
    <3>. QED  BY <1>1, <1>u, <3>1 DEF Placed, Unstored, Known
  <2>2. ASSUME NEW y \in Exchanges, y # x  PROVE Placed(y)'
    BY <1>1, <1>u, <2>2 DEF HttpInv, SessionsOK, Placed, Unstored, Known, Streamed, Single
  <2>3. ASSUME NEW y \in Exchanges, y # x  PROVE ~Shared(x, y)' /\ ~Shared(y, x)'
    BY <1>1, <2>3, Fields DEF HttpInv, ExchangesOK, ExchangeOK, Shared, Unserved
  <2>4. ASSUME NEW y \in Exchanges, NEW z \in Exchanges, Shared(y, z)', y # x, z # x  PROVE y = z
    BY <1>1, <2>4 DEF HttpInv, SessionsOK, Shared
  <2>. QED  BY <2>1, <2>2, <2>3, <2>4 DEF SessionsOK
<1>. QED  BY <1>2, <1>3, <1>4, <1>5 DEF HttpInv

\* One exchange moves on with the session it has, which it may store.
LEMMA HttpMove ==
  ASSUME HttpInv, NEW x \in Exchanges, UNCHANGED <<plan, created>>,
         \A y \in Exchanges \ {x} : exchange'[y] = exchange[y],
         exchange'[x].session = exchange[x].session, exchange'[x].existing = exchange[x].existing,
         ExchangeOK(x)', Placed(x)',
         \A s : Known(s) => Known(s)',
         \A s : Known(s)' => Known(s) \/ (s = exchange[x].session /\ Unstored(x))
  PROVE  ExchangesOK' /\ SessionsOK'
<1>1. ExchangesOK'
  <2>1. ASSUME NEW y \in Exchanges, y # x  PROVE ExchangeOK(y)'
    BY <2>1 DEF HttpInv, ExchangesOK, ExchangeOK, Unserved, InProgress, Answered, Method
  <2>. QED  BY <2>1 DEF ExchangesOK
<1>2. ASSUME NEW y \in Exchanges, y # x  PROVE Placed(y)'
  <2>1. Placed(y) /\ (Streamed(y)' <=> Streamed(y)) /\ (Unstored(y)' <=> Unstored(y))
    BY <1>2 DEF HttpInv, SessionsOK, Streamed, Single, Unstored
  <2>2. ASSUME Unstored(x), Unstored(y)  PROVE exchange[y].session # exchange[x].session
    BY <1>2, <2>2 DEF HttpInv, SessionsOK, Shared, ExchangesOK, ExchangeOK, InProgress, Unstored
  <2>. QED  BY <1>2, <2>1, <2>2 DEF Placed
<1>3. ASSUME NEW y \in Exchanges, NEW z \in Exchanges, Shared(y, z)'  PROVE y = z
  BY <1>3 DEF HttpInv, SessionsOK, Shared
<1>. QED  BY <1>1, <1>2, <1>3 DEF SessionsOK

LEMMA HttpStream ==
  ASSUME HttpInv, NEW x \in Exchanges, OpenStream(x), UNCHANGED clientVars
  PROVE  HttpInv'
<1> USE DEF clientVars, fixed, objectVars
<1>. DEFINE s == exchange[x].session
<1>1. /\ exchange[x].stage = "held" /\ Streamed(x) /\ s \in Ids
      /\ exchange' = [exchange EXCEPT ![x].stage = "streaming", ![x].told = s]
      /\ UNCHANGED <<plan, created, refs, disposed, ran, ended, interrupted, session, contentType,
                     pc, outcome, attempt, formats>>
  BY Fields DEF OpenStream, HttpInv, ExchangesOK, ExchangeOK, InProgress
<1>2. /\ \A y \in Exchanges \ {x} : exchange'[y] = exchange[y]
      /\ exchange'[x] = [exchange[x] EXCEPT !.stage = "streaming", !.told = s]
      /\ exchange'[x] \in HttpExchanges
  BY <1>1, Fields, FieldTypes DEF HttpInv, TypeOK, Stages
<1>3. /\ exchange'[x].stage = "streaming" /\ exchange'[x].told = s
      /\ exchange'[x].session = s /\ exchange'[x].existing = exchange[x].existing
      /\ exchange'[x].result = exchange[x].result
  BY <1>2, Fields DEF HttpExchanges, HttpInv
<1>4. /\ \/ sessions' = sessions \cup {s} /\ ~exchange[x].existing /\ Unstored(x)
         \/ sessions' = sessions /\ exchange[x].existing
      /\ exchange[x].existing => Known(s)
      /\ ~exchange[x].existing => s \notin ended
      /\ s <= created
  BY <1>1 DEF OpenStream, Store, HttpInv, SessionsOK, Placed, Unstored, Known, ExchangesOK, ExchangeOK
<1>5. TypeOK'
  <2>1. age' \in [Ids -> 0 .. 2]
    BY DEF OpenStream, Store, HttpInv, TypeOK
  <2>2. sessions' \cup ended' \subseteq 1 .. created' /\ sessions' \cap ended' = {}
    BY <1>1, <1>4, Fields DEF HttpInv, TypeOK, Ids
  <2>. QED  BY <1>1, <1>2, <2>1, <2>2 DEF HttpInv, TypeOK
<1>6. ExchangeOK(x)'
  BY <1>1, <1>3, Fields DEF HttpInv, ExchangesOK, ExchangeOK, Unserved, InProgress, Answered,
     Method, Ids, NoId
<1>7. Placed(x)' /\ \A t : Known(t)' <=> Known(t) \/ t = s
  BY <1>1, <1>3, <1>4 DEF Placed, Known, Unstored
<1>8. ExchangesOK' /\ SessionsOK'
  BY <1>1, <1>2, <1>3, <1>4, <1>6, <1>7, HttpMove
<1>9. AttemptsOK'
  BY <1>1, <1>2, <1>3 DEF HttpInv, AttemptsOK
<1>. QED  BY <1>5, <1>8, <1>9 DEF HttpInv

LEMMA HttpHandle ==
  ASSUME HttpInv, NEW x \in Exchanges, Handle(x), UNCHANGED clientVars
  PROVE  HttpInv'
<1> USE DEF clientVars, fixed, tableVars, objectVars
<1>1. /\ exchange[x].stage = (IF Streamed(x) THEN "streaming" ELSE "held")
      /\ UNCHANGED <<plan, created, sessions, age, ended, interrupted, session, contentType,
                     pc, outcome, attempt, formats>>
  BY DEF Handle
<1>2. PICK r \in Results : exchange' = [exchange EXCEPT ![x].stage = "ran", ![x].result = r]
  BY DEF Handle, Executed, Done, Results
<1>3. /\ \A y \in Exchanges \ {x} : exchange'[y] = exchange[y]
      /\ exchange'[x] = [exchange[x] EXCEPT !.stage = "ran", !.result = r]
      /\ exchange'[x] \in HttpExchanges
  BY <1>2, Fields, FieldTypes DEF HttpInv, TypeOK, Stages
<1>4. /\ exchange'[x].stage = "ran" /\ exchange'[x].told = exchange[x].told
      /\ exchange'[x].session = exchange[x].session /\ exchange'[x].existing = exchange[x].existing
      /\ exchange'[x].format = exchange[x].format
  BY <1>3, Fields DEF HttpExchanges, HttpInv
<1>5. TypeOK'
  <2>1. ran' \in [Ops -> Nat]
    BY DEF Handle, Executed, HttpInv, TypeOK
  <2>2. refs' \in [Ids -> SUBSET Exchanges]
    BY DEF Handle, HttpInv, TypeOK
  <2>3. disposed' \subseteq Exchanges
    BY Fields DEF Handle, Reaches, HttpInv, ExchangesOK, ExchangeOK, InProgress, TypeOK
  <2>. QED  BY <1>1, <1>2, <1>3, <2>1, <2>2, <2>3 DEF HttpInv, TypeOK
<1>6. ExchangeOK(x)'
  BY <1>1, <1>4, Fields DEF HttpInv, ExchangesOK, ExchangeOK, Unserved, InProgress, Answered, Method
<1>7. Placed(x)'
  <2>1. Streamed(x)' <=> Streamed(x)
    BY <1>1, <1>4 DEF Streamed, Single
  <2>. QED  BY <1>1, <1>4, <2>1 DEF HttpInv, SessionsOK, Placed, Unstored, Known
<1>8. \A s : Known(s)' <=> Known(s)
  BY <1>1 DEF Known
<1>9. ExchangesOK' /\ SessionsOK'
  BY <1>1, <1>3, <1>4, <1>6, <1>7, <1>8, HttpMove
<1>10. AttemptsOK'
  BY <1>1, <1>3, <1>4 DEF HttpInv, AttemptsOK
<1>. QED  BY <1>5, <1>9, <1>10 DEF HttpInv

LEMMA HttpRespond ==
  ASSUME HttpInv, NEW x \in Exchanges, Respond(x) \/ EncodeFails(x), UNCHANGED clientVars
  PROVE  HttpInv'
<1> USE DEF clientVars, fixed, objectVars
<1>. DEFINE s == exchange[x].session
<1>1. /\ exchange[x].stage = "ran" /\ s \in Ids
      /\ UNCHANGED <<plan, created, refs, disposed, ran, ended, interrupted, session, contentType,
                     pc, outcome, attempt, formats>>
  BY Fields DEF Respond, EncodeFails, HttpInv, ExchangesOK, ExchangeOK, InProgress
<1>2. PICK st \in {"replied", "failed"}, t \in {NoId, s} :
        exchange' = [exchange EXCEPT ![x].stage = st, ![x].told = t]
  BY DEF Respond, EncodeFails
<1>3. /\ \A y \in Exchanges \ {x} : exchange'[y] = exchange[y]
      /\ exchange'[x] = [exchange[x] EXCEPT !.stage = st, !.told = t]
      /\ exchange'[x] \in HttpExchanges
  <2>1. st \in Stages /\ t \in Ids \cup {NoId} /\ exchange[x] \in HttpExchanges
    BY <1>1, Fields DEF HttpInv, Stages
  <2>2. [exchange[x] EXCEPT !.stage = st, !.told = t] \in HttpExchanges
    BY <2>1, FieldTypes
  <2>. QED  BY <1>2, <2>2 DEF HttpInv, TypeOK
<1>4. /\ exchange'[x].stage = st /\ exchange'[x].told = t
      /\ exchange'[x].session = s /\ exchange'[x].existing = exchange[x].existing
      /\ exchange'[x].format = exchange[x].format
  BY <1>3, Fields DEF HttpExchanges, HttpInv
<1>5. /\ \/ sessions' = sessions \cup {s} /\ ~exchange[x].existing /\ Unstored(x)
         \/ sessions' = sessions
      /\ Unstored(x) => s \notin ended
      /\ s <= created
  BY <1>1 DEF Respond, EncodeFails, Store, HttpInv, SessionsOK, Placed, Unstored, Known,
     ExchangesOK, ExchangeOK
<1>6. TypeOK'
  <2>1. age' \in [Ids -> 0 .. 2]
    BY DEF Respond, EncodeFails, Store, HttpInv, TypeOK
  <2>2. sessions' \cup ended' \subseteq 1 .. created' /\ sessions' \cap ended' = {}
    BY <1>1, <1>5, Fields DEF HttpInv, TypeOK, Ids
  <2>. QED  BY <1>1, <1>2, <1>3, <2>1, <2>2 DEF HttpInv, TypeOK
<1>7. ExchangeOK(x)'
  BY <1>1, <1>4, Fields DEF HttpInv, ExchangesOK, ExchangeOK, Unserved, InProgress, Answered,
     Method, Ids, NoId
<1>8. \A k : Known(k)' <=> Known(k) \/ (k = s /\ s \in sessions')
  BY <1>1, <1>5 DEF Known
<1>9. Placed(x)'
  <2>1. Streamed(x)' <=> Streamed(x)
    BY <1>1, <1>4 DEF Streamed, Single
  <2>. QED  BY <1>1, <1>4, <1>8, <2>1 DEF HttpInv, SessionsOK, Placed, Unstored
<1>10. ExchangesOK' /\ SessionsOK'
  BY <1>1, <1>3, <1>4, <1>5, <1>7, <1>8, <1>9, HttpMove DEF Known
<1>11. AttemptsOK'
  BY <1>1, <1>3, <1>4 DEF HttpInv, AttemptsOK
<1>. QED  BY <1>6, <1>10, <1>11 DEF HttpInv

\* The end of a session, whoever removes it.
LEMMA HttpRemove ==
  ASSUME TypeOK, NEW s \in sessions, Remove(s)
  PROVE  /\ refs' \in [Ids -> SUBSET Exchanges] /\ disposed' \subseteq Exchanges
         /\ sessions' \cup ended' = sessions \cup ended /\ sessions' \cap ended' = {}
         /\ interrupted' \subseteq ended'
         /\ \A k : Known(k)' <=> Known(k)
  BY Fields DEF Remove, TypeOK, Known

LEMMA HttpDelete ==
  ASSUME HttpInv, NEW x \in Exchanges, ServeDelete(x), UNCHANGED clientVars
  PROVE  HttpInv'
<1> USE DEF clientVars, fixed, objectVars
<1>1. /\ exchange[x].stage = "sent" /\ Method(x) = "delete"
      /\ exchange' = [exchange EXCEPT ![x].stage = "replied", ![x].result = "ok"]
      /\ UNCHANGED <<plan, created, age, ran, session, contentType, pc, outcome, attempt, formats>>
  BY DEF ServeDelete
<1>2. /\ \A y \in Exchanges \ {x} : exchange'[y] = exchange[y]
      /\ exchange'[x] = [exchange[x] EXCEPT !.stage = "replied", !.result = "ok"]
      /\ exchange'[x] \in HttpExchanges
  BY <1>1, Fields, FieldTypes DEF HttpInv, TypeOK, Stages, Results
<1>3. /\ exchange'[x].stage = "replied" /\ exchange'[x].told = exchange[x].told
      /\ exchange'[x].session = exchange[x].session /\ exchange'[x].existing = exchange[x].existing
  BY <1>2, Fields DEF HttpExchanges, HttpInv
<1>4. /\ refs' \in [Ids -> SUBSET Exchanges] /\ disposed' \subseteq Exchanges
      /\ sessions' \cup ended' = sessions \cup ended /\ sessions' \cap ended' = {}
      /\ interrupted' \subseteq ended'
      /\ \A k : Known(k)' <=> Known(k)
  <2>1. CASE Resumed(x)
    BY <2>1, HttpRemove DEF ServeDelete, Resumed, HttpInv
  <2>2. CASE ~Resumed(x)
    BY <2>2 DEF ServeDelete, HttpInv, TypeOK, Known
  <2>. QED  BY <2>1, <2>2
<1>5. TypeOK'
  BY <1>1, <1>2, <1>4 DEF HttpInv, TypeOK
<1>6. ExchangeOK(x)' /\ Placed(x)'
  BY <1>1, <1>3 DEF HttpInv, ExchangesOK, ExchangeOK, Unserved, InProgress, Answered, Method,
     SessionsOK, Placed, Unstored
<1>7. ExchangesOK' /\ SessionsOK'
  BY <1>1, <1>2, <1>3, <1>4, <1>6, HttpMove
<1>8. AttemptsOK'
  BY <1>1, <1>2, <1>3 DEF HttpInv, AttemptsOK
<1>. QED  BY <1>5, <1>7, <1>8 DEF HttpInv

LEMMA HttpTime ==
  ASSUME HttpInv, UNCHANGED clientVars,
         (\E s \in Ids : CleanupExpiredSessions(s)) \/ CloseHandler \/ Tick
  PROVE  HttpInv'
<1>1. /\ UNCHANGED <<plan, exchange, created, ran, session, contentType, pc, outcome, attempt, formats>>
      /\ age' \in [Ids -> 0 .. 2]
  BY DEF CleanupExpiredSessions, CloseHandler, Tick, clientVars, fixed, tableVars, HttpInv, TypeOK
<1>2. /\ refs' \in [Ids -> SUBSET Exchanges] /\ disposed' \subseteq Exchanges
      /\ sessions' \cup ended' = sessions \cup ended /\ sessions' \cap ended' = {}
      /\ interrupted' \subseteq ended'
      /\ \A k : Known(k)' <=> Known(k)
  <2>1. ASSUME NEW s \in Ids, CleanupExpiredSessions(s)
        PROVE  s \in sessions /\ Remove(s)
    BY <2>1 DEF CleanupExpiredSessions
  <2>2. CASE UNCHANGED <<sessions, ended, interrupted, refs, disposed>>
    BY <2>2 DEF HttpInv, TypeOK, Known
  <2>. QED  BY <2>1, <2>2, HttpRemove DEF CloseHandler, Tick, tableVars, objectVars, HttpInv
<1>3. TypeOK'
  BY <1>1, <1>2 DEF HttpInv, TypeOK
<1>4. ExchangesOK' /\ AttemptsOK'
  BY <1>1 DEF HttpInv, ExchangesOK, ExchangeOK, AttemptsOK, Unserved, InProgress, Answered, Method
<1>5. SessionsOK'
  BY <1>1, <1>2 DEF HttpInv, SessionsOK, Placed, Shared, Unstored, Streamed, Single
<1>. QED  BY <1>3, <1>4, <1>5 DEF HttpInv

\* The steps of the client that make no request and end none.
LEMMA HttpClientAlone ==
  ASSUME HttpInv, TypeOK', AttemptsOK', created <= created',
         UNCHANGED <<plan, exchange, sessions, ended>>
  PROVE  HttpInv'
<1>1. \A x \in Exchanges : ExchangeOK(x)'
  BY Fields, HttpBoundsAssumption DEF HttpInv, TypeOK, ExchangesOK, ExchangeOK, Unserved,
     InProgress, Answered, Method
<1>2. SessionsOK'
  BY DEF HttpInv, SessionsOK, Placed, Shared, Unstored, Streamed, Single, Known
<1>. QED  BY <1>1, <1>2 DEF HttpInv, ExchangesOK

LEMMA HttpGetSession ==
  ASSUME HttpInv, GetSession
  PROVE  HttpInv'
<1>1. /\ UNCHANGED <<plan, exchange, sessions, age, ended, interrupted, refs, disposed, ran,
                     contentType, pc, outcome, attempt, formats>>
      /\ created' = created + 1 /\ created < MaxSessions /\ session' = created + 1
  BY DEF GetSession, fixed, tableVars, objectVars
<1>2. TypeOK'
  BY <1>1, Fields, HttpBoundsAssumption DEF HttpInv, TypeOK
<1>3. AttemptsOK'
  BY <1>1 DEF HttpInv, AttemptsOK
<1>. QED  BY <1>1, <1>2, <1>3, Fields, HttpClientAlone DEF HttpInv

\* The steps by which an operation goes on without a new attempt.
LEMMA HttpProceed ==
  ASSUME HttpInv, NEW o \in Ops,
         \/ Start(o) \/ Header(o) \/ Notified(o) \/ Listen(o) \/ Body(o) \/ BodyLost(o)
         \/ Deleted(o)
  PROVE  HttpInv'
<1> USE DEF fixed, frame, tableVars, objectVars, opRest
<1>1. /\ UNCHANGED <<plan, exchange, created, sessions, age, ended, interrupted, refs, disposed,
                     ran, attempt>>
      /\ pc' \in [Ops -> {"new", "send", "wait", "listen", "body", "done"}]
      /\ formats' \in [Ops -> Formats]
      /\ \A q \in Ops : pc'[q] = "new" => pc[q] = "new"
      /\ \A q \in Ops : pc'[q] = "send" => pc[q] \in {"send", "new"}
  BY DEF Start, Header, Notified, Listen, Body, BodyLost, Deleted, Return, HttpInv, TypeOK
<1>2. session' \in 0 .. created
  <2>1. Reply(o).told \in 0 .. created
    BY Fields DEF Reply, HttpInv, ExchangesOK, ExchangeOK, NoId
  <2>. QED  BY <2>1 DEF Start, Header, Notified, Listen, Body, BodyLost, Deleted, Adopt,
               HttpInv, TypeOK, NoId
<1>3. contentType' \in Formats
  <2>1. Reply(o).format \in Formats
    BY Fields DEF Reply, HttpInv, HttpExchanges, Formats
  <2>. QED  BY <2>1 DEF Start, Header, Notified, Listen, Body, BodyLost, Deleted, HttpInv, TypeOK
<1>4. outcome' \in [Ops -> {"none", "ok", "missing", "failed", "accepted"}]
  <2>1. Result(o) \in {"none", "ok", "missing"}
    BY Fields DEF Result, Reply, HttpInv, HttpExchanges, Results
  <2>. QED  BY <2>1 DEF Start, Header, Notified, Listen, Body, BodyLost, Deleted, Return,
               HttpInv, TypeOK
<1>5. TypeOK'
  BY <1>1, <1>2, <1>3, <1>4 DEF HttpInv, TypeOK
<1>6. AttemptsOK'
  BY <1>1, Pairs DEF HttpInv, AttemptsOK
<1>. QED  BY <1>1, <1>5, <1>6, Fields, HttpClientAlone DEF HttpInv

\* An operation makes a request, or gives up one that the server has not read.
LEMMA HttpUnserved ==
  ASSUME HttpInv, NEW x \in Exchanges, UNCHANGED <<plan, created, sessions, ended>>,
         \A y \in Exchanges \ {x} : exchange'[y] = exchange[y],
         Unserved(x), exchange'[x].stage \in {"sent", "lost", "rejected"},
         exchange'[x].session = NoId, exchange'[x].existing = FALSE,
         exchange'[x].told = NoId, exchange'[x].result = "none"
  PROVE  ExchangesOK' /\ SessionsOK'
<1>1. \A s : Known(s)' <=> Known(s)
  BY DEF Known
<1>2. exchange'[x].session = exchange[x].session /\ exchange'[x].existing = exchange[x].existing
  BY Fields DEF HttpInv, ExchangesOK, ExchangeOK
<1>3. ExchangeOK(x)'
  BY Fields DEF HttpInv, ExchangeOK, Unserved, InProgress, Answered, NoId
<1>4. Placed(x)'
  BY DEF Placed, Unstored
<1>. QED  BY <1>1, <1>2, <1>3, <1>4, HttpMove

LEMMA HttpSend ==
  ASSUME HttpInv, NEW o \in Ops, Send(o)
  PROVE  HttpInv'
<1> USE DEF fixed, frame, tableVars, objectVars, opRest
<1>x. PICK x \in Exchanges : x = Last(o)
  BY Fields DEF HttpInv
<1>1. /\ UNCHANGED <<plan, created, sessions, age, ended, interrupted, refs, disposed, ran,
                     session, contentType, outcome, attempt, formats>>
      /\ pc[o] = "send" /\ pc' = [pc EXCEPT ![o] = "wait"]
      /\ exchange[x].stage = "none"
  BY <1>x, Fields DEF Send, HttpInv, AttemptsOK
<1>2. PICK f \in {"cbor", "json"}, b \in Exchanges \cup {<<>>} :
        exchange' = [exchange EXCEPT ![x] =
          [NoExchange EXCEPT !.stage = "sent", !.asks = session, !.format = f, !.object = b]]
  <2>1. (IF attempt[o] = 1 THEN formats[o] ELSE OtherFormat(formats[o])) \in {"cbor", "json"}
    <3>1. formats[o] \in {"cbor", "json"}
      BY DEF HttpInv, TypeOK, Formats
    <3>2. OtherFormat("cbor") \in {"cbor", "json"} /\ OtherFormat("json") \in {"cbor", "json"}
      BY DEF OtherFormat, Formats
    <3>. QED  BY <3>1, <3>2
  <2>2. (IF plan[o].on = NoOp THEN <<>> ELSE Last(plan[o].on)) \in Exchanges \cup {<<>>}
    BY Fields DEF HttpInv, TypeOK, Plans
  <2>. QED  BY <1>x, <2>1, <2>2 DEF Send
<1>3. /\ \A y \in Exchanges \ {x} : exchange'[y] = exchange[y]
      /\ exchange'[x] = [stage |-> "sent", format |-> f, asks |-> session, object |-> b,
               session |-> NoId, existing |-> FALSE, told |-> NoId, result |-> "none"]
  BY <1>1, <1>2 DEF HttpInv, TypeOK, NoExchange
<1>4. exchange' \in [Exchanges -> HttpExchanges]
  <2>1. session \in Ids \cup {NoId}
    BY Fields, HttpBoundsAssumption DEF HttpInv, TypeOK, Ids, NoId
  <2>2. exchange'[x] \in HttpExchanges
    BY <1>3, <2>1 DEF HttpExchanges, Stages, Results
  <2>. QED  BY <1>1, <1>2, <1>3, <2>2 DEF HttpInv, TypeOK
<1>5. TypeOK'
  BY <1>1, <1>4 DEF HttpInv, TypeOK
<1>6. AttemptsOK'
  <2>1. ASSUME NEW y \in Exchanges, y[1] = o, y[2] > attempt[o]  PROVE y # x
    BY <1>x, <2>1, Fields DEF HttpInv
  <2>2. pc'[o] = "wait" /\ \A q \in Ops \ {o} : pc'[q] = pc[q]
    BY <1>1 DEF HttpInv, TypeOK
  <2>3. ASSUME NEW y \in Exchanges,
               \/ pc'[y[1]] = "new" \/ y[2] > attempt'[y[1]]
               \/ pc'[y[1]] = "send" /\ y[2] = attempt'[y[1]]
        PROVE  exchange'[y].stage = "none"
    <3>1. y # x
      BY <1>x, <1>1, <2>1, <2>2, <2>3, Fields DEF HttpInv
    <3>. QED  BY <1>1, <1>3, <2>2, <2>3, <3>1, Pairs DEF HttpInv, AttemptsOK
  <2>. QED  BY <2>3 DEF AttemptsOK
<1>7. ExchangesOK' /\ SessionsOK'
  <2>1. Unserved(x)
    BY <1>1 DEF Unserved
  <2>2. /\ exchange'[x].stage \in {"sent", "lost", "rejected"} /\ exchange'[x].session = NoId
        /\ exchange'[x].existing = FALSE /\ exchange'[x].told = NoId /\ exchange'[x].result = "none"
    BY <1>3
  <2>. QED  BY <1>1, <1>3, <2>1, <2>2, HttpUnserved
<1>. QED  BY <1>5, <1>6, <1>7 DEF HttpInv

LEMMA HttpGiveUp ==
  ASSUME HttpInv, NEW o \in Ops, DoFails(o) \/ Rejected(o)
  PROVE  HttpInv'
<1> USE DEF fixed, frame, tableVars, objectVars, opRest
<1>x. PICK x \in Exchanges : x = Last(o)
  BY Fields DEF HttpInv
<1>1. /\ UNCHANGED <<plan, created, sessions, age, ended, interrupted, refs, disposed, ran,
                     session, contentType, formats>>
      /\ pc[o] = "wait" /\ TryNext(o)
  BY DEF DoFails, Rejected
<1>2. /\ pc' \in [Ops -> {"new", "send", "wait", "listen", "body", "done"}]
      /\ outcome' \in [Ops -> {"none", "ok", "missing", "failed", "accepted"}]
      /\ attempt' \in [Ops -> 1 .. Attempts]
      /\ \A q \in Ops \ {o} : pc'[q] = pc[q] /\ attempt'[q] = attempt[q]
      /\ \/ pc'[o] = "done" /\ attempt'[o] = attempt[o]
         \/ pc'[o] = "send" /\ attempt'[o] = attempt[o] + 1
  BY <1>1, HttpBoundsAssumption DEF TryNext, Return, HttpInv, TypeOK
<1>3. \/ UNCHANGED exchange
      \/ /\ Unserved(x) /\ exchange[x].stage = "sent"
         /\ \E st \in {"lost", "rejected"} : exchange' = [exchange EXCEPT ![x].stage = st]
  BY <1>x DEF DoFails, Rejected, Reply, Unserved
<1>4. CASE UNCHANGED exchange
  <2>1. TypeOK'
    BY <1>1, <1>2, <1>4 DEF HttpInv, TypeOK
  <2>2. AttemptsOK'
    BY <1>1, <1>2, <1>4, Fields, Pairs DEF HttpInv, AttemptsOK
  <2>. QED  BY <1>1, <1>4, <2>1, <2>2, Fields, HttpClientAlone DEF HttpInv
<1>5. CASE /\ Unserved(x) /\ exchange[x].stage = "sent"
           /\ \E st \in {"lost", "rejected"} : exchange' = [exchange EXCEPT ![x].stage = st]
  <2>1. PICK st \in {"lost", "rejected"} : exchange' = [exchange EXCEPT ![x].stage = st]
    BY <1>5
  <2>2. /\ \A y \in Exchanges \ {x} : exchange'[y] = exchange[y]
        /\ exchange'[x] = [exchange[x] EXCEPT !.stage = st] /\ exchange'[x] \in HttpExchanges
    BY <2>1, Fields, FieldTypes DEF HttpInv, TypeOK, Stages
  <2>3. /\ exchange'[x].stage = st /\ exchange'[x].session = NoId
        /\ exchange'[x].existing = FALSE /\ exchange'[x].told = NoId /\ exchange'[x].result = "none"
    BY <1>5, <2>2, Fields DEF HttpInv, ExchangesOK, ExchangeOK, HttpExchanges
  <2>4. TypeOK'
    BY <1>1, <1>2, <2>1, <2>2 DEF HttpInv, TypeOK
  <2>5. AttemptsOK'
    <3>1. ASSUME NEW y \in Exchanges,
                 \/ pc'[y[1]] = "new" \/ y[2] > attempt'[y[1]]
                 \/ pc'[y[1]] = "send" /\ y[2] = attempt'[y[1]]
          PROVE  exchange'[y].stage = "none"
      <4>1. exchange[y].stage = "none"
        BY <1>1, <1>2, <3>1, Fields, Pairs DEF HttpInv, AttemptsOK
      <4>. QED  BY <1>5, <2>2, <4>1
    <3>. QED  BY <3>1 DEF AttemptsOK
  <2>6. ExchangesOK' /\ SessionsOK'
    BY <1>1, <1>5, <2>2, <2>3, HttpUnserved
  <2>. QED  BY <2>4, <2>5, <2>6 DEF HttpInv
<1>. QED  BY <1>3, <1>4, <1>5

LEMMA HttpDeleteSession ==
  ASSUME HttpInv, NEW o \in Ops, DeleteSession(o)
  PROVE  HttpInv'
<1> USE DEF fixed, frame, tableVars, objectVars
<1>x. PICK x \in Exchanges : x = Last(o) /\ x[1] = o
  BY Fields DEF HttpInv
<1>1. /\ UNCHANGED <<plan, created, sessions, age, ended, interrupted, refs, disposed, ran,
                     session, contentType, formats, attempt>>
      /\ pc[o] = "new" /\ exchange[x].stage = "none"
  BY <1>x DEF DeleteSession, HttpInv, AttemptsOK
<1>2. /\ pc' \in [Ops -> {"new", "send", "wait", "listen", "body", "done"}]
      /\ outcome' \in [Ops -> {"none", "ok", "missing", "failed", "accepted"}]
      /\ \A q \in Ops \ {o} : pc'[q] = pc[q]
      /\ pc'[o] \in {"wait", "done"}
  BY <1>1 DEF DeleteSession, Return, HttpInv, TypeOK
<1>3. \/ UNCHANGED exchange
      \/ exchange' = [exchange EXCEPT ![x].stage = "sent", ![x].asks = session]
  BY <1>x DEF DeleteSession
<1>4. CASE UNCHANGED exchange
  <2>1. TypeOK'
    BY <1>1, <1>2, <1>4 DEF HttpInv, TypeOK
  <2>2. AttemptsOK'
    BY <1>1, <1>2, <1>4, Fields, Pairs DEF HttpInv, AttemptsOK
  <2>. QED  BY <1>1, <1>4, <2>1, <2>2, Fields, HttpClientAlone DEF HttpInv
<1>5. CASE exchange' = [exchange EXCEPT ![x].stage = "sent", ![x].asks = session]
  <2>1. session \in Ids \cup {NoId} /\ "sent" \in Stages
    BY Fields, HttpBoundsAssumption DEF HttpInv, TypeOK, Ids, NoId, Stages
  <2>2. /\ \A y \in Exchanges \ {x} : exchange'[y] = exchange[y]
        /\ exchange'[x] = [exchange[x] EXCEPT !.stage = "sent", !.asks = session]
        /\ exchange'[x] \in HttpExchanges
    <3>1. [exchange[x] EXCEPT !.stage = "sent", !.asks = session] \in HttpExchanges
      BY <2>1, Fields, FieldTypes DEF HttpInv
    <3>. QED  BY <1>5, <3>1 DEF HttpInv, TypeOK
  <2>3. /\ exchange'[x].stage = "sent" /\ exchange'[x].session = NoId
        /\ exchange'[x].existing = FALSE /\ exchange'[x].told = NoId /\ exchange'[x].result = "none"
    BY <1>1, <2>2, Fields DEF HttpInv, ExchangesOK, ExchangeOK, HttpExchanges, Unserved
  <2>4. TypeOK'
    BY <1>1, <1>2, <1>5, <2>2 DEF HttpInv, TypeOK
  <2>5. AttemptsOK'
    <3>1. ASSUME NEW y \in Exchanges,
                 \/ pc'[y[1]] = "new" \/ y[2] > attempt'[y[1]]
                 \/ pc'[y[1]] = "send" /\ y[2] = attempt'[y[1]]
          PROVE  exchange'[y].stage = "none"
      <4>1. exchange[y].stage = "none" /\ y # x
        BY <1>x, <1>1, <1>2, <3>1, Fields, Pairs DEF HttpInv, AttemptsOK
      <4>. QED  BY <2>2, <4>1
    <3>. QED  BY <3>1 DEF AttemptsOK
  <2>6. Unserved(x)
    BY <1>1 DEF Unserved
  <2>7. ExchangesOK' /\ SessionsOK'
    BY <1>1, <2>2, <2>3, <2>6, HttpUnserved
  <2>. QED  BY <2>4, <2>5, <2>7 DEF HttpInv
<1>. QED  BY <1>3, <1>4, <1>5

LEMMA HttpStep == HttpInv /\ [Next]_vars => HttpInv'
<1> SUFFICES ASSUME HttpInv, [Next]_vars  PROVE HttpInv'
  OBVIOUS
<1>1. CASE UNCHANGED vars
  <2>1. UNCHANGED <<plan, exchange, created, sessions, age, ended, interrupted, refs, disposed, ran,
                    session, contentType, pc, outcome, attempt, formats>>
    BY <1>1 DEF vars, fixed, serverVars, tableVars, objectVars, clientVars
  <2>2. TypeOK' /\ AttemptsOK'
    BY <2>1 DEF HttpInv, TypeOK, AttemptsOK
  <2>. QED  BY <2>1, <2>2, Fields, HttpClientAlone DEF HttpInv
<1>2. CASE Serve
  BY <1>2, HttpGet, HttpStream, HttpHandle, HttpRespond, HttpDelete, HttpTime DEF Serve, ServeHTTP
<1>3. CASE GetSession
  BY <1>3, HttpGetSession
<1>4. ASSUME NEW o \in Ops, Operate(o)  PROVE HttpInv'
  BY <1>4, HttpProceed, HttpSend, HttpGiveUp, HttpDeleteSession DEF Operate
<1>. QED  BY <1>1, <1>2, <1>3, <1>4 DEF Next

\* Every exchange, session and attempt is as far as the others say, in every reachable
\* state.
THEOREM HttpCorrect == Spec => []HttpInv
  BY HttpInit, HttpStep, PTL DEF Spec

\* The variables of client and handler stay in their types; a session that has ended is
\* never stored again.
THEOREM HttpTypeCorrect == Spec => []TypeOK
<1>1. HttpInv => TypeOK
  BY DEF HttpInv
<1>. QED  BY <1>1, HttpCorrect, PTL

-----------------------------------------------------------------------------
(* Http implements RemoteCalls.                                             *)

LEMMA RanInit == Init => RanOK
<1> SUFFICES ASSUME Init  PROVE RanOK
  OBVIOUS
<1>1. ASSUME NEW o \in Ops  PROVE RanBy(o) = {} /\ ran[o] = 0 /\ outcome[o] = "none"
  BY Pairs DEF Init, ServerInit, ClientInit, RanBy, NoExchange
<1>. QED  BY <1>1, FS_EmptySet DEF RanOK

\* The steps that execute nothing.
LEMMA RanSame ==
  ASSUME RanOK, UNCHANGED <<plan, ran>>,
         \A x \in Exchanges : Method(x) # "delete" =>
            (exchange'[x].result = "ok" <=> exchange[x].result = "ok"),
         \A o \in Ops : pc'[o] # "done" => outcome'[o] = "none"
  PROVE  RanOK'
<1>1. ASSUME NEW o \in Ops, plan[o].method # "delete"  PROVE RanBy(o)' = RanBy(o)
  BY <1>1, Pairs DEF RanBy, Method
<1>. QED  BY <1>1 DEF RanOK

\* An attempt that has not run yet leaves room for one more execution.
LEMMA RanMore ==
  ASSUME HttpInv, RanOK, NEW x \in Exchanges, InProgress(x), exchange[x].result = "none",
         exchange'[x].result = "ok", UNCHANGED plan,
         \A y \in Exchanges \ {x} : exchange'[y] = exchange[y]
  PROVE  /\ ran[x[1]] < Attempts
         /\ Cardinality(RanBy(x[1])') = ran[x[1]] + 1
         /\ \A o \in Ops \ {x[1]} : RanBy(o)' = RanBy(o)
<1>. DEFINE o == x[1]
            n == x[2]
            S == RanBy(o)
            T == RanBy(o)'
<1>1. o \in Ops /\ n \in 1 .. Attempts /\ x = <<o, n>>
  BY Pairs
<1>2. n \notin S /\ T = S \cup {n} /\ T \subseteq 1 .. Attempts
  BY <1>1, Pairs DEF RanBy
<1>3. ran[o] = Cardinality(S)
  BY <1>1 DEF HttpInv, ExchangesOK, ExchangeOK, Method, RanOK
<1>4. IsFiniteSet(1 .. Attempts) /\ Cardinality(1 .. Attempts) = Attempts
  BY FS_Interval, HttpBoundsAssumption
<1>5. IsFiniteSet(T) /\ Cardinality(T) <= Attempts
  BY <1>2, <1>4, FS_Subset
<1>6. IsFiniteSet(S)
  BY <1>2, <1>5, FS_Subset
<1>7. Cardinality(T) = Cardinality(S) + 1 /\ Cardinality(S) \in Nat
  BY <1>2, <1>6, FS_AddElement, FS_CardinalityType
<1>8. \A q \in Ops \ {o} : RanBy(q)' = RanBy(q)
  BY <1>1, Pairs DEF RanBy
<1>. QED  BY <1>3, <1>5, <1>7, <1>8, HttpBoundsAssumption

LEMMA RanHandle ==
  ASSUME HttpInv, RanOK, NEW x \in Exchanges, Handle(x), UNCHANGED clientVars
  PROVE  RanOK' /\ [Promise!Next]_Promise!vars
<1>. DEFINE o == x[1]
<1>1. /\ UNCHANGED <<plan, pc, outcome>> /\ o \in Ops /\ InProgress(x)
      /\ exchange[x].result = "none"
      /\ \A y \in Exchanges \ {x} : exchange'[y] = exchange[y]
  BY Pairs DEF Handle, clientVars, fixed, Executed, Done, InProgress, HttpInv, TypeOK, ExchangesOK,
     ExchangeOK
<1>2. CASE exchange' = [exchange EXCEPT ![x].stage = "ran", ![x].result = "missing"] /\ UNCHANGED ran
  <2>1. exchange'[x].result = "missing"
    BY <1>2, Fields DEF HttpInv, TypeOK, HttpExchanges
  <2>2. RanOK'
    BY <1>1, <1>2, <2>1, RanSame DEF RanOK
  <2>. QED  BY <1>1, <1>2, <2>2 DEF Promise!vars
<1>3. CASE Executed(x)
  <2>1. exchange'[x].result = "ok" /\ ran' = [ran EXCEPT ![o] = @ + 1]
    BY <1>3, Fields DEF Executed, Done, HttpInv, TypeOK, HttpExchanges
  <2>2. /\ ran[o] < Attempts /\ Cardinality(RanBy(o)') = ran[o] + 1
        /\ \A q \in Ops \ {o} : RanBy(q)' = RanBy(q)
    BY <1>1, <2>1, RanMore
  <2>3. RanOK'
    BY <1>1, <2>1, <2>2 DEF RanOK, HttpInv, TypeOK
  <2>4. plan[o].method # "delete" /\ pc[o] # "new"
    BY <1>1 DEF HttpInv, ExchangesOK, ExchangeOK, AttemptsOK, InProgress, Method
  <2>5. Promise!Run(o)
    BY <1>1, <2>1, <2>2, <2>4 DEF Promise!Run
  <2>. QED  BY <1>1, <2>3, <2>5 DEF Promise!Next
<1>. QED  BY <1>2, <1>3 DEF Handle, Done

\* The verdict of an operation is given once, when it returns.
LEMMA VerdictGiven ==
  ASSUME HttpInv, RanOK, NEW o \in Ops, NEW r, Return(o, r), pc[o] \notin {"new", "done"},
         UNCHANGED <<plan, ran>>, r = "ok" /\ plan[o].method # "delete" => ran[o] > 0
  PROVE  [Promise!Next]_Promise!vars
<1>. DEFINE Verdict(q) == IF plan[q].method = "delete" \/ outcome[q] \in {"none", "accepted"}
                            THEN "none" ELSE IF outcome[q] = "ok" THEN "succeeded" ELSE "failed"
<1>1. /\ outcome[o] = "none" /\ outcome'[o] = r /\ pc'[o] = "done"
      /\ \A q \in Ops \ {o} : pc'[q] = pc[q] /\ outcome'[q] = outcome[q]
  BY DEF Return, RanOK, HttpInv, TypeOK
<1>2. UNCHANGED {q \in Ops : plan[q].method # "delete" /\ pc[q] # "new"}
  BY <1>1
<1>3. [q \in Ops |-> Verdict(q)]' = [[q \in Ops |-> Verdict(q)] EXCEPT ![o] = Verdict(o)']
  BY <1>1
<1>4. CASE Verdict(o)' = "none"
  <2>1. UNCHANGED [q \in Ops |-> Verdict(q)]
    BY <1>1, <1>4
  <2>. QED  BY <1>2, <2>1 DEF Promise!vars
<1>5. CASE Verdict(o)' # "none"
  <2>1. PICK v \in {"succeeded", "failed"} : v = Verdict(o)'
    BY <1>5
  <2>2. v = "succeeded" => ran[o] > 0
    BY <1>1, <2>1
  <2>3. Promise!Tell(o, v)
    BY <1>1, <1>2, <1>3, <2>1, <2>2 DEF Promise!Tell
  <2>. QED  BY <2>3 DEF Promise!Next
<1>. QED  BY <1>4, <1>5

\* The steps of the client that send nothing.
LEMMA RanProceed ==
  ASSUME HttpInv, RanOK, NEW o \in Ops,
         \/ Start(o) \/ Header(o) \/ Notified(o) \/ Listen(o) \/ Body(o) \/ BodyLost(o)
         \/ Deleted(o)
  PROVE  RanOK' /\ [Promise!Next]_Promise!vars
<1> USE DEF fixed, frame, opRest
<1>1. UNCHANGED <<plan, exchange, ran>>
  BY DEF Start, Header, Notified, Listen, Body, BodyLost, Deleted
<1>2. RanOK'
  <2>1. \A q \in Ops : pc'[q] # "done" => outcome'[q] = "none"
    BY DEF Start, Header, Notified, Listen, Body, BodyLost, Deleted, Return, RanOK, HttpInv, TypeOK
  <2>. QED  BY <1>1, <2>1, RanSame
<1>3. CASE Start(o)
  <2>1. Promise!Ask(o)
    BY <1>1, <1>3 DEF Start, Promise!Ask, HttpInv, TypeOK
  <2>. QED  BY <1>2, <2>1 DEF Promise!Next
<1>4. CASE Header(o) \/ Listen(o)
  <2>1. {q \in Ops : plan[q].method # "delete" /\ pc'[q] # "new"}
          = {q \in Ops : plan[q].method # "delete" /\ pc[q] # "new"} /\ outcome' = outcome
    BY <1>4 DEF Header, Listen, HttpInv, TypeOK
  <2>. QED  BY <1>1, <1>2, <2>1 DEF Promise!vars
<1>5. CASE Notified(o) \/ BodyLost(o) \/ Deleted(o) \/ Body(o)
  <2>1. PICK r : /\ Return(o, r) /\ pc[o] \notin {"new", "done"}
                 /\ r = "ok" /\ plan[o].method # "delete" => Reply(o).result = "ok"
    BY <1>5 DEF Notified, BodyLost, Deleted, Body, Result
  <2>2. r = "ok" /\ plan[o].method # "delete" => ran[o] > 0
    <3>1. ASSUME exchange[Last(o)].result = "ok", plan[o].method # "delete"  PROVE ran[o] > 0
      <4>1. ran[o] = Cardinality(RanBy(o)) /\ attempt[o] \in RanBy(o) /\ RanBy(o) \subseteq 1 .. Attempts
        BY <3>1, Fields DEF HttpInv, RanOK, RanBy, Last
      <4>2. IsFiniteSet(1 .. Attempts)
        BY FS_Interval, HttpBoundsAssumption
      <4>3. IsFiniteSet(RanBy(o))
        BY <4>1, <4>2, FS_Subset
      <4>. QED  BY <4>1, <4>3, FS_EmptySet, FS_CardinalityType
    <3>. QED  BY <2>1, <3>1 DEF Reply
  <2>. QED  BY <1>1, <1>2, <2>1, <2>2, VerdictGiven
<1>. QED  BY <1>3, <1>4, <1>5

LEMMA RanSend ==
  ASSUME HttpInv, RanOK, NEW o \in Ops, Send(o) \/ DoFails(o) \/ Rejected(o) \/ DeleteSession(o)
  PROVE  RanOK' /\ [Promise!Next]_Promise!vars
<1> USE DEF fixed, frame, opRest
<1>1. UNCHANGED <<plan, ran>> /\ Last(o) \in Exchanges
  BY Fields DEF Send, DoFails, Rejected, DeleteSession, HttpInv
<1>2. RanOK'
  <2>1. ASSUME NEW x \in Exchanges  PROVE exchange'[x].result = exchange[x].result
    <3>1. CASE Send(o)
      <4>1. exchange[Last(o)].result = "none"
        BY <1>1, <3>1, Fields DEF Send, HttpInv, AttemptsOK, ExchangesOK, ExchangeOK, Unserved
      <4>. QED  BY <1>1, <3>1, <4>1, Fields DEF Send, NoExchange, HttpInv, TypeOK
    <3>2. CASE DoFails(o) \/ Rejected(o) \/ DeleteSession(o)
      <4>1. \/ exchange' = exchange
            \/ \E st : exchange' = [exchange EXCEPT ![Last(o)].stage = st]
            \/ exchange' = [exchange EXCEPT ![Last(o)].stage = "sent", ![Last(o)].asks = session]
        BY <3>2 DEF DoFails, Rejected, DeleteSession
      <4>2. exchange[Last(o)] \in HttpExchanges
        BY <1>1, Fields DEF HttpInv
      <4>3. CASE x # Last(o)
        BY <4>1, <4>3 DEF HttpInv, TypeOK
      <4>4. CASE x = Last(o)
        <5>. DEFINE e == exchange[x]
        <5>1. \/ exchange'[x] = e
              \/ \E st : exchange'[x] = [e EXCEPT !.stage = st]
              \/ exchange'[x] = [e EXCEPT !.stage = "sent", !.asks = session]
          BY <4>1, <4>4 DEF HttpInv, TypeOK
        <5>2. e \in HttpExchanges
          BY <4>2, <4>4
        <5>. QED  BY <5>1, <5>2 DEF HttpExchanges
      <4>. QED  BY <4>3, <4>4
    <3>. QED  BY <3>1, <3>2
  <2>2. \A q \in Ops : pc'[q] # "done" => outcome'[q] = "none"
    BY DEF Send, DoFails, Rejected, DeleteSession, TryNext, Return, RanOK, HttpInv, TypeOK
  <2>. QED  BY <1>1, <2>1, <2>2, RanSame
<1>3. CASE Send(o)
  <2>1. {q \in Ops : plan[q].method # "delete" /\ pc'[q] # "new"}
          = {q \in Ops : plan[q].method # "delete" /\ pc[q] # "new"} /\ outcome' = outcome
    BY <1>3 DEF Send, HttpInv, TypeOK
  <2>. QED  BY <1>1, <1>2, <2>1 DEF Promise!vars
<1>4. CASE DoFails(o) \/ Rejected(o)
  <2>1. pc[o] = "wait" /\ TryNext(o)
    BY <1>4 DEF DoFails, Rejected
  <2>2. CASE Return(o, "failed")
    BY <1>1, <1>2, <2>1, <2>2, VerdictGiven
  <2>3. CASE pc' = [pc EXCEPT ![o] = "send"] /\ UNCHANGED outcome
    <3>1. {q \in Ops : plan[q].method # "delete" /\ pc'[q] # "new"}
            = {q \in Ops : plan[q].method # "delete" /\ pc[q] # "new"}
      BY <2>1, <2>3 DEF HttpInv, TypeOK
    <3>. QED  BY <1>1, <1>2, <2>3, <3>1 DEF Promise!vars
  <2>. QED  BY <2>1, <2>2, <2>3 DEF TryNext
<1>5. CASE DeleteSession(o)
  <2>1. {q \in Ops : plan[q].method # "delete" /\ pc'[q] # "new"}
          = {q \in Ops : plan[q].method # "delete" /\ pc[q] # "new"}
    BY <1>5 DEF DeleteSession, Return, HttpInv, TypeOK
  <2>2. \A q \in Ops : plan[q].method = "delete" \/ outcome'[q] = outcome[q]
    BY <1>5 DEF DeleteSession, Return, HttpInv, TypeOK
  <2>. QED  BY <1>1, <1>2, <2>1, <2>2 DEF Promise!vars
<1>. QED  BY <1>3, <1>4, <1>5

\* The steps of the server but the execution.
LEMMA RanServe ==
  ASSUME HttpInv, RanOK, Serve \/ GetSession, \A x \in Exchanges : ~Handle(x)
  PROVE  RanOK' /\ UNCHANGED Promise!vars
<1> USE DEF fixed, clientVars
<1>1. UNCHANGED <<plan, ran, pc, outcome>>
  BY DEF Serve, ServeHTTP, GetSession, GetOrCreateSession, OpenStream, Respond, EncodeFails,
     ServeDelete, CleanupExpiredSessions, CloseHandler, Tick
<1>2. ASSUME NEW y \in Exchanges, Method(y) # "delete"
      PROVE  exchange'[y].result = exchange[y].result
  <2>1. CASE exchange' = exchange
    BY <2>1
  <2>2. ASSUME NEW x \in Exchanges, ServeHTTP(x)
        PROVE  exchange'[y].result = exchange[y].result
    <3>. DEFINE e == exchange[x]
    <3>1. e \in HttpExchanges
      BY Fields DEF HttpInv
    <3>2. CASE y # x
      BY <2>2, <3>2 DEF ServeHTTP, GetOrCreateSession, OpenStream, Respond, EncodeFails, ServeDelete,
         HttpInv, TypeOK
    <3>3. CASE y = x
      <4>1. GetOrCreateSession(x) \/ OpenStream(x) \/ Respond(x) \/ EncodeFails(x)
        BY <1>2, <2>2, <3>3 DEF ServeHTTP, ServeDelete
      <4>2. \/ \E s : exchange'[x] = [e EXCEPT !.stage = "held", !.existing = TRUE, !.session = s]
            \/ \E s : exchange'[x] = [e EXCEPT !.stage = "held", !.session = s]
            \/ \E st, s : exchange'[x] = [e EXCEPT !.stage = st, !.told = s]
        <5>1. CASE GetOrCreateSession(x)
          <6>1. CASE Resumed(x)
            <7>1. exchange'[x] = [e EXCEPT !.stage = "held", !.existing = TRUE, !.session = e.asks]
              BY <5>1, <6>1 DEF GetOrCreateSession, HttpInv, TypeOK
            <7>. QED  BY <7>1
          <6>2. CASE ~Resumed(x)
            BY <5>1, <6>2 DEF GetOrCreateSession, HttpInv, TypeOK
          <6>. QED  BY <6>1, <6>2
        <5>2. CASE OpenStream(x)
          BY <5>2 DEF OpenStream, HttpInv, TypeOK
        <5>3. CASE Respond(x)
          BY <5>3 DEF Respond, HttpInv, TypeOK
        <5>4. CASE EncodeFails(x)
          BY <5>4 DEF EncodeFails, HttpInv, TypeOK
        <5>. QED  BY <4>1, <5>1, <5>2, <5>3, <5>4
      <4>. QED  BY <3>1, <3>3, <4>2 DEF HttpExchanges
    <3>. QED  BY <3>2, <3>3
  <2>. QED  BY <2>1, <2>2 DEF Serve, GetSession, CleanupExpiredSessions, CloseHandler, Tick
<1>3. RanOK'
  BY <1>1, <1>2, RanSame DEF RanOK
<1>. QED  BY <1>1, <1>3 DEF Promise!vars

LEMMA RanStep == HttpInv /\ RanOK /\ [Next]_vars => RanOK' /\ [Promise!Next]_Promise!vars
<1> SUFFICES ASSUME HttpInv, RanOK, [Next]_vars  PROVE RanOK' /\ [Promise!Next]_Promise!vars
  OBVIOUS
<1>1. CASE UNCHANGED vars
  <2>1. UNCHANGED <<plan, exchange, ran, pc, outcome>>
    BY <1>1 DEF vars, fixed, serverVars, clientVars
  <2>. QED  BY <2>1, RanSame DEF RanOK, Promise!vars
<1>2. ASSUME NEW x \in Exchanges, Handle(x), Serve  PROVE RanOK' /\ [Promise!Next]_Promise!vars
  BY <1>2, RanHandle DEF Serve
<1>3. CASE (Serve \/ GetSession) /\ \A x \in Exchanges : ~Handle(x)
  BY <1>3, RanServe
<1>4. CASE GetSession
  <2>1. \A x \in Exchanges : ~Handle(x)
    BY <1>4 DEF GetSession, Handle, fixed
  <2>. QED  BY <1>4, <2>1, RanServe
<1>5. ASSUME NEW o \in Ops, Operate(o)  PROVE RanOK' /\ [Promise!Next]_Promise!vars
  BY <1>5, RanProceed, RanSend DEF Operate
<1>. QED  BY <1>1, <1>2, <1>3, <1>4, <1>5 DEF Next

\* An operation is run at most once for each format the client tries, and reported to
\* have succeeded only if it has run, whatever is lost or retried.
THEOREM HttpImplementsRemoteCalls == Spec => ImplementsRemoteCalls
<1>1. Init => Promise!Init
  BY DEF Init, ServerInit, ClientInit, Promise!Init
<1>2. Init /\ []HttpInv /\ [][Next]_vars => Promise!Spec
  BY <1>1, RanInit, RanStep, PTL DEF Promise!Spec
<1>. QED  BY <1>2, HttpCorrect, PTL DEF Spec, ImplementsRemoteCalls

-----------------------------------------------------------------------------
(* Objects: what is handed out is found, and what is held is disposed of.   *)

LEMMA ObjectsInit == Init => ObjectsOK /\ LeaksOnlyIfInterrupted
<1> SUFFICES ASSUME Init  PROVE ObjectsOK /\ LeaksOnlyIfInterrupted
  OBVIOUS
<1>1. (\A x \in Exchanges : exchange[x].stage = "none") /\ \A s \in Ids : refs[s] = {}
  BY DEF Init, ServerInit, NoExchange
<1>2. ObjectsOK
  BY <1>1 DEF ObjectsOK, HolderOK, MadeOK, InProgress
<1>3. LeaksOnlyIfInterrupted
  BY <1>1 DEF LeaksOnlyIfInterrupted
<1>. QED  BY <1>2, <1>3

\* Requests the server has not begun to serve have nothing to do with the objects.
LEMMA ObjectsSame ==
  ASSUME ObjectsInv, UNCHANGED <<plan, refs, disposed, sessions, ended, interrupted>>,
         \A x \in Exchanges : exchange'[x] = exchange[x] \/ (Unserved(x) /\ Unserved(x)')
  PROVE  ObjectsOK' /\ LeaksOnlyIfInterrupted'
<1>1. ASSUME NEW s \in Ids, NEW x \in refs[s]  PROVE exchange'[x] = exchange[x] /\ x \in Exchanges
  BY <1>1 DEF ObjectsInv, HttpInv, TypeOK, ObjectsOK, HolderOK, Unserved
<1>2. ASSUME NEW s \in Ids  PROVE HolderOK(s)'
  BY <1>1, <1>2 DEF ObjectsInv, ObjectsOK, HolderOK, Method
<1>3. ASSUME NEW x \in Exchanges  PROVE MadeOK(x)'
  <2>1. CASE exchange'[x] = exchange[x]
    BY <1>3, <2>1 DEF ObjectsInv, ObjectsOK, MadeOK, Method, InProgress, Unstored, Streamed, Single, Known
  <2>2. CASE Unserved(x)'
    BY <1>3, <2>2 DEF MadeOK, Unserved, InProgress
  <2>. QED  BY <1>3, <2>1, <2>2
<1>4. LeaksOnlyIfInterrupted'
  BY <1>1 DEF ObjectsInv, LeaksOnlyIfInterrupted, InProgress, Single
<1>. QED  BY <1>2, <1>3, <1>4 DEF ObjectsOK

LEMMA ObjectsGet ==
  ASSUME ObjectsInv, NEW x \in Exchanges, GetOrCreateSession(x)
  PROVE  ObjectsOK' /\ LeaksOnlyIfInterrupted'
<1> USE DEF fixed, objectVars
<1>1. /\ UNCHANGED <<plan, refs, disposed, sessions, ended, interrupted>>
      /\ exchange[x].stage = "sent"
      /\ \A y \in Exchanges \ {x} : exchange'[y] = exchange[y]
  BY DEF GetOrCreateSession, ObjectsInv, HttpInv, TypeOK
<1>2. exchange'[x].stage = "held" /\ exchange'[x].session \notin ended
  <2>1. exchange[x] \in HttpExchanges /\ created + 1 \notin ended /\ sessions \cap ended = {}
    BY Fields DEF ObjectsInv, HttpInv, TypeOK
  <2>2. CASE Resumed(x)
    BY <2>1, <2>2 DEF GetOrCreateSession, Resumed, ObjectsInv, HttpInv, TypeOK, HttpExchanges
  <2>3. CASE ~Resumed(x)
    BY <2>1, <2>3 DEF GetOrCreateSession, ObjectsInv, HttpInv, TypeOK, HttpExchanges
  <2>. QED  BY <2>2, <2>3
<1>3. ASSUME NEW s \in Ids, NEW y \in refs[s]  PROVE y # x /\ y \in Exchanges
  BY <1>1, <1>3 DEF ObjectsInv, HttpInv, TypeOK, ObjectsOK, HolderOK
<1>4. ASSUME NEW s \in Ids  PROVE HolderOK(s)'
  BY <1>1, <1>3, <1>4 DEF ObjectsInv, ObjectsOK, HolderOK, Method
<1>5. ASSUME NEW y \in Exchanges  PROVE MadeOK(y)'
  <2>1. CASE y = x
    BY <1>1, <1>2, <2>1 DEF MadeOK
  <2>2. CASE y # x
    BY <1>1, <1>5, <2>2 DEF ObjectsInv, ObjectsOK, MadeOK, Method, InProgress, Unstored, Streamed, Single, Known
  <2>. QED  BY <2>1, <2>2
<1>6. LeaksOnlyIfInterrupted'
  BY <1>1, <1>3 DEF ObjectsInv, LeaksOnlyIfInterrupted, InProgress, Single
<1>. QED  BY <1>4, <1>5, <1>6 DEF ObjectsOK

\* A request moves on, or is over, with the session it has, which it may have stored.
LEMMA ObjectsMove ==
  ASSUME ObjectsInv, NEW x \in Exchanges, InProgress(x),
         UNCHANGED <<plan, refs, disposed, ended, interrupted>>,
         \A y \in Exchanges \ {x} : exchange'[y] = exchange[y],
         exchange'[x].session = exchange[x].session, sessions \subseteq sessions',
         \/ exchange[x].stage = "held" /\ exchange'[x].stage = "streaming"
         \/ exchange[x].stage = "ran" /\ exchange'[x].stage = "failed"
         \/ /\ exchange[x].stage = "ran" /\ exchange'[x].stage = "replied"
            /\ Method(x) = "make" => exchange'[x].told = exchange[x].session
                                        /\ Known(exchange[x].session)',
         \A s \in Ids : x \in refs[s] /\ ~InProgress(x)' =>
            \/ s \in sessions' \cup interrupted
            \/ exchange'[x].stage = "failed" /\ ~Single(x)
  PROVE  ObjectsOK' /\ LeaksOnlyIfInterrupted'
<1>1. ASSUME NEW s \in Ids  PROVE HolderOK(s)'
  <2>1. refs[s] \subseteq Exchanges /\ HolderOK(s)
    BY <1>1 DEF ObjectsInv, HttpInv, TypeOK, ObjectsOK
  <2>2. x \in refs[s] => exchange'[x].stage \in {"replied", "failed"}
    BY <2>1 DEF HolderOK
  <2>. QED  BY <2>1, <2>2 DEF HolderOK, Method
<1>2. MadeOK(x)'
  BY DEF ObjectsInv, ObjectsOK, MadeOK, Method, InProgress
<1>3. ASSUME NEW y \in Exchanges, y # x  PROVE MadeOK(y)'
  BY <1>3 DEF ObjectsInv, ObjectsOK, MadeOK, Method, InProgress, Unstored, Streamed, Single, Known
<1>4. LeaksOnlyIfInterrupted'
  <2>1. ASSUME NEW y \in Exchanges, NEW s \in Ids, y \in refs[s], y # x
        PROVE  s \in sessions' \/ InProgress(y)' \/ s \in interrupted
               \/ (exchange'[y].stage = "failed" /\ ~Single(y))
    BY <2>1 DEF ObjectsInv, LeaksOnlyIfInterrupted, InProgress
  <2>. QED  BY <2>1 DEF LeaksOnlyIfInterrupted, Single
<1>. QED  BY <1>1, <1>2, <1>3, <1>4 DEF ObjectsOK

LEMMA ObjectsStream ==
  ASSUME ObjectsInv, NEW x \in Exchanges, OpenStream(x)
  PROVE  ObjectsOK' /\ LeaksOnlyIfInterrupted'
<1> USE DEF fixed, objectVars
<1>1. /\ UNCHANGED <<plan, refs, disposed, ended, interrupted>> /\ exchange[x].stage = "held"
      /\ sessions \subseteq sessions'
      /\ \A y \in Exchanges \ {x} : exchange'[y] = exchange[y]
  BY DEF OpenStream, Store, ObjectsInv, HttpInv, TypeOK
<1>2. exchange'[x].stage = "streaming" /\ exchange'[x].session = exchange[x].session
  BY Fields DEF OpenStream, ObjectsInv, HttpInv, TypeOK, HttpExchanges
<1>3. InProgress(x) /\ InProgress(x)'
  BY <1>1, <1>2 DEF InProgress
<1>. QED  BY <1>1, <1>2, <1>3, ObjectsMove

\* A response that lists a reference is sent with the session that holds it.
LEMMA ObjectsRespond ==
  ASSUME ObjectsInv, NEW x \in Exchanges, Respond(x) \/ EncodeFails(x)
  PROVE  ObjectsOK' /\ LeaksOnlyIfInterrupted'
<1> USE DEF fixed, objectVars
<1>. DEFINE t == exchange[x].session
<1>1. /\ UNCHANGED <<plan, refs, disposed, ended, interrupted>> /\ exchange[x].stage = "ran"
      /\ sessions \subseteq sessions'
      /\ \A y \in Exchanges \ {x} : exchange'[y] = exchange[y]
  <2>1. CASE Respond(x)
    BY <2>1 DEF Respond, Store, ObjectsInv, HttpInv, TypeOK
  <2>2. CASE EncodeFails(x)
    BY <2>2 DEF EncodeFails, Store, ObjectsInv, HttpInv, TypeOK
  <2>. QED  BY <2>1, <2>2
<1>2. /\ exchange[x] \in HttpExchanges /\ exchange'[x].session = t
      /\ \/ /\ Respond(x) /\ exchange'[x].stage = "replied"
            /\ exchange'[x].told = IF Streamed(x) \/ Keep(x) THEN t ELSE NoId
         \/ EncodeFails(x) /\ exchange'[x].stage = "failed"
  <2>1. exchange[x] \in HttpExchanges
    BY Fields DEF ObjectsInv, HttpInv
  <2>2. CASE Respond(x)
    BY <2>1, <2>2 DEF Respond, ObjectsInv, HttpInv, TypeOK, HttpExchanges
  <2>3. CASE EncodeFails(x)
    BY <2>1, <2>3 DEF EncodeFails, ObjectsInv, HttpInv, TypeOK, HttpExchanges
  <2>. QED  BY <2>1, <2>2, <2>3
<1>3. InProgress(x) /\ t \in Ids /\ (~Streamed(x) /\ ~exchange[x].existing <=> Unstored(x))
  BY <1>1, Fields DEF InProgress, ObjectsInv, HttpInv, ExchangesOK, ExchangeOK, Unstored,
     SessionsOK, Placed
<1>4. Streamed(x) \/ exchange[x].existing => Known(t)
  <2>1. Placed(x) /\ t # NoId
    BY <1>3 DEF ObjectsInv, HttpInv, SessionsOK, Ids, NoId
  <2>. QED  BY <1>1, <2>1 DEF Placed
<1>5. x \in refs[t] \/ (Method(x) = "make" /\ Unstored(x)) => Keep(x)
  BY <1>1 DEF ObjectsInv, ObjectsOK, MadeOK, Keep
<1>6. ASSUME Keep(x), Respond(x) \/ Single(x)  PROVE Known(t)'
  BY <1>1, <1>2, <1>3, <1>4, <1>6 DEF Respond, EncodeFails, Store, Known
<1>7. ASSUME Method(x) = "make", Respond(x)  PROVE Known(t)'
  <2>1. CASE Unstored(x)
    BY <1>5, <1>2, <1>3, <1>1, <1>7, <2>1 DEF Respond, Store, Known
  <2>2. CASE ~Unstored(x)
    <3>1. Known(t)
      BY <1>3, <1>4, <2>2
    <3>. QED  BY <1>1, <1>2, <3>1 DEF Known
  <2>. QED  BY <2>1, <2>2
<1>8. Method(x) = "make" /\ exchange'[x].stage = "replied" => exchange'[x].told = t /\ Known(t)'
  <2>1. Method(x) = "make" => Streamed(x) \/ Keep(x)
    BY <1>3, <1>5 DEF Keep
  <2>. QED  BY <1>2, <1>7, <2>1
<1>9. ASSUME NEW s \in Ids, x \in refs[s], ~(exchange'[x].stage = "failed" /\ ~Single(x))
      PROVE  s \in sessions' \cup interrupted
  <2>1. s = t
    BY <1>9 DEF ObjectsInv, ObjectsOK, HolderOK
  <2>2. Known(t)'
    BY <1>2, <1>5, <1>6, <1>9, <2>1
  <2>3. t \in ended => t \in interrupted
    BY <1>3 DEF ObjectsInv, ObjectsOK, MadeOK
  <2>. QED  BY <1>1, <1>2, <2>1, <2>2, <2>3 DEF Known
<1>. QED  BY <1>1, <1>2, <1>3, <1>8, <1>9, ObjectsMove

LEMMA ObjectsHandle ==
  ASSUME ObjectsInv, NEW x \in Exchanges, Handle(x)
  PROVE  ObjectsOK' /\ LeaksOnlyIfInterrupted'
<1> USE DEF fixed, tableVars, objectVars
<1>. DEFINE t == exchange[x].session
            b == exchange[x].object
<1>1. /\ UNCHANGED <<plan, sessions, ended, interrupted>>
      /\ exchange[x].stage = (IF Streamed(x) THEN "streaming" ELSE "held") /\ InProgress(x)
      /\ \A y \in Exchanges \ {x} : exchange'[y] = exchange[y]
  BY DEF Handle, Executed, Done, InProgress, ObjectsInv, HttpInv, TypeOK
<1>2. /\ exchange'[x].stage = "ran" /\ exchange'[x].session = t
      /\ exchange'[x].existing = exchange[x].existing /\ exchange'[x].format = exchange[x].format
  <2>1. exchange[x] \in HttpExchanges
    BY Fields DEF ObjectsInv, HttpInv
  <2>. QED  BY <2>1 DEF Handle, Executed, Done, ObjectsInv, HttpInv, TypeOK, HttpExchanges
<1>3. t \in Ids /\ (Unstored(x)' => Unstored(x)) /\ (Streamed(x)' <=> Streamed(x))
  BY <1>1, <1>2, Fields DEF ObjectsInv, HttpInv, ExchangesOK, ExchangeOK, Unstored, Streamed, Single
<1>4. \A s \in Ids : x \notin refs[s] /\ refs[s] \subseteq Exchanges
  BY <1>1 DEF ObjectsInv, HttpInv, TypeOK, ObjectsOK, HolderOK
<1>5. \/ UNCHANGED objectVars /\ Method(x) # "make"
      \/ /\ refs' = [refs EXCEPT ![t] = @ \cup {x}] /\ disposed' = disposed
         /\ Method(x) = "make"
      \/ /\ refs' = [refs EXCEPT ![t] = @ \ {b}] /\ disposed' = disposed \cup {b} /\ b \in refs[t]
         /\ Method(x) # "make"
  BY DEF Handle, Reaches
<1>6. \A s \in Ids : \A y \in refs'[s] : y \in refs[s] \/ (y = x /\ s = t /\ Method(x) = "make")
  BY <1>3, <1>5 DEF ObjectsInv, HttpInv, TypeOK
<1>7. ASSUME NEW s \in Ids  PROVE HolderOK(s)'
  BY <1>1, <1>2, <1>4, <1>6, <1>7 DEF ObjectsInv, ObjectsOK, HolderOK, Method
<1>8. ASSUME NEW y \in Exchanges  PROVE MadeOK(y)'
  <2>. DEFINE s == exchange[y].session
  <2>1. exchange'[y].session = s
    BY <1>1, <1>2
  <2>2. InProgress(y)' /\ s \in ended => s \in interrupted
    <3>1. InProgress(y)' => InProgress(y)
      BY <1>1 DEF InProgress
    <3>. QED  BY <3>1 DEF ObjectsInv, ObjectsOK, MadeOK
  <2>3. CASE y = x
    <3>1. Method(x) = "make" => x \in refs'[t]
      BY <1>3, <1>5 DEF ObjectsInv, HttpInv, TypeOK
    <3>. QED  BY <1>1, <1>2, <2>1, <2>2, <2>3, <3>1 DEF MadeOK, Method
  <2>4. CASE y # x
    <3>. SUFFICES ASSUME Method(y) = "make"
                  PROVE  /\ exchange[y].stage \in {"ran", "replied"} => y \in refs'[s] \cup disposed'
                         /\ exchange[y].stage = "ran" /\ Unstored(y) => y \in refs'[s]
                         /\ exchange[y].stage = "replied" => exchange[y].told = s /\ Known(s)
      BY <1>1, <2>1, <2>2, <2>4 DEF MadeOK, Method, Known, Unstored, Streamed, Single
    <3>1. exchange[y].stage \in {"ran", "replied"} => s \in Ids
      BY Fields DEF ObjectsInv, HttpInv, ExchangesOK, ExchangeOK, InProgress, Answered
    <3>2. s \in Ids => /\ \A z \in refs[s] : z \in refs'[s] \cup disposed'
                       /\ s # t => refs[s] \subseteq refs'[s]
                       /\ disposed \subseteq disposed'
      BY <1>3, <1>5 DEF ObjectsInv, HttpInv, TypeOK
    <3>3. exchange[y].stage \in {"ran", "replied"} => y \in refs'[s] \cup disposed'
      BY <3>1, <3>2 DEF ObjectsInv, ObjectsOK, MadeOK
    <3>4. ASSUME exchange[y].stage = "ran", Unstored(y)  PROVE y \in refs'[s]
      <4>1. y \in refs[s]
        BY <3>4 DEF ObjectsInv, ObjectsOK, MadeOK
      <4>2. s # t \/ Method(x) = "make" \/ UNCHANGED objectVars
        <5>1. CASE exchange[x].existing
          <6>1. Known(t) /\ ~Known(s)
            BY <3>4, <5>1 DEF ObjectsInv, HttpInv, SessionsOK, Placed
          <6>. QED  BY <6>1
        <5>2. CASE ~exchange[x].existing
          BY <1>3, <2>4, <3>4, <5>2 DEF Ids, NoId, ObjectsInv, HttpInv, SessionsOK, Shared, Unstored
        <5>. QED  BY <5>1, <5>2
      <4>. QED  BY <1>3, <1>5, <3>1, <3>2, <3>4, <4>1, <4>2 DEF ObjectsInv, HttpInv, TypeOK
    <3>5. exchange[y].stage = "replied" => exchange[y].told = s /\ Known(s)
      BY DEF ObjectsInv, ObjectsOK, MadeOK
    <3>. QED  BY <3>3, <3>4, <3>5
  <2>. QED  BY <2>3, <2>4
<1>9. LeaksOnlyIfInterrupted'
  <2>1. ASSUME NEW s \in Ids, NEW y \in refs[s], y # x
        PROVE  s \in sessions \/ InProgress(y)' \/ s \in interrupted
               \/ (exchange'[y].stage = "failed" /\ ~Single(y))
    BY <1>1, <1>4, <2>1 DEF ObjectsInv, LeaksOnlyIfInterrupted, InProgress
  <2>2. InProgress(x)'
    BY <1>2 DEF InProgress
  <2>. QED  BY <1>1, <1>4, <1>6, <2>1, <2>2 DEF LeaksOnlyIfInterrupted, Single
<1>. QED  BY <1>7, <1>8, <1>9 DEF ObjectsOK

\* A session that ends takes its objects along; it is marked if a request is using it.
LEMMA ObjectsRemove ==
  ASSUME ObjectsInv, NEW u \in Ids, u \in sessions, Remove(u), UNCHANGED plan,
         \A x \in Exchanges :
            \/ exchange'[x] = exchange[x]
            \/ Unserved(x) /\ exchange'[x].stage = "replied" /\ Method(x) = "delete"
  PROVE  ObjectsOK' /\ LeaksOnlyIfInterrupted'
<1>1. /\ refs' = [refs EXCEPT ![u] = {}] /\ disposed' = disposed \cup refs[u]
      /\ sessions' = sessions \ {u} /\ ended' = ended \cup {u} /\ interrupted \subseteq interrupted'
      /\ \A x \in Exchanges : InProgress(x) /\ exchange[x].session = u => u \in interrupted'
  BY DEF Remove
<1>2. refs'[u] = {} /\ \A s \in Ids \ {u} : refs'[s] = refs[s]
  BY <1>1 DEF ObjectsInv, HttpInv, TypeOK
<1>3. \A s \in Ids : \A x \in refs[s] : exchange'[x] = exchange[x] /\ x \in Exchanges
  BY DEF ObjectsInv, HttpInv, TypeOK, ObjectsOK, HolderOK, Unserved
<1>4. ASSUME NEW s \in Ids  PROVE HolderOK(s)'
  BY <1>2, <1>3, <1>4 DEF ObjectsInv, ObjectsOK, HolderOK, Method
<1>5. ASSUME NEW x \in Exchanges  PROVE MadeOK(x)'
  <2>1. CASE exchange'[x] # exchange[x]
    BY <2>1 DEF MadeOK, Method, InProgress
  <2>2. CASE exchange'[x] = exchange[x]
    <3>. DEFINE s == exchange[x].session
    <3>1. MadeOK(x)
      BY DEF ObjectsInv, ObjectsOK
    <3>2. InProgress(x)' /\ s \in ended' => s \in interrupted'
      BY <1>1, <2>2, <3>1 DEF MadeOK, InProgress
    <3>3. ASSUME Method(x) = "make", exchange[x].stage \in {"ran", "replied"}
          PROVE  s \in Ids /\ x \in refs'[s] \cup disposed'
      <4>1. s \in Ids
        BY <3>3, Fields DEF ObjectsInv, HttpInv, ExchangesOK, ExchangeOK, InProgress, Answered
      <4>. QED  BY <1>1, <1>2, <3>1, <3>3, <4>1 DEF MadeOK
    <3>4. ASSUME Method(x) = "make", exchange[x].stage = "ran", Unstored(x)  PROVE x \in refs'[s]
      <4>1. s # u
        BY <3>4 DEF ObjectsInv, HttpInv, SessionsOK, Placed, Known
      <4>. QED  BY <1>2, <3>1, <3>3, <3>4, <4>1 DEF MadeOK
    <3>5. Method(x) = "make" /\ exchange[x].stage = "replied" => exchange[x].told = s /\ Known(s)'
      BY <1>1, <2>2, <3>1 DEF MadeOK, Known
    <3>. QED  BY <2>2, <3>2, <3>3, <3>4, <3>5 DEF MadeOK, Method, Unstored, Streamed, Single
  <2>. QED  BY <2>1, <2>2
<1>6. LeaksOnlyIfInterrupted'
  BY <1>1, <1>2, <1>3 DEF ObjectsInv, LeaksOnlyIfInterrupted, InProgress, Single
<1>. QED  BY <1>4, <1>5, <1>6 DEF ObjectsOK

LEMMA ObjectsServe ==
  ASSUME ObjectsInv, Serve  PROVE ObjectsOK' /\ LeaksOnlyIfInterrupted'
<1>1. ASSUME NEW x \in Exchanges, ServeDelete(x)  PROVE ObjectsOK' /\ LeaksOnlyIfInterrupted'
  <2>1. /\ UNCHANGED plan /\ Method(x) = "delete" /\ exchange[x].stage = "sent"
        /\ \A y \in Exchanges \ {x} : exchange'[y] = exchange[y]
        /\ exchange'[x].stage = "replied"
    BY <1>1, Fields DEF ServeDelete, fixed, ObjectsInv, HttpInv, TypeOK, HttpExchanges
  <2>2. CASE Resumed(x)
    <3>1. PICK u \in Ids : u = exchange[x].asks /\ u \in sessions /\ Remove(u)
      BY <1>1, <2>2, Fields DEF Resumed, ServeDelete, ObjectsInv, HttpInv
    <3>. QED  BY <2>1, <3>1, ObjectsRemove DEF Unserved
  <2>3. CASE ~Resumed(x)
    <3>1. UNCHANGED <<sessions, ended, interrupted, refs, disposed>>
      BY <1>1, <2>3 DEF ServeDelete, objectVars
    <3>2. ASSUME NEW s \in Ids  PROVE HolderOK(s)'
      BY <2>1, <3>1, <3>2 DEF ObjectsInv, HttpInv, TypeOK, ObjectsOK, HolderOK, Method
    <3>3. ASSUME NEW y \in Exchanges, y # x  PROVE MadeOK(y)'
      BY <2>1, <3>1, <3>3 DEF ObjectsInv, ObjectsOK, MadeOK, Method, InProgress, Unstored, Streamed,
         Single, Known
    <3>4. MadeOK(x)'
      BY <2>1 DEF MadeOK, Method, InProgress
    <3>5. \A s \in Ids : \A y \in refs[s] : y # x /\ y \in Exchanges
      BY <2>1 DEF ObjectsInv, HttpInv, TypeOK, ObjectsOK, HolderOK
    <3>6. LeaksOnlyIfInterrupted'
      BY <2>1, <3>1, <3>5 DEF ObjectsInv, LeaksOnlyIfInterrupted, InProgress, Single
    <3>. QED  BY <3>2, <3>3, <3>4, <3>6 DEF ObjectsOK
  <2>. QED  BY <2>2, <2>3
<1>2. ASSUME NEW u \in Ids, CleanupExpiredSessions(u)  PROVE ObjectsOK' /\ LeaksOnlyIfInterrupted'
  BY <1>2, ObjectsRemove DEF CleanupExpiredSessions, fixed
<1>3. CASE CloseHandler \/ Tick
  BY <1>3, ObjectsSame DEF CloseHandler, Tick, fixed, tableVars, objectVars
<1>. QED  BY <1>1, <1>2, <1>3, ObjectsGet, ObjectsStream, ObjectsHandle, ObjectsRespond
          DEF Serve, ServeHTTP

LEMMA ObjectsOperate ==
  ASSUME ObjectsInv, NEW o \in Ops, Operate(o)  PROVE ObjectsOK' /\ LeaksOnlyIfInterrupted'
<1> USE DEF fixed, frame, tableVars, objectVars
<1>x. PICK x \in Exchanges : x = Last(o)
  BY Fields DEF ObjectsInv, HttpInv
<1>1. UNCHANGED <<plan, refs, disposed, sessions, ended, interrupted>>
  BY DEF Operate, Start, Send, DoFails, Rejected, Header, Notified, Listen, Body, BodyLost,
     DeleteSession, Deleted
<1>2. /\ x \in Exchanges /\ x[1] = o /\ x[2] = attempt[o] /\ exchange[x] \in HttpExchanges
  BY <1>x, Fields DEF ObjectsInv, HttpInv
<1>3. \/ exchange' = exchange
      \/ /\ \A y \in Exchanges \ {x} : exchange'[y] = exchange[y]
         /\ Unserved(x) /\ Unserved(x)'
  <2>1. CASE Send(o)
    <3>1. exchange[x].stage = "none"
      BY <1>x, <1>2, <2>1 DEF Send, ObjectsInv, HttpInv, AttemptsOK
    <3>2. exchange'[x].stage = "sent" /\ \A y \in Exchanges \ {x} : exchange'[y] = exchange[y]
      BY <1>x, <1>2, <2>1 DEF Send, ObjectsInv, HttpInv, TypeOK, NoExchange
    <3>. QED  BY <3>1, <3>2 DEF Unserved
  <2>2. CASE DoFails(o) \/ Rejected(o)
    <3>1. \/ exchange' = exchange
          \/ exchange[x].stage = "sent" /\ \E st \in {"lost", "rejected"} :
               exchange' = [exchange EXCEPT ![x].stage = st]
      BY <1>x, <2>2 DEF DoFails, Rejected, Reply
    <3>. QED  BY <1>x, <1>2, <3>1 DEF ObjectsInv, HttpInv, TypeOK, HttpExchanges, Unserved
  <2>3. CASE DeleteSession(o)
    <3>1. exchange[x].stage = "none"
      BY <1>x, <1>2, <2>3 DEF DeleteSession, ObjectsInv, HttpInv, AttemptsOK
    <3>2. \/ exchange' = exchange
          \/ exchange' = [exchange EXCEPT ![x].stage = "sent", ![x].asks = session]
      BY <1>x, <2>3 DEF DeleteSession
    <3>3. CASE exchange' # exchange
      <4>1. exchange'[x].stage = "sent" /\ \A y \in Exchanges \ {x} : exchange'[y] = exchange[y]
        BY <1>x, <1>2, <3>2, <3>3 DEF ObjectsInv, HttpInv, TypeOK, HttpExchanges
      <4>. QED  BY <3>1, <4>1 DEF Unserved
    <3>. QED  BY <3>3
  <2>4. CASE \/ Start(o) \/ Header(o) \/ Notified(o) \/ Listen(o) \/ Body(o) \/ BodyLost(o)
             \/ Deleted(o)
    BY <2>4 DEF Start, Header, Notified, Listen, Body, BodyLost, Deleted
  <2>. QED  BY <2>1, <2>2, <2>3, <2>4 DEF Operate
<1>4. \A y \in Exchanges : exchange'[y] = exchange[y] \/ (Unserved(y) /\ Unserved(y)')
  BY <1>3
<1>. QED  BY <1>1, <1>4, ObjectsSame

LEMMA ObjectsStep == ObjectsInv /\ [Next]_vars => ObjectsInv'
<1> SUFFICES ASSUME ObjectsInv, [Next]_vars  PROVE ObjectsOK' /\ LeaksOnlyIfInterrupted'
  BY HttpStep DEF ObjectsInv
<1>1. CASE UNCHANGED vars \/ GetSession
  BY <1>1, ObjectsSame DEF vars, fixed, serverVars, tableVars, objectVars, GetSession
<1>2. CASE Serve
  BY <1>2, ObjectsServe
<1>3. ASSUME NEW o \in Ops, Operate(o)  PROVE ObjectsOK' /\ LeaksOnlyIfInterrupted'
  BY <1>3, ObjectsOperate
<1>. QED  BY <1>1, <1>2, <1>3 DEF Next

\* What is known of the objects, of their sessions and of the requests that use them, in
\* every reachable state.
THEOREM ObjectsCorrect == Spec => []ObjectsInv
<1>1. Init => ObjectsInv
  BY HttpInit, ObjectsInit DEF ObjectsInv
<1>. QED  BY <1>1, ObjectsStep, PTL DEF Spec

\* A reference in a response comes with the id of the session that has the object, and
\* the server keeps that session until it ends or the object is disposed of.
THEOREM HandedOutIsFoundCorrect == Spec => []HandedOutIsFound
<1>1. ObjectsInv => HandedOutIsFound
  <2>. SUFFICES ASSUME ObjectsInv, NEW x \in Exchanges, Method(x) = "make",
                       exchange[x].stage = "replied"
                PROVE  LET s == exchange[x].told
                       IN s # NoId /\ (s \in ended \/ x \in disposed \/ (s \in sessions /\ x \in refs[s]))
    BY DEF HandedOutIsFound
  <2>1. exchange[x].session # NoId
    BY DEF ObjectsInv, HttpInv, ExchangesOK, ExchangeOK, Answered
  <2>. QED  BY <2>1 DEF ObjectsInv, ObjectsOK, MadeOK, Known
<1>. QED  BY <1>1, ObjectsCorrect, PTL

\* An object the server holds belongs to a session it will end, or to a request that is
\* not over, but for the two cases that LeaksOnlyIfInterrupted names.
THEOREM LeaksCorrect == Spec => []LeaksOnlyIfInterrupted
<1>1. ObjectsInv => LeaksOnlyIfInterrupted
  BY DEF ObjectsInv
<1>. QED  BY <1>1, ObjectsCorrect, PTL

-----------------------------------------------------------------------------
(* One operation at a time and nothing lost: one session.                   *)

LEMMA SequentialInit == Init => SequentialInv
  BY DEF Init, ServerInit, ClientInit, NoExchange, SequentialInv, SequentialOK, AheadOK, UnderWay

\* The server serves the request that the one operation waits for.
LEMMA SequentialAlone ==
  ASSUME HttpInv, SequentialOK, NEW x \in Exchanges, pc[x[1]] = "wait", x = Last(x[1]),
         UNCHANGED clientVars, UNCHANGED plan,
         \A y \in Exchanges \ {x} : exchange'[y] = exchange[y], AheadOK(x)', WaitOK(x[1])'
  PROVE  SequentialOK'
<1> USE DEF clientVars
<1>. DEFINE o == x[1]
<1>1. o \in Ops /\ \A q \in Ops : pc[q] \in {"wait", "listen"} => q = o
  BY Pairs DEF SequentialOK, UnderWay
<1>2. ASSUME NEW y \in Exchanges, y # x  PROVE AheadOK(y)'
  BY <1>2 DEF SequentialOK, AheadOK, Streamed, Single, Last
<1>. QED  BY <1>1, <1>2 DEF SequentialOK, UnderWay

\* A stream, which the operation may have begun to read, or left.
LEMMA SequentialStream ==
  ASSUME HttpInv, SequentialOK, NEW x \in Exchanges, UNCHANGED clientVars,
         UNCHANGED <<plan, sessions>>, \A y \in Exchanges \ {x} : exchange'[y] = exchange[y],
         Streamed(x), Streamed(x)', InProgress(x), exchange[x].stage # "held",
         exchange'[x].stage \in {"ran", "replied"}, exchange'[x].session = exchange[x].session,
         exchange'[x].told = exchange[x].session
  PROVE  SequentialOK'
<1> USE DEF clientVars
<1>1. exchange[x].told = exchange[x].session /\ Method(x) # "delete"
  BY DEF SequentialOK, AheadOK, InProgress, HttpInv, ExchangesOK, ExchangeOK
<1>2. ASSUME NEW y \in Exchanges  PROVE AheadOK(y)'
  BY <1>2 DEF SequentialOK, AheadOK, Streamed, Single, Last
<1>3. ASSUME NEW q \in Ops, pc[q] = "wait"  PROVE WaitOK(q)'
  <2>1. WaitOK(q) /\ Last(q)' = Last(q) /\ Last(q) \in Exchanges
    BY <1>3, Fields DEF SequentialOK, HttpInv, Last
  <2>2. CASE Last(q) # x
    BY <2>1, <2>2 DEF WaitOK, InProgress, Streamed, Single, Method
  <2>3. CASE Last(q) = x
    BY <1>1, <2>1, <2>3 DEF WaitOK, InProgress, Streamed, Single, Method
  <2>. QED  BY <2>2, <2>3
<1>4. ASSUME NEW q \in Ops, pc[q] = "listen"  PROVE sessions \subseteq {Reply(q).told}'
  <2>1. sessions \subseteq {Reply(q).told} /\ Last(q)' = Last(q) /\ Last(q) \in Exchanges
    BY <1>4, Fields DEF SequentialOK, HttpInv, Last
  <2>. QED  BY <1>1, <2>1 DEF Reply
<1>. QED  BY <1>2, <1>3, <1>4 DEF SequentialOK, UnderWay

\* Sessions end and time passes.
LEMMA SequentialTime ==
  ASSUME SequentialOK, UNCHANGED <<plan, exchange, clientVars>>, sessions' \subseteq sessions
  PROVE  SequentialOK'
<1> USE DEF clientVars
<1>1. ASSUME NEW y \in Exchanges  PROVE AheadOK(y)'
  BY <1>1 DEF SequentialOK, AheadOK, Streamed, Single, Last
<1>2. ASSUME NEW q \in Ops, pc[q] = "wait"  PROVE WaitOK(q)'
  BY <1>2 DEF SequentialOK, WaitOK, InProgress, Streamed, Single, Method, Last
<1>3. ASSUME NEW q \in Ops, pc[q] = "listen"  PROVE sessions' \subseteq {Reply(q).told}'
  BY <1>3 DEF SequentialOK, Reply, Last
<1>. QED  BY <1>1, <1>2, <1>3 DEF SequentialOK, UnderWay

\* The operation under way learns its session, or returns.
LEMMA SequentialReturn ==
  ASSUME HttpInv, SequentialOK, NEW o \in Ops, UnderWay(o),
         UNCHANGED <<plan, exchange, sessions, attempt>>,
         \E p \in {"listen", "body", "done"} : pc' = [pc EXCEPT ![o] = p],
         exchange[Last(o)].stage \notin {"sent", "held"},
         exchange[Last(o)].stage # "ran" \/ Streamed(Last(o)),
         sessions \subseteq {session'}, pc'[o] = "listen" => sessions \subseteq {Reply(o).told}
  PROVE  SequentialOK'
<1>1. /\ pc'[o] \in {"listen", "body", "done"} /\ \A q \in Ops \ {o} : pc'[q] = pc[q] /\ ~UnderWay(q)
      /\ \A q \in Ops : Last(q)' = Last(q)
  BY DEF HttpInv, TypeOK, SequentialOK, Last
<1>2. ASSUME NEW y \in Exchanges  PROVE AheadOK(y)'
  <2>1. AheadOK(y) /\ y[1] \in Ops
    BY Pairs DEF SequentialOK
  <2>2. y # Last(o) \/ ~(exchange[y].stage \in {"sent", "held"} \/ (exchange[y].stage = "ran" /\ ~Streamed(y)))
    OBVIOUS
  <2>3. ~(exchange[y].stage \in {"sent", "held"} \/ (exchange[y].stage = "ran" /\ ~Streamed(y)))
    BY <1>1, <2>1, <2>2 DEF AheadOK, UnderWay
  <2>. QED  BY <2>1, <2>3 DEF AheadOK, Streamed, Single
<1>3. \A q \in Ops : pc'[q] # "wait" /\ (pc'[q] = "listen" => q = o)
  BY <1>1 DEF UnderWay
<1>4. \A q \in Ops : UnderWay(q)' => q = o
  BY <1>1 DEF UnderWay
<1>5. Reply(o)' = Reply(o)
  BY <1>1 DEF Reply
<1>. QED  BY <1>1, <1>2, <1>3, <1>4, <1>5 DEF SequentialOK

\* An operation begins while no other is under way, or sends its request.
LEMMA SequentialBegin ==
  ASSUME HttpInv, SequentialOK, NEW o \in Ops, pc[o] # "wait",
         \A q \in Ops \ {o} : ~UnderWay(q), UNCHANGED <<plan, sessions, session, attempt>>,
         \A y \in Exchanges \ {Last(o)} : exchange'[y] = exchange[y],
         \A q \in Ops \ {o} : pc'[q] = pc[q],
         \/ /\ pc'[o] = "wait" /\ exchange'[Last(o)].stage = "sent"
            /\ exchange'[Last(o)].asks = session
         \/ pc'[o] \in {"send", "done"} /\ exchange' = exchange
  PROVE  SequentialOK'
<1>1. \A q \in Ops : pc[q] # "wait"
  BY DEF UnderWay
<1>2. sessions \subseteq {session} /\ \A q \in Ops : Last(q)' = Last(q) /\ Last(q)[1] = q
  BY <1>1, Fields DEF SequentialOK, HttpInv, Last
<1>3. ASSUME NEW y \in Exchanges  PROVE AheadOK(y)'
  <2>1. AheadOK(y) /\ y[1] \in Ops
    BY Pairs DEF SequentialOK
  <2>2. ~(exchange[y].stage \in {"sent", "held"} \/ (exchange[y].stage = "ran" /\ ~Streamed(y)))
    BY <1>1, <2>1 DEF AheadOK
  <2>3. CASE exchange'[y] = exchange[y]
    BY <2>1, <2>2, <2>3 DEF AheadOK, Streamed, Single
  <2>4. CASE y = Last(o) /\ pc'[o] = "wait" /\ exchange'[y].stage = "sent"
    BY <1>2, <2>4 DEF AheadOK
  <2>. QED  BY <2>3, <2>4
<1>4. \A q \in Ops : UnderWay(q)' => q = o
  BY DEF UnderWay
<1>5. pc'[o] = "wait" => WaitOK(o)'
  BY <1>2 DEF WaitOK, InProgress
<1>6. \A q \in Ops : (pc'[q] = "wait" => q = o) /\ pc'[q] # "listen"
  BY <1>1 DEF UnderWay
<1>. QED  BY <1>2, <1>3, <1>4, <1>5, <1>6 DEF SequentialOK

LEMMA SequentialServe ==
  ASSUME HttpInv, SequentialOK, NEW x \in Exchanges, ServeHTTP(x), UNCHANGED <<clientVars, troubles>>,
         troubles \in Nat
  PROVE  SequentialOK'
<1> USE DEF fixed, objectVars, tableVars
<1>. DEFINE e == exchange[x]
            t == exchange[x].session
<1>1. /\ e \in HttpExchanges /\ AheadOK(x) /\ UNCHANGED plan /\ UNCHANGED <<pc, attempt, session>>
      /\ \A y \in Exchanges \ {x} : exchange'[y] = exchange[y]
      /\ ~EncodeFails(x)
  <2>1. ~EncodeFails(x)
    BY DEF EncodeFails, Trouble
  <2>2. e \in HttpExchanges /\ AheadOK(x)
    BY Fields DEF HttpInv, SequentialOK
  <2>3. UNCHANGED plan /\ \A y \in Exchanges \ {x} : exchange'[y] = exchange[y]
    BY <2>1 DEF ServeHTTP, GetOrCreateSession, OpenStream, Handle, Executed, Done, Respond, ServeDelete,
       HttpInv, TypeOK
  <2>. QED  BY <2>1, <2>2, <2>3 DEF clientVars
<1>2. x[1] \in Ops /\ (pc[x[1]] = "wait" => WaitOK(x[1]))
  BY Pairs DEF SequentialOK
<1>3. CASE GetOrCreateSession(x)
  <2>1. /\ e.stage = "sent" /\ pc[x[1]] = "wait" /\ x = Last(x[1]) /\ sessions' = sessions
        /\ sessions \subseteq {e.asks} /\ Method(x) # "delete"
    BY <1>1, <1>2, <1>3 DEF GetOrCreateSession, AheadOK, WaitOK
  <2>2. exchange'[x].stage = "held" /\ (sessions # {} => exchange'[x].session = e.asks)
    <3>1. CASE Resumed(x)
      BY <1>1, <1>3, <3>1 DEF GetOrCreateSession, HttpInv, TypeOK, HttpExchanges
    <3>2. CASE ~Resumed(x)
      <4>1. sessions = {} /\ exchange'[x].stage = "held"
        BY <1>1, <1>3, <2>1, <3>2 DEF GetOrCreateSession, Resumed, HttpInv, TypeOK, HttpExchanges
      <4>. QED  BY <4>1
    <3>. QED  BY <3>1, <3>2
  <2>3. AheadOK(x)' /\ WaitOK(x[1])'
    BY <1>1, <2>1, <2>2 DEF AheadOK, WaitOK, InProgress, Last
  <2>. QED  BY <1>1, <2>1, <2>3, SequentialAlone
<1>4. CASE OpenStream(x)
  <2>1. /\ e.stage = "held" /\ pc[x[1]] = "wait" /\ x = Last(x[1]) /\ Streamed(x)
        /\ sessions \subseteq {t} /\ Method(x) # "delete" /\ sessions' \subseteq sessions \cup {t}
    BY <1>1, <1>2, <1>4 DEF OpenStream, Store, AheadOK, WaitOK, InProgress, HttpInv, ExchangesOK,
       ExchangeOK
  <2>2. exchange'[x].stage = "streaming" /\ exchange'[x].told = t /\ exchange'[x].session = t
    BY <1>1, <1>4 DEF OpenStream, HttpInv, TypeOK, HttpExchanges
  <2>3. AheadOK(x)' /\ WaitOK(x[1])'
    BY <1>1, <2>1, <2>2 DEF AheadOK, WaitOK, InProgress, Last
  <2>. QED  BY <1>1, <2>1, <2>3, SequentialAlone
<1>5. CASE Handle(x)
  <2>1. /\ exchange'[x].stage = "ran" /\ exchange'[x].told = e.told /\ exchange'[x].session = t
        /\ exchange'[x].format = e.format /\ (Streamed(x)' <=> Streamed(x))
    <3>1. \E r : exchange' = [exchange EXCEPT ![x].stage = "ran", ![x].result = r]
      BY <1>5 DEF Handle, Executed, Done
    <3>2. /\ exchange'[x].stage = "ran" /\ exchange'[x].told = e.told /\ exchange'[x].session = t
          /\ exchange'[x].format = e.format
      BY <1>1, <3>1 DEF HttpInv, TypeOK, HttpExchanges
    <3>. QED  BY <1>1, <3>2 DEF Streamed, Single
  <2>2. sessions' = sessions /\ Method(x) # "delete"
    BY <1>5 DEF Handle
  <2>3. CASE Streamed(x)
    BY <1>1, <1>5, <2>1, <2>2, <2>3, SequentialStream DEF Handle, InProgress, AheadOK
  <2>4. CASE ~Streamed(x)
    <3>1. e.stage = "held" /\ pc[x[1]] = "wait" /\ x = Last(x[1]) /\ sessions \subseteq {t}
      BY <1>1, <1>2, <1>5, <2>4 DEF Handle, AheadOK, WaitOK, InProgress
    <3>2. AheadOK(x)' /\ WaitOK(x[1])'
      BY <1>1, <2>1, <2>2, <2>4, <3>1 DEF AheadOK, WaitOK, InProgress, Last
    <3>. QED  BY <1>1, <3>1, <3>2, SequentialAlone
  <2>. QED  BY <2>3, <2>4
<1>6. CASE Respond(x)
  <2>1. /\ e.stage = "ran" /\ InProgress(x) /\ Method(x) # "delete"
        /\ exchange'[x].stage = "replied" /\ exchange'[x].session = t
        /\ exchange'[x].told = (IF Streamed(x) \/ Keep(x) THEN t ELSE NoId)
        /\ exchange'[x].format = e.format
    <3>1. e.stage = "ran" /\ InProgress(x) /\ Method(x) # "delete"
      BY <1>6 DEF Respond, InProgress, HttpInv, ExchangesOK, ExchangeOK
    <3>. QED  BY <1>1, <1>6, <3>1 DEF Respond, HttpInv, TypeOK, HttpExchanges
  <2>2. Streamed(x)' <=> Streamed(x)
    BY <1>1, <2>1 DEF Streamed, Single
  <2>3. CASE Streamed(x)
    <3>1. sessions' = sessions
      BY <1>6, <2>3 DEF Respond
    <3>. QED  BY <1>1, <2>1, <2>2, <2>3, <3>1, SequentialStream
  <2>4. CASE ~Streamed(x)
    <3>1. pc[x[1]] = "wait" /\ x = Last(x[1]) /\ sessions \subseteq {t}
      BY <1>1, <1>2, <2>1, <2>4 DEF AheadOK, WaitOK, InProgress
    <3>2. sessions' \subseteq {exchange'[x].told}
      <4>1. CASE Keep(x)
        BY <1>6, <2>1, <3>1, <4>1 DEF Respond, Store
      <4>2. CASE ~Keep(x)
        <5>1. sessions' = sessions /\ Unstored(x)
          BY <1>6, <2>1, <2>4, <4>2 DEF Respond, Keep, Unstored
        <5>2. t \notin sessions
          BY <5>1 DEF HttpInv, SessionsOK, Placed, Known
        <5>. QED  BY <3>1, <5>1, <5>2
      <4>. QED  BY <4>1, <4>2
    <3>3. AheadOK(x)' /\ WaitOK(x[1])'
      BY <1>1, <2>1, <2>2, <2>4, <3>1, <3>2 DEF AheadOK, WaitOK, InProgress, Last, Method
    <3>. QED  BY <1>1, <3>1, <3>3, SequentialAlone
  <2>. QED  BY <2>3, <2>4
<1>7. CASE ServeDelete(x)
  <2>1. /\ e.stage = "sent" /\ pc[x[1]] = "wait" /\ x = Last(x[1]) /\ sessions \subseteq {e.asks}
        /\ exchange'[x].stage = "replied"
    BY <1>1, <1>2, <1>7 DEF ServeDelete, AheadOK, WaitOK, HttpInv, TypeOK, HttpExchanges
  <2>2. sessions' = {}
    BY <1>7, <2>1 DEF ServeDelete, Resumed, Remove
  <2>3. AheadOK(x)' /\ WaitOK(x[1])'
    BY <1>1, <2>1, <2>2 DEF AheadOK, WaitOK, InProgress, Last
  <2>. QED  BY <1>1, <2>1, <2>3, SequentialAlone
<1>. QED  BY <1>1, <1>3, <1>4, <1>5, <1>6, <1>7 DEF ServeHTTP

LEMMA SequentialOperate ==
  ASSUME HttpInv, SequentialOK, NEW o \in Ops, Operate(o), UNCHANGED troubles,
         troubles \in Nat, ~overlapped'
  PROVE  SequentialOK'
<1> USE DEF fixed, frame, opRest, tableVars, objectVars
<1>x. PICK x \in Exchanges : x = Last(o) /\ x[1] = o
  BY Fields DEF HttpInv
<1>1. UNCHANGED <<plan, sessions>> /\ ~DoFails(o) /\ ~Rejected(o) /\ ~BodyLost(o)
  <2>1. ~DoFails(o) /\ ~Rejected(o) /\ ~BodyLost(o)
    BY DEF DoFails, Rejected, BodyLost, Trouble
  <2>. QED  BY <2>1 DEF Operate, Start, Send, Header, Notified, Listen, Body, DeleteSession, Deleted
<1>2. /\ exchange[x] \in HttpExchanges /\ exchange[x].stage # "failed"
      /\ NoId \notin sessions /\ (pc[o] = "wait" => WaitOK(o))
  BY <1>x, Fields DEF HttpInv, SequentialOK, AheadOK, Ids, NoId
<1>3. CASE Start(o)
  <2>1. pc[o] = "new" /\ \A q \in Ops : ~UnderWay(q)
    BY <1>3 DEF Start
  <2>. QED  BY <1>1, <1>3, <2>1, SequentialBegin DEF Start, HttpInv, TypeOK
<1>4. CASE Send(o)
  <2>1. /\ pc[o] = "send" /\ pc' = [pc EXCEPT ![o] = "wait"] /\ UNCHANGED <<session, attempt>>
        /\ \A q \in Ops \ {o} : ~UnderWay(q)
    BY <1>4 DEF Send, SequentialOK, UnderWay
  <2>2. /\ exchange'[x].stage = "sent" /\ exchange'[x].asks = session
        /\ \A y \in Exchanges \ {x} : exchange'[y] = exchange[y]
    BY <1>x, <1>4 DEF Send, NoExchange, HttpInv, TypeOK
  <2>3. pc'[o] = "wait" /\ \A q \in Ops \ {o} : pc'[q] = pc[q]
    BY <2>1 DEF HttpInv, TypeOK
  <2>. QED  BY <1>x, <1>1, <2>1, <2>2, <2>3, SequentialBegin
<1>5. CASE DeleteSession(o)
  <2>1. pc[o] = "new" /\ UNCHANGED <<session, attempt>> /\ \A q \in Ops : ~UnderWay(q)
    BY <1>5 DEF DeleteSession
  <2>2. CASE session = NoId
    BY <1>1, <1>5, <2>1, <2>2, SequentialBegin DEF DeleteSession, Return, HttpInv, TypeOK
  <2>3. CASE session # NoId
    <3>1. /\ exchange' = [exchange EXCEPT ![x].stage = "sent", ![x].asks = session]
          /\ pc' = [pc EXCEPT ![o] = "wait"]
      BY <1>x, <1>5, <2>3 DEF DeleteSession
    <3>2. /\ exchange'[x].stage = "sent" /\ exchange'[x].asks = session
          /\ \A y \in Exchanges \ {x} : exchange'[y] = exchange[y]
      BY <1>2, <3>1 DEF HttpInv, TypeOK, HttpExchanges
    <3>3. pc'[o] = "wait" /\ \A q \in Ops \ {o} : pc'[q] = pc[q]
      BY <3>1 DEF HttpInv, TypeOK
    <3>. QED  BY <1>x, <1>1, <2>1, <3>2, <3>3, SequentialBegin
  <2>. QED  BY <2>2, <2>3
<1>6. CASE Header(o) \/ Notified(o)
  <2>1. /\ UNCHANGED <<exchange, attempt>> /\ pc[o] = "wait" /\ Adopt(exchange[x].told) /\ HasHeader(x)
        /\ \E p \in {"listen", "body", "done"} : pc' = [pc EXCEPT ![o] = p]
    BY <1>x, <1>6 DEF Header, Notified, Return, Reply
  <2>2. /\ exchange[x].stage \notin {"sent", "held"} /\ (exchange[x].stage # "ran" \/ Streamed(x))
        /\ sessions \subseteq {exchange[x].told}
    BY <1>x, <1>2, <2>1 DEF HasHeader, WaitOK
  <2>3. sessions \subseteq {session'}
    BY <1>2, <2>1, <2>2 DEF Adopt
  <2>. QED  BY <1>x, <1>1, <2>1, <2>2, <2>3, SequentialReturn DEF UnderWay, Reply
<1>7. CASE Listen(o) \/ Body(o)
  <2>1. /\ UNCHANGED <<exchange, attempt>> /\ pc[o] \in {"listen", "body"}
        /\ \E p \in {"body", "done"} : pc' = [pc EXCEPT ![o] = p]
    BY <1>7 DEF Listen, Body, Return
  <2>2. exchange[x].stage \notin {"sent", "held"} /\ (exchange[x].stage # "ran" \/ Streamed(x))
    BY <1>x, <2>1 DEF SequentialOK, AheadOK
  <2>3. CASE Listen(o)
    <3>1. sessions \subseteq {exchange[x].told} /\ Adopt(exchange[x].told)
      BY <1>x, <2>3 DEF Listen, SequentialOK, Reply
    <3>2. sessions \subseteq {session'} /\ pc'[o] = "body"
      BY <1>2, <2>3, <3>1 DEF Adopt, Listen, HttpInv, TypeOK
    <3>. QED  BY <1>x, <1>1, <2>1, <2>2, <3>2, SequentialReturn DEF UnderWay
  <2>4. CASE Body(o)
    <3>1. pc[o] = "body" /\ UNCHANGED session /\ pc'[o] = "done"
      BY <2>4 DEF Body, Return, HttpInv, TypeOK
    <3>2. sessions \subseteq {session}
      BY <3>1 DEF SequentialOK, UnderWay
    <3>. QED  BY <1>x, <1>1, <2>1, <2>2, <3>1, <3>2, SequentialReturn DEF UnderWay
  <2>. QED  BY <1>7, <2>3, <2>4
<1>8. CASE Deleted(o)
  <2>1. /\ UNCHANGED <<exchange, attempt>> /\ pc[o] = "wait" /\ exchange[x].stage = "replied"
        /\ Method(x) = "delete" /\ pc' = [pc EXCEPT ![o] = "done"]
    BY <1>x, <1>8 DEF Deleted, Return, Reply, Method
  <2>2. sessions = {} /\ pc'[o] = "done"
    BY <1>x, <1>2, <2>1 DEF WaitOK, HttpInv, TypeOK
  <2>. QED  BY <1>x, <1>1, <2>1, <2>2, SequentialReturn DEF UnderWay
<1>. QED  BY <1>1, <1>3, <1>4, <1>5, <1>6, <1>7, <1>8 DEF Operate

LEMMA SequentialStep == HttpInv /\ SequentialInv /\ [Next]_vars => SequentialInv'
<1> SUFFICES ASSUME HttpInv, SequentialInv, [Next]_vars  PROVE SequentialInv'
  OBVIOUS
<1>1. /\ troubles \in Nat /\ troubles' \in Nat
      /\ troubles' = 0 => UNCHANGED troubles
      /\ ~overlapped' => ~overlapped
  <2>1. UNCHANGED troubles \/ troubles' = troubles + 1
    BY DEF Next, Serve, ServeHTTP, GetSession, Operate, GetOrCreateSession, OpenStream, Handle,
       Respond, EncodeFails, ServeDelete, CleanupExpiredSessions, CloseHandler, Tick, Start, Send,
       DoFails, Rejected, Header, Notified, Listen, Body, BodyLost, DeleteSession, Deleted, Trouble,
       vars, serverVars, frame
  <2>2. ~overlapped' => ~overlapped
    BY DEF Next, Serve, GetSession, Operate, Start, Send, DoFails, Rejected, Header, Notified,
       Listen, Body, BodyLost, DeleteSession, Deleted, vars, clientVars, opRest
  <2>. QED  BY <2>1, <2>2 DEF SequentialInv
<1>. SUFFICES ASSUME Sequential'  PROVE SequentialOK'
  BY <1>1 DEF SequentialInv
<1>2. SequentialOK /\ UNCHANGED troubles /\ ~overlapped'
  BY <1>1 DEF Sequential, SequentialInv
<1>3. CASE UNCHANGED vars
  BY <1>2, <1>3, SequentialTime DEF vars, fixed, serverVars, tableVars
<1>4. CASE Serve
  <2>1. ASSUME NEW x \in Exchanges, ServeHTTP(x)  PROVE SequentialOK'
    BY <1>1, <1>2, <1>4, <2>1, SequentialServe DEF Serve
  <2>2. CASE Tick \/ CloseHandler \/ \E s \in Ids : CleanupExpiredSessions(s)
    BY <1>2, <1>4, <2>2, SequentialTime DEF Serve, Tick, CloseHandler, CleanupExpiredSessions, Remove,
       fixed, tableVars
  <2>. QED  BY <1>4, <2>1, <2>2 DEF Serve
<1>5. CASE GetSession
  <2>1. UNCHANGED <<plan, exchange, sessions, pc, attempt>> /\ session = NoId /\ NoId \notin sessions
    BY <1>5, Fields DEF GetSession, fixed, tableVars, HttpInv, Ids, NoId
  <2>2. ASSUME NEW y \in Exchanges  PROVE AheadOK(y)'
    BY <1>2, <2>1, <2>2 DEF SequentialOK, AheadOK, Streamed, Single, Last
  <2>3. ASSUME NEW q \in Ops, pc[q] = "wait"  PROVE WaitOK(q)'
    BY <1>2, <2>1, <2>3 DEF SequentialOK, WaitOK, InProgress, Streamed, Single, Method, Last
  <2>4. ASSUME NEW q \in Ops, pc[q] = "listen"  PROVE sessions' \subseteq {Reply(q).told}'
    BY <1>2, <2>1, <2>4 DEF SequentialOK, Reply, Last
  <2>. QED  BY <1>2, <2>1, <2>2, <2>3, <2>4 DEF SequentialOK, UnderWay
<1>6. ASSUME NEW o \in Ops, Operate(o)  PROVE SequentialOK'
  BY <1>1, <1>2, <1>6, SequentialOperate
<1>. QED  BY <1>3, <1>4, <1>5, <1>6 DEF Next

\* A client that makes one operation after the other, with nothing lost, never has two
\* sessions on the server.
THEOREM OneSessionCorrect == Spec => []OneSessionWhenSequential
<1>1. HttpInv /\ SequentialInv => OneSessionWhenSequential
  <2>. SUFFICES ASSUME HttpInv, SequentialOK  PROVE Cardinality(sessions) <= 1
    BY DEF SequentialInv, Sequential, OneSessionWhenSequential
  <2>1. \E s : sessions \subseteq {s}
    <3>1. ASSUME NEW o \in Ops, pc[o] = "wait"  PROVE \E s : sessions \subseteq {s}
      <4>1. exchange[Last(o)].stage \in {"sent", "held", "streaming", "ran", "replied"} /\ WaitOK(o)
        BY <3>1, Fields DEF HttpInv, SequentialOK, AheadOK, WaitOK, Stages
      <4>. QED  BY <4>1 DEF WaitOK, InProgress
    <3>. QED  BY <3>1 DEF SequentialOK
  <2>2. PICK s : sessions \subseteq {s}
    BY <2>1
  <2>3. IsFiniteSet({s}) /\ Cardinality({s}) = 1
    BY FS_Singleton
  <2>4. Cardinality(sessions) \in Nat /\ Cardinality(sessions) <= Cardinality({s})
    BY <2>2, <2>3, FS_Subset, FS_CardinalityType
  <2>. QED  BY <2>3, <2>4
<1>2. Spec => []SequentialInv
  BY SequentialInit, SequentialStep, HttpCorrect, PTL DEF Spec
<1>. QED  BY <1>1, <1>2, HttpCorrect, PTL

-----------------------------------------------------------------------------
(* Where the session of an object is known, and what changes it.            *)

\* A session that a response has named is one the server has stored, and a stream has
\* named it before its request ran.
ToldOK(x) ==
    LET t == exchange[x].told IN
    /\ t # NoId => Known(t) /\ (Answered(x) \/ (Streamed(x) /\ InProgress(x)))
    /\ Streamed(x) /\ exchange[x].stage \in {"streaming", "ran"} => t = exchange[x].session

\* No request is about to store a session that the client has, or that it has named.
Free(t) == t <= created /\ \A y \in Exchanges : Unstored(y) => exchange[y].session # t
NamedOK(x) ==
    /\ Free(exchange[x].asks)
    /\ Method(x) = "delete" /\ exchange[x].stage = "replied" => exchange[x].asks \notin sessions

\* How far an operation has come.
ProgressOK(o) ==
    /\ pc[o] # "done" => outcome[o] = "none"
    /\ pc[o] = "send" => plan[o].method # "delete"
    /\ pc[o] \in {"send", "wait"} /\ plan[o].method # "delete" => Given(o)
    /\ pc[o] \in {"listen", "body"} => plan[o].method # "delete" /\ HasHeader(Last(o))
    /\ outcome[o] \in {"ok", "missing"} /\ plan[o].method # "delete" =>
         Reply(o).stage = "replied" /\ Reply(o).result = outcome[o]

\* Why the client may have another session than s, where the object of o is.
Excused(o, s) == s \in ended \/ Displaced(o, s) \/ Dropped(s)

\* The client keeps the session it was given with an object until it uses the object.
HasAdopted(o) == pc[o] \in {"listen", "body"} \/ outcome[o] = "ok"
HeldOK(o) ==
    LET p == plan[o].on IN
    /\ p \in Ops /\ plan[p].method = "make" /\ HasAdopted(p) /\ Reply(p).told # NoId
    /\ pc[o] \in {"new", "send", "wait"}
    => session = Reply(p).told \/ Excused(o, Reply(p).told)

\* A request on an object is served in the session of the object.
UsedOK(y) ==
    LET o == y[1]
        x == exchange[y].object
        s == exchange[x].told
    IN x # <<>> =>
         /\ exchange[y].stage # "none" /\ Method(y) # "delete"
         /\ plan[o].on \in Ops /\ outcome[plan[o].on] = "ok" /\ x = Last(plan[o].on)
         /\ Method(x) = "make" /\ ~Excused(o, s) =>
              /\ exchange[y].asks = s
              /\ InProgress(y) \/ Answered(y) => exchange[y].session = s
              /\ exchange[y].result = "missing" => x \in disposed

NamesInv ==
    /\ Free(session)
    /\ \A x \in Exchanges : ToldOK(x) /\ NamedOK(x)
    /\ \A o \in Ops : ProgressOK(o)
UseInv == (\A o \in Ops : HeldOK(o)) /\ \A y \in Exchanges : UsedOK(y)

-----------------------------------------------------------------------------
(* What a step may do to an exchange.                                       *)

Same(x) ==
    /\ exchange'[x].asks = exchange[x].asks /\ exchange'[x].object = exchange[x].object
    /\ exchange'[x].format = exchange[x].format
Sent(x) ==
    /\ exchange[x].stage = "none" /\ exchange'[x].stage = "sent" /\ exchange'[x].asks = session
    /\ x = Last(x[1])
    /\ \/ Method(x) = "delete" /\ exchange'[x].object = exchange[x].object
       \/ /\ pc[x[1]] = "send"
          /\ exchange'[x].object = IF plan[x[1]].on = NoOp THEN <<>> ELSE Last(plan[x[1]].on)
Unread(x) ==
    /\ exchange[x].stage = "sent" /\ exchange'[x].stage \in {"lost", "rejected"} /\ Same(x)
Taken(x) ==
    /\ exchange[x].stage = "sent" /\ exchange'[x].stage = "held" /\ Same(x)
    /\ UNCHANGED ended /\ exchange'[x].told = exchange[x].told
    /\ \/ /\ exchange[x].asks \in sessions /\ exchange'[x].session = exchange[x].asks
          /\ exchange'[x].existing
       \/ /\ exchange[x].asks \notin sessions /\ exchange'[x].session = created + 1
Served(x) ==
    /\ exchange'[x].session = exchange[x].session /\ exchange'[x].existing = exchange[x].existing
    /\ Same(x)
    /\ \/ /\ exchange[x].stage = "held" /\ exchange'[x].stage = "streaming" /\ Streamed(x)
          /\ exchange'[x].told = exchange[x].session /\ exchange'[x].result = exchange[x].result
       \/ /\ exchange[x].stage = (IF Streamed(x) THEN "streaming" ELSE "held")
          /\ exchange'[x].stage = "ran" /\ exchange'[x].told = exchange[x].told
          /\ exchange'[x].result = "missing" => ~Reaches(x)
       \/ /\ exchange[x].stage = "ran" /\ exchange'[x].stage \in {"replied", "failed"}
          /\ exchange'[x].told \in {NoId, exchange[x].session}
          /\ Streamed(x) => exchange'[x].told = exchange[x].session
          /\ exchange'[x].told # NoId => exchange'[x].told \in sessions' \cup ended'
          /\ exchange'[x].result = exchange[x].result
Ended(x) ==
    /\ exchange[x].stage = "sent" /\ exchange'[x].stage = "replied" /\ Same(x)
    /\ Method(x) = "delete" /\ exchange[x].asks \notin sessions'
    /\ exchange'[x].result = "ok" /\ exchange'[x].told = exchange[x].told
Goes(x) ==
    \/ exchange'[x] = exchange[x]
    \/ Sent(x) \/ Unread(x) \/ Taken(x) \/ Served(x) \/ Ended(x)

LEMMA GoesServe ==
  ASSUME HttpInv, NEW x \in Exchanges, ServeHTTP(x)  PROVE \A y \in Exchanges : Goes(y)
<1> USE DEF fixed, objectVars, tableVars
<1>. DEFINE e == exchange[x]
<1>1. e \in HttpExchanges /\ exchange \in [Exchanges -> HttpExchanges]
  BY Fields DEF HttpInv, TypeOK
<1>2. \A y \in Exchanges \ {x} : exchange'[y] = exchange[y]
  BY <1>1 DEF ServeHTTP, GetOrCreateSession, OpenStream, Handle, Executed, Done, Respond, EncodeFails,
     ServeDelete
<1>3. CASE GetOrCreateSession(x)
  <2>1. e.stage = "sent" /\ UNCHANGED ended
    BY <1>3 DEF GetOrCreateSession
  <2>2. ASSUME Resumed(x)  PROVE Taken(x)
    <3>1. exchange'[x] = [e EXCEPT !.stage = "held", !.existing = TRUE, !.session = e.asks]
      BY <1>1, <1>3, <2>2 DEF GetOrCreateSession
    <3>. QED  BY <1>1, <2>1, <2>2, <3>1 DEF Taken, Same, Resumed, HttpExchanges
  <2>3. ASSUME ~Resumed(x)  PROVE Taken(x)
    <3>1. exchange'[x] = [e EXCEPT !.stage = "held", !.session = created + 1]
      BY <1>1, <1>3, <2>3 DEF GetOrCreateSession
    <3>. QED  BY <1>1, <2>1, <2>3, <3>1 DEF Taken, Same, Resumed, HttpExchanges
  <2>. QED  BY <1>2, <2>2, <2>3 DEF Goes
<1>4. CASE OpenStream(x)
  <2>1. /\ e.stage = "held" /\ Streamed(x)
        /\ exchange'[x] = [e EXCEPT !.stage = "streaming", !.told = e.session]
    BY <1>1, <1>4 DEF OpenStream
  <2>2. Served(x)
    BY <1>1, <2>1 DEF Served, Same, HttpExchanges
  <2>. QED  BY <1>2, <2>2 DEF Goes
<1>5. CASE Handle(x)
  <2>1. \/ Executed(x)
        \/ Done(x, "missing") /\ ~Reaches(x)
    BY <1>5 DEF Handle
  <2>2. PICK r \in {"ok", "missing"} :
          /\ exchange'[x] = [e EXCEPT !.stage = "ran", !.result = r]
          /\ r = "missing" => ~Reaches(x)
    BY <1>1, <2>1 DEF Executed, Done
  <2>3. e.stage = (IF Streamed(x) THEN "streaming" ELSE "held")
    BY <1>5 DEF Handle
  <2>4. Served(x)
    BY <1>1, <2>2, <2>3 DEF Served, Same, HttpExchanges
  <2>. QED  BY <1>2, <2>4 DEF Goes
<1>6. CASE Respond(x) \/ EncodeFails(x)
  <2>1. PICK st \in {"replied", "failed"}, t \in {NoId, e.session} :
          /\ exchange'[x] = [e EXCEPT !.stage = st, !.told = t]
          /\ Streamed(x) => t = e.session
          /\ t = e.session => Streamed(x) \/ (Keep(x) /\ (Respond(x) \/ Single(x))) \/ t = NoId
    BY <1>1, <1>6 DEF Respond, EncodeFails
  <2>2. e.stage = "ran" /\ UNCHANGED ended /\ sessions \subseteq sessions'
    BY <1>6 DEF Respond, EncodeFails, Store
  <2>3. ASSUME t # NoId  PROVE t \in sessions' \cup ended'
    <3>1. t = e.session /\ Placed(x)
      BY <2>3 DEF HttpInv, SessionsOK
    <3>2. CASE Streamed(x) \/ e.existing
      BY <2>2, <2>3, <3>1, <3>2 DEF Placed, Known
    <3>3. CASE ~Streamed(x) /\ ~e.existing
      BY <1>6, <2>1, <2>3, <3>1, <3>3 DEF Respond, EncodeFails, Store
    <3>. QED  BY <3>2, <3>3
  <2>4. exchange'[x].told = t
    BY <1>1, <2>1 DEF HttpExchanges
  <2>5. Served(x)
    BY <1>1, <2>1, <2>2, <2>3, <2>4 DEF Served, Same, HttpExchanges, Known
  <2>. QED  BY <1>2, <2>5 DEF Goes
<1>7. CASE ServeDelete(x)
  <2>1. /\ e.stage = "sent" /\ Method(x) = "delete"
        /\ exchange'[x] = [e EXCEPT !.stage = "replied", !.result = "ok"]
    BY <1>1, <1>7 DEF ServeDelete
  <2>2. e.asks \notin sessions'
    BY <1>7 DEF ServeDelete, Resumed, Remove
  <2>3. Ended(x)
    BY <1>1, <2>1, <2>2 DEF Ended, Same, HttpExchanges
  <2>. QED  BY <1>2, <2>3 DEF Goes
<1>. QED  BY <1>3, <1>4, <1>5, <1>6, <1>7 DEF ServeHTTP

LEMMA GoesOperate ==
  ASSUME HttpInv, \A q \in Ops : ProgressOK(q), NEW o \in Ops, Operate(o)
  PROVE  \A y \in Exchanges : Goes(y)
<1> USE DEF fixed, frame, tableVars, objectVars
<1>x. PICK x \in Exchanges : x = Last(o) /\ x[1] = o
  BY Fields DEF HttpInv
<1>1. exchange[x] \in HttpExchanges /\ exchange \in [Exchanges -> HttpExchanges]
  BY Fields DEF HttpInv, TypeOK
<1>2. CASE Send(o)
  <2>1. exchange[x].stage = "none" /\ pc[o] = "send"
    BY <1>x, <1>2, Fields DEF Send, HttpInv, AttemptsOK
  <2>2. /\ \A y \in Exchanges \ {x} : exchange'[y] = exchange[y]
        /\ exchange'[x].stage = "sent" /\ exchange'[x].asks = session
        /\ exchange'[x].object = IF plan[o].on = NoOp THEN <<>> ELSE Last(plan[o].on)
    BY <1>x, <1>1, <1>2 DEF Send, NoExchange
  <2>. QED  BY <1>x, <2>1, <2>2 DEF Goes, Sent
<1>3. CASE DoFails(o) \/ Rejected(o)
  <2>1. \/ exchange' = exchange
        \/ exchange[x].stage = "sent" /\ \E st \in {"lost", "rejected"} :
             exchange' = [exchange EXCEPT ![x].stage = st]
    BY <1>x, <1>3 DEF DoFails, Rejected, Reply
  <2>2. CASE exchange' = exchange
    BY <2>2 DEF Goes
  <2>3. CASE exchange[x].stage = "sent" /\ \E st \in {"lost", "rejected"} :
               exchange' = [exchange EXCEPT ![x].stage = st]
    <3>1. /\ \A y \in Exchanges \ {x} : exchange'[y] = exchange[y]
          /\ Unread(x)
      BY <1>1, <2>3 DEF Unread, Same, HttpExchanges
    <3>. QED  BY <3>1 DEF Goes
  <2>. QED  BY <2>1, <2>2, <2>3
<1>4. CASE DeleteSession(o)
  <2>1. exchange[x].stage = "none" /\ Method(x) = "delete"
    BY <1>x, <1>4, Fields DEF DeleteSession, HttpInv, AttemptsOK, Method
  <2>2. CASE exchange' = exchange
    BY <2>2 DEF Goes
  <2>3. CASE exchange' = [exchange EXCEPT ![x].stage = "sent", ![x].asks = session]
    <3>1. \A y \in Exchanges \ {x} : exchange'[y] = exchange[y]
      BY <1>1, <2>3
    <3>2. exchange'[x] = [exchange[x] EXCEPT !.stage = "sent", !.asks = session]
      BY <1>1, <2>3
    <3>3. Sent(x)
      BY <1>x, <1>1, <2>1, <3>2 DEF Sent, HttpExchanges
    <3>. QED  BY <3>1, <3>3 DEF Goes
  <2>. QED  BY <1>x, <1>4, <2>2, <2>3 DEF DeleteSession
<1>5. CASE \/ Start(o) \/ Header(o) \/ Notified(o) \/ Listen(o) \/ Body(o) \/ BodyLost(o)
           \/ Deleted(o)
  BY <1>5 DEF Start, Header, Notified, Listen, Body, BodyLost, Deleted, Goes
<1>. QED  BY <1>2, <1>3, <1>4, <1>5 DEF Operate

LEMMA GoesAll ==
  ASSUME HttpInv, \A q \in Ops : ProgressOK(q), [Next]_vars
  PROVE  \A y \in Exchanges : Goes(y)
<1>1. CASE UNCHANGED vars \/ GetSession
  BY <1>1 DEF vars, serverVars, GetSession, Goes
<1>2. CASE Serve
  BY <1>2, GoesServe DEF Serve, CleanupExpiredSessions, CloseHandler, Tick, Goes
<1>3. ASSUME NEW o \in Ops, Operate(o)  PROVE \A y \in Exchanges : Goes(y)
  BY <1>3, GoesOperate
<1>. QED  BY <1>1, <1>2, <1>3 DEF Next

-----------------------------------------------------------------------------
(* What stays true of exchanges, sessions and objects.                      *)

LEMMA Tables ==
  ASSUME HttpInv, [Next]_vars
  PROVE  /\ UNCHANGED plan /\ created <= created'
         /\ ended \subseteq ended' /\ disposed \subseteq disposed'
         /\ \A s : Known(s) => Known(s)'
         /\ \A s \in sessions' \ sessions : \E x \in Exchanges :
               Unstored(x) /\ exchange[x].session = s
<1> USE DEF fixed, frame, tableVars, objectVars
<1>0. created \in Nat
  BY Fields DEF HttpInv
<1>1. CASE UNCHANGED vars
  BY <1>0, <1>1 DEF vars, serverVars, Known
<1>2. CASE GetSession
  BY <1>0, <1>2 DEF GetSession, Known
<1>3. ASSUME NEW o \in Ops, Operate(o)
      PROVE  UNCHANGED <<plan, created, sessions, ended, disposed>>
  BY <1>3 DEF Operate, Start, Send, DoFails, Rejected, Header, Notified, Listen, Body, BodyLost,
     DeleteSession, Deleted
<1>4. ASSUME NEW x \in Exchanges, ServeHTTP(x)
      PROVE  /\ UNCHANGED plan /\ created <= created'
             /\ ended \subseteq ended' /\ disposed \subseteq disposed'
             /\ \A s : Known(s) => Known(s)'
             /\ \A s \in sessions' \ sessions : Unstored(x) /\ exchange[x].session = s
  <2>1. CASE GetOrCreateSession(x)
    BY <1>0, <2>1 DEF GetOrCreateSession, Known
  <2>2. CASE OpenStream(x)
    BY <1>0, <2>2 DEF OpenStream, Store, Known, Unstored
  <2>3. CASE Handle(x)
    BY <1>0, <2>3 DEF Handle, Known
  <2>4. CASE Respond(x) \/ EncodeFails(x)
    BY <1>0, <2>4 DEF Respond, EncodeFails, Store, Known, Unstored
  <2>5. CASE ServeDelete(x)
    BY <1>0, <2>5 DEF ServeDelete, Remove, Known
  <2>. QED  BY <1>4, <2>1, <2>2, <2>3, <2>4, <2>5 DEF ServeHTTP
<1>5. CASE Serve
  <2>1. CASE Tick \/ CloseHandler \/ \E s \in Ids : CleanupExpiredSessions(s)
    BY <1>0, <2>1 DEF Tick, CloseHandler, CleanupExpiredSessions, Remove, Known
  <2>. QED  BY <1>4, <1>5, <2>1 DEF Serve
<1>6. CASE \E o \in Ops : Operate(o)
  BY <1>0, <1>3, <1>6 DEF Known
<1>. QED  BY <1>1, <1>2, <1>5, <1>6 DEF Next

\* What a request asks for, and what its response has said, does not change.
LEMMA Lasting ==
  ASSUME HttpInv, NEW x \in Exchanges, ToldOK(x), Goes(x), UNCHANGED plan
  PROVE  /\ exchange[x].told # NoId => exchange'[x].told = exchange[x].told
         /\ HasHeader(x) => HasHeader(x)' /\ exchange'[x].told = exchange[x].told
         /\ Answered(x) => exchange'[x] = exchange[x]
         /\ exchange[x].stage # "none" =>
              /\ exchange'[x].stage # "none" /\ (Streamed(x)' <=> Streamed(x))
              /\ exchange'[x].asks = exchange[x].asks /\ exchange'[x].object = exchange[x].object
         /\ Unstored(x)' => \/ Unstored(x) /\ exchange'[x].session = exchange[x].session
                            \/ exchange'[x].session = created + 1
<1>1. /\ Unserved(x) => exchange[x].told = NoId
      /\ exchange[x].stage \in Stages
  BY Fields DEF HttpInv, ExchangesOK, ExchangeOK
<1>2. exchange[x].stage # "none" /\ ~Sent(x) => (Streamed(x)' <=> Streamed(x))
  BY DEF Goes, Unread, Taken, Served, Ended, Same, Streamed, Single
<1>3. CASE exchange'[x] = exchange[x]
  BY <1>3 DEF HasHeader, Streamed, Single, Unstored
<1>4. CASE Sent(x)
  BY <1>1, <1>4 DEF Sent, Unserved, HasHeader, Answered, Unstored
<1>5. CASE Unread(x)
  BY <1>1, <1>2, <1>5 DEF Unread, Same, Sent, Unserved, HasHeader, Answered, Unstored
<1>6. CASE Taken(x)
  BY <1>1, <1>2, <1>6 DEF Taken, Same, Sent, Unserved, HasHeader, Answered, Unstored
<1>7. CASE Ended(x)
  BY <1>1, <1>2, <1>7 DEF Ended, Same, Sent, Unserved, HasHeader, Answered, Unstored
<1>8. CASE Served(x)
  <2>1. exchange[x].stage \in {"held", "streaming", "ran"} /\ exchange'[x].stage # "none"
    BY <1>8 DEF Served
  <2>2. exchange[x].told # NoId \/ HasHeader(x) => exchange'[x].told = exchange[x].told
    <3>1. exchange[x].told \in {NoId, exchange[x].session}
      BY DEF HttpInv, ExchangesOK, ExchangeOK
    <3>. QED  BY <1>8, <2>1, <3>1 DEF Served, ToldOK, HasHeader, Answered
  <2>3. HasHeader(x) => HasHeader(x)'
    BY <1>2, <1>8, <2>1 DEF Served, HasHeader, Sent
  <2>4. Unstored(x)' => Unstored(x) /\ exchange'[x].session = exchange[x].session
    BY <1>2, <1>8, <2>1 DEF Served, Unstored, Sent
  <2>. QED  BY <1>2, <1>8, <2>1, <2>2, <2>3, <2>4 DEF Served, Same, Answered, Sent
<1>. QED  BY <1>3, <1>4, <1>5, <1>6, <1>7, <1>8 DEF Goes

\* A session that no request is about to store stays so.
LEMMA FreeStays ==
  ASSUME HttpInv, HttpInv', created <= created', UNCHANGED plan,
         \A x \in Exchanges : ToldOK(x) /\ Goes(x)
  PROVE  \A t \in Nat : Free(t) => Free(t)'
<1>. SUFFICES ASSUME NEW t \in Nat, Free(t)  PROVE Free(t)'
  OBVIOUS
<1>1. created \in Nat /\ created' \in Nat
  BY Fields DEF HttpInv, TypeOK
<1>2. ASSUME NEW y \in Exchanges, Unstored(y)'  PROVE exchange'[y].session # t
  <2>1. \/ Unstored(y) /\ exchange'[y].session = exchange[y].session
        \/ exchange'[y].session = created + 1
    BY <1>2, Lasting
  <2>. QED  BY <1>1, <2>1 DEF Free
<1>. QED  BY <1>1, <1>2 DEF Free

LEMMA ToldStep ==
  ASSUME HttpInv, HttpInv', NEW x \in Exchanges, ToldOK(x), Goes(x), UNCHANGED plan,
         \A s : Known(s) => Known(s)'
  PROVE  ToldOK(x)'
<1>1. /\ Unserved(x) => exchange[x].told = NoId
      /\ Unserved(x)' => exchange'[x].told = NoId
  BY DEF HttpInv, ExchangesOK, ExchangeOK
<1>2. exchange[x].stage # "none" /\ ~Sent(x) => (Streamed(x)' <=> Streamed(x))
  BY DEF Goes, Unread, Taken, Served, Ended, Same, Streamed, Single
<1>3. CASE exchange'[x] = exchange[x]
  BY <1>3 DEF ToldOK, Answered, Streamed, Single, InProgress
<1>4. CASE Sent(x) \/ Unread(x)
  <2>1. Unserved(x)' /\ exchange'[x].stage \in {"sent", "lost", "rejected"}
    BY <1>4 DEF Sent, Unread, Unserved
  <2>. QED  BY <1>1, <2>1 DEF ToldOK
<1>5. CASE Taken(x)
  <2>1. exchange'[x].stage = "held" /\ exchange[x].stage = "sent"
    BY <1>5 DEF Taken
  <2>2. exchange'[x].told = NoId
    BY <1>1, <1>5, <2>1 DEF Taken, Unserved
  <2>. QED  BY <2>1, <2>2 DEF ToldOK
<1>6. CASE Ended(x)
  <2>1. exchange'[x].stage = "replied" /\ exchange'[x].told = NoId
    BY <1>1, <1>6 DEF Ended, Same, Unserved
  <2>. QED  BY <2>1 DEF ToldOK
<1>7. CASE Served(x)
  <2>1. exchange[x].stage \in {"held", "streaming", "ran"} /\ ~Sent(x)
    BY <1>7 DEF Served, Sent
  <2>2. Streamed(x)' <=> Streamed(x)
    BY <1>2, <2>1
  <2>3. CASE exchange'[x].stage = "streaming"
    <3>1. Streamed(x) /\ exchange'[x].told = exchange'[x].session
      BY <1>7, <2>3 DEF Served
    <3>2. exchange'[x].session # NoId => Known(exchange[x].session)'
      BY <1>7, <2>2, <2>3, <3>1 DEF Served, HttpInv, SessionsOK, Placed
    <3>. QED  BY <1>7, <2>2, <2>3, <3>1, <3>2 DEF ToldOK, InProgress, Served, Known
  <2>4. CASE exchange'[x].stage = "ran"
    BY <1>7, <2>1, <2>2, <2>4 DEF Served, ToldOK, InProgress, Answered, Known
  <2>5. CASE exchange'[x].stage \in {"replied", "failed"}
    BY <1>7, <2>5 DEF Served, ToldOK, Answered, Known
  <2>. QED  BY <1>7, <2>3, <2>4, <2>5 DEF Served
<1>. QED  BY <1>3, <1>4, <1>5, <1>6, <1>7 DEF Goes

LEMMA NamedStep ==
  ASSUME HttpInv, HttpInv', Free(session), NEW x \in Exchanges, NamedOK(x),
         \A y \in Exchanges : ToldOK(y) /\ Goes(y), UNCHANGED plan, created <= created',
         \A s \in sessions' \ sessions : \E y \in Exchanges : Unstored(y) /\ exchange[y].session = s
  PROVE  NamedOK(x)'
<1>1. /\ exchange'[x].asks \in {exchange[x].asks, session}
      /\ exchange[x].stage # "none" => exchange'[x].asks = exchange[x].asks
  BY DEF Goes, Sent, Unread, Taken, Served, Ended, Same
<1>2. exchange[x].asks \in Nat /\ session \in Nat
  BY Fields, HttpBoundsAssumption DEF HttpInv, TypeOK, Ids, NoId
<1>3. PICK t \in Nat : t = exchange'[x].asks
  BY <1>1, <1>2
<1>5. Free(t)'
  BY <1>1, <1>3, FreeStays DEF NamedOK
<1>4. ASSUME Method(x) = "delete", exchange'[x].stage = "replied"
      PROVE  exchange'[x].asks \notin sessions'
  <2>1. CASE Ended(x)
    BY <2>1 DEF Ended, Same
  <2>2. CASE exchange'[x] = exchange[x]
    <3>1. exchange[x].asks \notin sessions /\ Free(exchange[x].asks)
      BY <1>4, <2>2 DEF NamedOK
    <3>. QED  BY <2>2, <3>1 DEF Free
  <2>3. ~Served(x)
    BY <1>4 DEF Served, InProgress, HttpInv, ExchangesOK, ExchangeOK
  <2>. QED  BY <1>4, <2>1, <2>2, <2>3 DEF Goes, Sent, Unread, Taken
<1>. QED  BY <1>3, <1>4, <1>5 DEF NamedOK, Method, Free, Unstored

-----------------------------------------------------------------------------
(* What a step may do to an operation, and to the session of the client.    *)

Begins(q) ==
    /\ pc[q] = "new" /\ attempt'[q] = attempt[q]
    /\ \/ /\ pc'[q] = "send" /\ outcome'[q] = outcome[q]
          /\ plan[q].method # "delete" /\ Given(q)
       \/ /\ pc'[q] \in {"wait", "done"} /\ plan[q].method = "delete"
          /\ pc'[q] = "wait" => outcome'[q] = outcome[q]
          /\ outcome'[q] # "missing"
Retries(q) ==
    \/ /\ pc[q] = "send" /\ pc'[q] = "wait" /\ outcome'[q] = outcome[q]
       /\ attempt'[q] = attempt[q]
    \/ /\ pc[q] = "wait" /\ pc'[q] = "send" /\ outcome'[q] = outcome[q]
       /\ plan[q].method # "delete"
Hears(q) ==
    /\ pc'[q] \in {"listen", "body"} /\ attempt'[q] = attempt[q] /\ outcome'[q] = outcome[q]
    /\ \/ /\ pc[q] = "wait" /\ plan[q].method # "delete" /\ HasHeader(Last(q))
          /\ Adopt(Reply(q).told)
       \/ pc[q] = "listen"
Finishes(q) ==
    /\ pc'[q] = "done" /\ attempt'[q] = attempt[q]
    /\ \/ /\ pc[q] = "wait" /\ outcome'[q] # "missing"
          /\ outcome'[q] = "ok" => plan[q].method = "delete"
       \/ pc[q] = "body" /\ outcome'[q] = "failed"
       \/ pc[q] = "body" /\ outcome'[q] = Reply(q).result /\ Reply(q).stage = "replied"
Stands(q) == pc'[q] = pc[q] /\ outcome'[q] = outcome[q] /\ attempt'[q] = attempt[q]
Turns(q) == Stands(q) \/ Begins(q) \/ Retries(q) \/ Hears(q) \/ Finishes(q)

LEMMA TurnsAll ==
  ASSUME HttpInv, [Next]_vars, \A q \in Ops : ProgressOK(q)  PROVE \A q \in Ops : Turns(q)
<1> USE DEF opRest
<1>1. CASE UNCHANGED vars \/ Serve \/ GetSession
  BY <1>1 DEF vars, clientVars, Serve, GetSession, Turns, Stands
<1>2. ASSUME NEW o \in Ops, Operate(o)  PROVE \A q \in Ops : Turns(q)
  <2>0. /\ pc \in [Ops -> {"new", "send", "wait", "listen", "body", "done"}]
        /\ outcome \in [Ops -> {"none", "ok", "missing", "failed", "accepted"}]
        /\ attempt \in [Ops -> 1 .. Attempts]
        /\ ProgressOK(o)
    BY DEF HttpInv, TypeOK
  <2>1. ASSUME NEW q \in Ops, q # o  PROVE Stands(q)
    BY <1>2, <2>0, <2>1 DEF Operate, Start, Send, DoFails, Rejected, TryNext, Header, Notified, Listen,
       Body, BodyLost, DeleteSession, Deleted, Return, Stands
  <2>2. ASSUME Start(o)  PROVE Turns(o)
    BY <2>0, <2>2 DEF Start, Begins, Turns
  <2>3. ASSUME Send(o)  PROVE Turns(o)
    BY <2>0, <2>3 DEF Send, Retries, Turns
  <2>4. ASSUME DoFails(o) \/ Rejected(o)  PROVE Turns(o)
    BY <2>0, <2>4 DEF DoFails, Rejected, TryNext, Return, Retries, Finishes, Turns
  <2>5. ASSUME Header(o) \/ Listen(o)  PROVE Turns(o)
    BY <2>0, <2>5 DEF Header, Listen, Hears, Turns
  <2>6. ASSUME Notified(o) \/ BodyLost(o)  PROVE Turns(o)
    BY <2>0, <2>6 DEF Notified, BodyLost, Return, Finishes, Turns
  <2>7. ASSUME Body(o)  PROVE Turns(o)
    BY <2>0, <2>7 DEF Body, Return, Result, Finishes, Turns
  <2>8. ASSUME DeleteSession(o)  PROVE Turns(o)
    BY <2>0, <2>8 DEF DeleteSession, Return, Begins, Turns, ProgressOK
  <2>9. ASSUME Deleted(o)  PROVE Turns(o)
    BY <2>0, <2>9 DEF Deleted, Return, Finishes, Turns
  <2>. QED  BY <1>2, <2>1, <2>2, <2>3, <2>4, <2>5, <2>6, <2>7, <2>8, <2>9 DEF Operate, Turns
<1>. QED  BY <1>1, <1>2 DEF Next

LEMMA ProgressStep ==
  ASSUME HttpInv, HttpInv', [Next]_vars, \A q \in Ops : ProgressOK(q),
         \A x \in Exchanges : ToldOK(x), NEW o \in Ops
  PROVE  ProgressOK(o)'
<1>1. UNCHANGED plan /\ ProgressOK(o) /\ Turns(o)
  BY Tables, TurnsAll
<1>2. \A q \in Ops : outcome[q] = "ok" => outcome'[q] = "ok"
  BY TurnsAll DEF ProgressOK, Turns, Stands, Begins, Retries, Hears, Finishes
<1>3. Given(o) => Given(o)'
  <2>1. plan[o].on \in Ops \cup {NoOp}
    BY DEF HttpInv, TypeOK, Plans
  <2>. QED  BY <1>1, <1>2, <2>1 DEF Given
<1>4. /\ attempt'[o] = attempt[o] => Last(o)' = Last(o)
      /\ Last(o) \in Exchanges
  BY Fields DEF HttpInv, Last
<1>x. PICK x \in Exchanges : x = Last(o)
  BY <1>4
<1>5. /\ HasHeader(x) => HasHeader(x)'
      /\ exchange[x].stage = "replied" => exchange'[x] = exchange[x]
  BY <1>1, Lasting, GoesAll DEF Answered
<1>6. CASE Stands(o)
  BY <1>1, <1>3, <1>4, <1>x, <1>5, <1>6 DEF Stands, ProgressOK, Reply, HasHeader
<1>7. CASE Begins(o)
  BY <1>1, <1>3, <1>7 DEF Begins, ProgressOK
<1>8. CASE Retries(o)
  BY <1>1, <1>3, <1>8 DEF Retries, ProgressOK
<1>9. CASE Hears(o)
  BY <1>1, <1>4, <1>x, <1>5, <1>9 DEF Hears, ProgressOK, HasHeader
<1>10. CASE Finishes(o)
  BY <1>1, <1>4, <1>x, <1>5, <1>10 DEF Finishes, ProgressOK, Reply
<1>. QED  BY <1>1, <1>6, <1>7, <1>8, <1>9, <1>10 DEF Turns

\* Why the client has another session than before.
Drops(q) ==
    /\ plan[q].method = "delete" /\ Reply(q).stage = "replied"
    /\ session' = NoId /\ UNCHANGED exchange
Adopts(q) ==
    /\ Reply(q).told # NoId /\ session' = Reply(q).told /\ UNCHANGED exchange
    /\ pc[q] \in {"wait", "listen"} /\ pc'[q] \in {"listen", "body", "done"}
Switches ==
    \/ session' = session
    \/ /\ session = NoId /\ session' = created + 1 /\ created' = created + 1
       /\ UNCHANGED exchange
    \/ \E q \in Ops : Drops(q) \/ Adopts(q)

LEMMA SwitchesAll ==
  ASSUME HttpInv, [Next]_vars  PROVE Switches
<1>1. CASE UNCHANGED vars \/ Serve \/ GetSession
  BY <1>1 DEF vars, clientVars, Serve, GetSession, Switches
<1>2. ASSUME NEW o \in Ops, Operate(o)  PROVE Switches
  <2>1. CASE Header(o) \/ Notified(o) \/ Listen(o)
    <3>1. /\ UNCHANGED exchange /\ Adopt(Reply(o).told) /\ pc[o] \in {"wait", "listen"}
          /\ pc'[o] \in {"listen", "body", "done"}
      BY <2>1 DEF Header, Notified, Listen, Return, HttpInv, TypeOK
    <3>. QED  BY <3>1 DEF Adopt, Adopts, Switches
  <2>2. CASE Deleted(o)
    BY <2>2 DEF Deleted, Drops, Switches
  <2>3. CASE ~(Header(o) \/ Notified(o) \/ Listen(o) \/ Deleted(o))
    BY <1>2, <2>3 DEF Operate, Start, Send, DoFails, Rejected, Body, BodyLost, DeleteSession, Switches
  <2>. QED  BY <2>1, <2>2, <2>3
<1>. QED  BY <1>1, <1>2 DEF Next

LEMMA FreeStep ==
  ASSUME HttpInv, HttpInv', [Next]_vars, NamesInv  PROVE Free(session)'
<1>1. /\ UNCHANGED plan /\ created <= created'
      /\ \A x \in Exchanges : ToldOK(x) /\ Goes(x)
  BY Tables, GoesAll DEF NamesInv
<1>2. created \in Nat /\ session \in Nat
  BY Fields, HttpBoundsAssumption DEF HttpInv, TypeOK
<1>3. \A x \in Exchanges : Unstored(x) =>
        exchange[x].session # NoId /\ exchange[x].session <= created /\ ~Known(exchange[x].session)
  BY DEF HttpInv, ExchangesOK, ExchangeOK, InProgress, Unstored, SessionsOK, Placed
<1>4. ASSUME session' \in Nat, Free(session')  PROVE Free(session)'
  <2>1. PICK t \in Nat : t = session' /\ Free(t)
    BY <1>4
  <2>2. Free(t)'
    BY <1>1, <2>1, FreeStays
  <2>. QED  BY <2>1, <2>2 DEF Free, Unstored
<1>5. CASE session' = session
  BY <1>2, <1>4, <1>5 DEF NamesInv
<1>6. CASE session' = created + 1 /\ created' = created + 1 /\ UNCHANGED exchange
  <2>1. ASSUME NEW y \in Exchanges, Unstored(y)'
        PROVE  Unstored(y) /\ exchange'[y].session <= created
    BY <1>1, <1>3, <1>6, <2>1 DEF Unstored, Streamed, Single
  <2>. QED  BY <1>2, <1>6, <2>1 DEF Free
<1>7. ASSUME NEW q \in Ops, Drops(q)  PROVE Free(session)'
  <2>1. Free(NoId)
    BY <1>2, <1>3 DEF Free, NoId
  <2>. QED  BY <1>4, <1>7, <2>1 DEF Drops, NoId
<1>8. ASSUME NEW q \in Ops, Adopts(q)  PROVE Free(session)'
  <2>1. PICK x \in Exchanges : x = Last(q)
    BY Fields DEF HttpInv
  <2>2. session' = exchange[x].told /\ Known(exchange[x].told)
    BY <1>1, <1>8, <2>1 DEF Adopts, Reply, ToldOK
  <2>3. exchange[x].told \in Nat /\ exchange[x].told <= created
    BY <2>2, Fields DEF HttpInv, TypeOK, ExchangesOK, ExchangeOK, NoId
  <2>. QED  BY <1>3, <1>4, <2>2, <2>3 DEF Free
<1>. QED  BY <1>5, <1>6, <1>7, <1>8, SwitchesAll DEF Switches

LEMMA NamesInit == Init => NamesInv
<1> SUFFICES ASSUME Init  PROVE NamesInv
  OBVIOUS
<1> USE DEF Init, ServerInit, ClientInit
<1>1. \A x \in Exchanges : exchange[x] = NoExchange
  OBVIOUS
<1>2. Free(NoId)
  BY <1>1 DEF Free, Unstored, NoExchange, NoId
<1>3. \A x \in Exchanges : ToldOK(x) /\ NamedOK(x)
  BY <1>1, <1>2 DEF ToldOK, NamedOK, NoExchange
<1>4. \A o \in Ops : ProgressOK(o)
  BY DEF ProgressOK
<1>. QED  BY <1>2, <1>3, <1>4 DEF NamesInv

LEMMA NamesStep == HttpInv /\ HttpInv' /\ NamesInv /\ [Next]_vars => NamesInv'
<1> SUFFICES ASSUME HttpInv, HttpInv', NamesInv, [Next]_vars  PROVE NamesInv'
  OBVIOUS
<1>1. \A x \in Exchanges : Goes(x)
  BY GoesAll DEF NamesInv
<1>2. ASSUME NEW x \in Exchanges  PROVE ToldOK(x)' /\ NamedOK(x)'
  BY <1>1, <1>2, Tables, ToldStep, NamedStep DEF NamesInv
<1>3. ASSUME NEW o \in Ops  PROVE ProgressOK(o)'
  BY <1>3, ProgressStep DEF NamesInv
<1>. QED  BY <1>2, <1>3, FreeStep DEF NamesInv

-----------------------------------------------------------------------------
(* Objects are used in the session they are in.                             *)

LEMMA ExcusedStays ==
  ASSUME HttpInv, \A x \in Exchanges : ToldOK(x) /\ Goes(x), UNCHANGED plan, ended \subseteq ended'
  PROVE  \A o \in Ops, s \in Nat : Excused(o, s) => Excused(o, s)'
<1>. SUFFICES ASSUME NEW o \in Ops, NEW s \in Nat, Excused(o, s)  PROVE Excused(o, s)'
  OBVIOUS
<1>1. CASE s \in ended
  BY <1>1 DEF Excused
<1>2. CASE Displaced(o, s)
  <2>1. PICK x \in Exchanges : x[1] \notin {o, plan[o].on} /\ exchange[x].told \notin {NoId, s}
    BY <1>2 DEF Displaced
  <2>2. exchange'[x].told = exchange[x].told
    BY <2>1, Lasting
  <2>. QED  BY <2>1, <2>2 DEF Excused, Displaced
<1>3. CASE Dropped(s)
  <2>1. PICK x \in Exchanges :
          Method(x) = "delete" /\ exchange[x].stage = "replied" /\ exchange[x].asks # s
    BY <1>3 DEF Dropped
  <2>2. exchange'[x] = exchange[x]
    BY <2>1, Lasting DEF Answered
  <2>. QED  BY <2>1, <2>2 DEF Excused, Dropped, Method
<1>. QED  BY <1>1, <1>2, <1>3 DEF Excused

\* The response that gave the client a session names the same one ever after.
LEMMA AdoptedStays ==
  ASSUME HttpInv, NamesInv, [Next]_vars, NEW p \in Ops, plan[p].method = "make", HasAdopted(p)'
  PROVE  /\ Last(p)' = Last(p) /\ Reply(p)'.told = Reply(p).told
         /\ \/ HasAdopted(p)
            \/ pc[p] = "wait" /\ Adopt(Reply(p).told)
<1>1. ProgressOK(p) /\ Turns(p)
  BY TurnsAll DEF NamesInv
<1>2. PICK x \in Exchanges : x = Last(p)
  BY Fields DEF HttpInv
<1>3. /\ attempt'[p] = attempt[p] /\ HasHeader(x)
      /\ HasAdopted(p) \/ (pc[p] = "wait" /\ Adopt(Reply(p).told))
  <2>1. CASE Stands(p)
    BY <1>1, <1>2, <2>1 DEF Stands, HasAdopted, ProgressOK, HasHeader, Reply
  <2>2. CASE Hears(p)
    BY <1>1, <1>2, <2>2 DEF Hears, HasAdopted, ProgressOK
  <2>3. CASE Finishes(p)
    BY <1>1, <1>2, <2>3 DEF Finishes, HasAdopted, ProgressOK
  <2>4. ~Begins(p) /\ ~Retries(p)
    BY <1>1 DEF Begins, Retries, HasAdopted, ProgressOK
  <2>. QED  BY <1>1, <2>1, <2>2, <2>3, <2>4 DEF Turns
<1>4. exchange'[x].told = exchange[x].told
  BY <1>3, Lasting, GoesAll, Tables DEF NamesInv
<1>. QED  BY <1>2, <1>3, <1>4 DEF Last, Reply

LEMMA HeldStep ==
  ASSUME HttpInv, HttpInv', NamesInv, [Next]_vars, NEW o \in Ops, HeldOK(o)
  PROVE  HeldOK(o)'
<1>1. /\ UNCHANGED plan /\ ended \subseteq ended' /\ \A s : Known(s) => Known(s)'
      /\ \A x \in Exchanges : ToldOK(x) /\ Goes(x)
      /\ Turns(o) /\ ProgressOK(o)
  BY Tables, GoesAll, TurnsAll DEF NamesInv
<1>2. \A q \in Ops : Reply(q)'.told \in Nat
  <2>1. ASSUME NEW y \in Exchanges  PROVE exchange'[y].told \in Nat
    BY <2>1, HttpBoundsAssumption DEF HttpInv, TypeOK, HttpExchanges, Ids, NoId
  <2>. QED  BY <2>1, Pairs DEF HttpInv, TypeOK, Reply, Last
<1>. SUFFICES ASSUME NEW p \in Ops, p = plan[o].on, plan[p].method = "make", HasAdopted(p)',
                     NEW s \in Nat, s = Reply(p)'.told, s # NoId,
                     pc'[o] \in {"new", "send", "wait"}
              PROVE  session' = s \/ Excused(o, s)'
  BY <1>1, <1>2 DEF HeldOK, Excused, Displaced, Dropped, Method, HasAdopted, Reply, Last
<1>3. PICK x \in Exchanges : x = Last(p) /\ x[1] = p
  BY Fields DEF HttpInv
<1>4. Reply(p).told = s /\ exchange[x].told = s
  BY <1>3, AdoptedStays DEF Reply
<1>5. pc[o] \in {"new", "send", "wait"}
  BY <1>1 DEF Turns, Stands, Begins, Retries, Hears, Finishes
<1>6. CASE ~HasAdopted(p)
  BY <1>4, <1>6, AdoptedStays DEF Adopt
<1>7. CASE HasAdopted(p) /\ session # s
  BY <1>1, <1>3, <1>4, <1>5, <1>7, ExcusedStays DEF HeldOK
<1>8. CASE HasAdopted(p) /\ session = s
  <2>1. CASE session' = session \/ session = NoId
    BY <1>4, <1>8, <2>1
  <2>2. ASSUME NEW q \in Ops, Drops(q)  PROVE Excused(o, s)'
    <3>1. PICK y \in Exchanges : y = Last(q) /\ Method(y) = "delete" /\ exchange[y].stage = "replied"
      BY <2>2, Fields DEF Drops, Reply, Method, HttpInv
    <3>2. CASE exchange[y].asks # s
      <4>1. Excused(o, s)
        BY <3>1, <3>2 DEF Excused, Dropped
      <4>. QED  BY <1>1, <4>1, ExcusedStays
    <3>3. CASE exchange[y].asks = s
      <4>1. s \notin sessions /\ Known(s)
        BY <1>1, <1>3, <1>4, <3>1, <3>3 DEF NamesInv, NamedOK, ToldOK
      <4>2. Excused(o, s)
        BY <4>1 DEF Known, Excused
      <4>. QED  BY <1>1, <4>2, ExcusedStays
    <3>. QED  BY <3>2, <3>3
  <2>3. ASSUME NEW q \in Ops, Adopts(q)  PROVE session' = s \/ Excused(o, s)'
    <3>1. q # o
      BY <2>3 DEF Adopts
    <3>2. CASE q = p
      BY <1>4, <2>3, <3>2 DEF Adopts
    <3>3. CASE q # p /\ session' # s
      <4>1. PICK y \in Exchanges : y = Last(q) /\ y[1] = q /\ exchange[y].told = session'
        BY <2>3, Fields DEF Adopts, Reply, HttpInv
      <4>2. Displaced(o, s)
        BY <2>3, <3>1, <3>3, <4>1 DEF Adopts, Displaced, Reply
      <4>. QED  BY <1>1, <4>2, ExcusedStays DEF Excused
    <3>. QED  BY <3>2, <3>3
  <2>. QED  BY <2>1, <2>2, <2>3, SwitchesAll DEF Switches
<1>. QED  BY <1>6, <1>7, <1>8

\* An object is there to be used once the response that returned it has come.
LEMMA MadeStays ==
  ASSUME ObjectsInv, NamesInv, [Next]_vars, NEW q \in Ops, outcome[q] = "ok"
  PROVE  /\ outcome'[q] = "ok" /\ Last(q)' = Last(q)
         /\ plan[q].method = "make" =>
              /\ exchange'[Last(q)] = exchange[Last(q)]
              /\ Reply(q).told \in Nat \ {NoId} /\ Known(Reply(q).told)
              /\ Last(q) \in refs[Reply(q).told] \cup disposed
<1>1. HttpInv /\ ProgressOK(q) /\ Turns(q) /\ UNCHANGED plan
  BY TurnsAll, Tables DEF ObjectsInv, NamesInv
<1>2. Stands(q)
  BY <1>1 DEF ProgressOK, Turns, Begins, Retries, Hears, Finishes
<1>3. PICK x \in Exchanges : x = Last(q) /\ x[1] = q
  BY <1>1, Fields DEF HttpInv
<1>4. ASSUME plan[q].method = "make"
      PROVE  /\ exchange'[x] = exchange[x] /\ exchange[x].told \in Nat \ {NoId}
             /\ Known(exchange[x].told) /\ x \in refs[exchange[x].told] \cup disposed
  <2>1. exchange[x].stage = "replied" /\ Method(x) = "make"
    BY <1>1, <1>3, <1>4 DEF ProgressOK, Reply, Method
  <2>2. exchange'[x] = exchange[x]
    BY <1>1, <2>1, Lasting, GoesAll DEF NamesInv, Answered
  <2>3. exchange[x].session # NoId /\ exchange[x].told \in Nat
    BY <1>1, <2>1, Fields DEF HttpInv, ExchangesOK, ExchangeOK, Answered, NoId
  <2>4. /\ exchange[x].told = exchange[x].session /\ Known(exchange[x].session)
        /\ x \in refs[exchange[x].session] \cup disposed
    BY <2>1 DEF ObjectsInv, ObjectsOK, MadeOK
  <2>. QED  BY <2>2, <2>3, <2>4
<1>. QED  BY <1>1, <1>2, <1>3, <1>4 DEF Stands, ProgressOK, Last, Reply

LEMMA UsedStep ==
  ASSUME ObjectsInv, ObjectsInv', NamesInv, UseInv, [Next]_vars, NEW y \in Exchanges
  PROVE  UsedOK(y)'
<1>. DEFINE o == y[1]
            e == exchange[y]
<1>0. HttpInv /\ HttpInv' /\ o \in Ops
  BY Pairs DEF ObjectsInv
<1>1. /\ UNCHANGED plan /\ ended \subseteq ended' /\ disposed \subseteq disposed'
      /\ \A x \in Exchanges : ToldOK(x) /\ Goes(x)
      /\ HeldOK(o) /\ UsedOK(y) /\ ProgressOK(o)
      /\ \A s \in Nat : Excused(o, s) => Excused(o, s)'
  BY <1>0, Tables, GoesAll, ExcusedStays DEF NamesInv, UseInv
<1>2. /\ e.stage = "none" => e.object = <<>>
      /\ Unserved(y)' => exchange'[y].result = "none"
  BY <1>0, <1>1 DEF UsedOK, HttpInv, ExchangesOK, ExchangeOK
<1>3. exchange'[y].object # <<>> => exchange'[y].object \in Exchanges /\ plan[o].on \in Ops
  <2>1. exchange'[y].object \in Exchanges \cup {<<>>} /\ plan[o].on \in Ops \cup {NoOp}
    BY <1>0 DEF HttpInv, TypeOK, HttpExchanges, Plans
  <2>2. CASE Sent(y)
    BY <1>2, <2>1, <2>2 DEF Sent
  <2>3. CASE ~Sent(y)
    BY <1>1, <2>1, <2>3 DEF Goes, Same, Unread, Taken, Served, Ended, UsedOK
  <2>. QED  BY <2>2, <2>3
\* Nothing changes of an object that has been handed out, so the old one can be spoken of.
<1>. SUFFICES ASSUME NEW x \in Exchanges, x = exchange'[y].object,
                      NEW q \in Ops, q = plan[o].on, NEW s, s = exchange[x].told
               PROVE  /\ exchange'[y].stage # "none" /\ Method(y) # "delete"
                      /\ outcome[q] = "ok" /\ x = Last(q)
                      /\ Method(x) = "make" /\ s \in Nat /\ ~Excused(o, s)' =>
                           /\ exchange'[y].asks = s
                           /\ InProgress(y)' \/ Answered(y)' => exchange'[y].session = s
                           /\ exchange'[y].result = "missing" => x \in disposed'
  <2>1. ASSUME NEW x \in Exchanges, NEW q \in Ops, q = plan[o].on, outcome[q] = "ok", x = Last(q)
        PROVE  /\ outcome'[q] = "ok" /\ x = Last(q)'
               /\ Method(x) = "make" => exchange'[x].told = exchange[x].told /\ exchange[x].told \in Nat
    BY <1>0, <2>1, MadeStays, Fields DEF HttpInv, Reply, Method
  <2>. QED  BY <1>1, <1>3, <2>1 DEF UsedOK, Method, Excused, Displaced, Dropped, Last
<1>4. CASE Sent(y)
  <2>1. pc[o] = "send" /\ plan[o].on # NoOp /\ x = Last(q)
    <3>1. x # <<>>
      BY Pairs
    <3>. QED  BY <1>2, <1>4, <3>1 DEF Sent
  <2>2. Method(y) # "delete" /\ outcome[q] = "ok"
    BY <1>1, <2>1 DEF ProgressOK, Given, Method
  <2>3. exchange'[y].stage = "sent" /\ exchange'[y].result = "none" /\ exchange'[y].asks = session
    BY <1>2, <1>4 DEF Sent, Unserved
  <2>4. ASSUME Method(x) = "make", s \in Nat, ~Excused(o, s)'  PROVE session = s
    <3>1. plan[q].method = "make" /\ Reply(q).told = s
      BY <1>0, <2>1, <2>4, Fields DEF HttpInv, Method, Reply
    <3>2. HasAdopted(q) /\ s # NoId
      BY <2>2, <3>1, MadeStays DEF HasAdopted
    <3>. QED  BY <1>1, <2>1, <2>4, <3>1, <3>2 DEF HeldOK
  <2>. QED  BY <2>1, <2>2, <2>3, <2>4 DEF InProgress, Answered
<1>5. CASE ~Sent(y)
  <2>1. e.object = x /\ exchange'[y].asks = e.asks
    BY <1>1, <1>5 DEF Goes, Same, Unread, Taken, Served, Ended
  <2>2. x # <<>>
    BY Pairs
  <2>3. /\ e.stage # "none" /\ Method(y) # "delete" /\ outcome[q] = "ok" /\ x = Last(q)
        /\ Method(x) = "make" /\ ~Excused(o, s) =>
             /\ e.asks = s
             /\ InProgress(y) \/ Answered(y) => e.session = s
             /\ e.result = "missing" => x \in disposed
    BY <1>1, <2>1, <2>2 DEF UsedOK
  <2>4. exchange'[y].stage # "none"
    BY <1>1, <1>5, <2>3 DEF Goes, Unread, Taken, Served, Ended
  <2>. SUFFICES ASSUME Method(x) = "make", s \in Nat, ~Excused(o, s)'
                PROVE  /\ InProgress(y)' \/ Answered(y)' => exchange'[y].session = s
                       /\ exchange'[y].result = "missing" => x \in disposed'
    BY <1>1, <2>1, <2>3, <2>4
  <2>5. x \in refs[s] \cup disposed /\ Known(s) /\ ~Excused(o, s)
    BY <1>0, <1>1, <2>3, MadeStays, Fields DEF HttpInv, Reply, Method
  <2>6. CASE exchange'[y] = e
    BY <1>1, <2>3, <2>5, <2>6 DEF InProgress, Answered
  <2>7. CASE Unread(y)
    BY <1>2, <2>7 DEF Unread, Unserved, InProgress, Answered
  <2>8. CASE Taken(y)
    <3>1. s \in sessions
      BY <2>5 DEF Known, Excused
    <3>2. exchange'[y].session = s
      BY <2>3, <2>5, <2>8, <3>1 DEF Taken
    <3>3. exchange'[y].result = "none"
      BY <1>0, <2>8 DEF Taken, HttpInv, ExchangesOK, ExchangeOK
    <3>. QED  BY <3>2, <3>3
  <2>9. CASE Served(y)
    BY <1>1, <2>1, <2>3, <2>5, <2>9 DEF Served, InProgress, Answered, Reaches
  <2>10. ~Ended(y)
    BY <2>3 DEF Ended
  <2>. QED  BY <1>1, <1>5, <2>6, <2>7, <2>8, <2>9, <2>10 DEF Goes
<1>. QED  BY <1>4, <1>5

LEMMA UseInit == Init => UseInv
<1> SUFFICES ASSUME Init  PROVE UseInv
  OBVIOUS
<1>1. \A x \in Exchanges : exchange[x] = NoExchange
  BY DEF Init, ServerInit
<1>2. \A o \in Ops : HeldOK(o)
  BY DEF HeldOK, HasAdopted, Init, ClientInit
<1>3. \A y \in Exchanges : UsedOK(y)
  BY <1>1 DEF UsedOK, NoExchange
<1>. QED  BY <1>2, <1>3 DEF UseInv

LEMMA UseStep == ObjectsInv /\ ObjectsInv' /\ NamesInv /\ UseInv /\ [Next]_vars => UseInv'
<1> SUFFICES ASSUME ObjectsInv, ObjectsInv', NamesInv, UseInv, [Next]_vars  PROVE UseInv'
  OBVIOUS
<1>1. ASSUME NEW o \in Ops  PROVE HeldOK(o)'
  BY <1>1, HeldStep DEF UseInv, ObjectsInv
<1>2. ASSUME NEW y \in Exchanges  PROVE UsedOK(y)'
  BY <1>2, UsedStep
<1>. QED  BY <1>1, <1>2 DEF UseInv

\* A request on an object is told that there is none only if the object or its session is
\* gone, or the client has taken another session in between.
THEOREM MissingIsGone == Spec => []MissingOnlyIfGone
<1>1. HttpInv /\ NamesInv /\ UseInv => MissingOnlyIfGone
  <2>. SUFFICES ASSUME HttpInv, NamesInv, UseInv, NEW o \in Ops, outcome[o] = "missing",
                       NEW x \in Exchanges, x = Reply(o).object, Method(x) = "make"
                PROVE  x \in disposed \/ Excused(o, exchange[x].told)
    BY DEF MissingOnlyIfGone, Excused
  <2>1. PICK y \in Exchanges : y = Last(o) /\ y[1] = o
    BY Fields DEF HttpInv
  <2>2. x # <<>> /\ UsedOK(y) /\ ProgressOK(o)
    BY Pairs DEF UseInv, NamesInv
  <2>3. Method(y) # "delete" /\ x = exchange[y].object
    BY <2>1, <2>2 DEF UsedOK, Reply
  <2>4. exchange[y].result = "missing"
    BY <2>1, <2>2, <2>3 DEF ProgressOK, Method, Reply
  <2>. QED  BY <2>1, <2>2, <2>3, <2>4 DEF UsedOK
<1>2. Spec => [](NamesInv /\ UseInv)
  <2>1. Init => NamesInv /\ UseInv
    BY NamesInit, UseInit
  <2>2. ObjectsInv /\ ObjectsInv' /\ NamesInv /\ UseInv /\ [Next]_vars => (NamesInv /\ UseInv)'
    BY NamesStep, UseStep DEF ObjectsInv
  <2>. QED  BY <2>1, <2>2, ObjectsCorrect, PTL DEF Spec
<1>3. Spec => []HttpInv
  BY HttpCorrect
<1>. QED  BY <1>1, <1>2, <1>3, PTL
=============================================================================
