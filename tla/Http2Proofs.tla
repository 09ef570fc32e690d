---------------------------- MODULE Http2Proofs ----------------------------
(***************************************************************************)
(* Proofs about Http2Sessions, for any connections, sessions and objects.  *)
(*                                                                         *)
(* That no entry names a closed connection is not inductive: the clearing  *)
(* of the entry in Closed finds it by the session of the connection.  The  *)
(* invariant Inv adds that an entry names only connections of its session, *)
(* which are open or closing, and that only an idle connection has none.   *)
(***************************************************************************)
EXTENDS Http2Sessions, FiniteSetTheorems, TLAPS

Types ==
    /\ conn \in [Sessions -> Conns \cup {NoConn}]
    /\ pc \in [Conns -> {"idle", "accepted", "open", "closing", "closed"}]
    /\ sess \in [Conns -> Sessions \cup {NoSession}]

HasSession == \A c \in Conns : pc[c] # "idle" => sess[c] \in Sessions

\* An entry names a connection of its session that has not been closed.
Attached ==
    \A s \in Sessions : \A c \in Conns :
        conn[s] = c => sess[c] = s /\ pc[c] \in {"open", "closing"}

Inv == Types /\ HasSession /\ Attached

LEMMA InitInv == Init => Inv
BY NobodyAssumption DEF Init, Inv, Types, HasSession, Attached

\* Removing sessions only empties entries.
LEMMA RemoveInv ==
    ASSUME Inv, NEW S \in SUBSET Sessions, Remove(S)
    PROVE  Inv'
<1>1. /\ conn' = [s \in Sessions |-> IF s \in S THEN NoConn ELSE conn[s]]
      /\ pc' = pc /\ sess' = sess
  BY DEF Remove
<1>2. Types' /\ HasSession'
  BY <1>1 DEF Inv, Types, HasSession
<1>3. Attached'
  BY <1>1, NobodyAssumption DEF Inv, Types, Attached
<1> QED BY <1>2, <1>3 DEF Inv

\* A connection is accepted: the entry of a reused session is emptied.
LEMMA AcceptInv ==
    ASSUME Inv, NEW c \in Conns, Accept(c)
    PROVE  Inv'
<1>1. PICK s \in Sessions :
         /\ conn' = conn \/ conn' = [conn EXCEPT ![s] = NoConn]
         /\ sess' = [sess EXCEPT ![c] = s]
  BY DEF Accept, Reuse, Create
<1>2. pc[c] = "idle" /\ pc' = [pc EXCEPT ![c] = "accepted"]
  BY DEF Accept
<1>3. Types' /\ HasSession'
  BY <1>1, <1>2 DEF Inv, Types, HasSession
<1>4. Attached'
  <2> SUFFICES ASSUME NEW t \in Sessions, NEW d \in Conns, conn'[t] = d
               PROVE  sess'[d] = t /\ pc'[d] \in {"open", "closing"}
    BY DEF Attached
  <2>1. conn[t] = d
    BY <1>1, NobodyAssumption DEF Inv, Types
  <2>2. sess[d] = t /\ pc[d] \in {"open", "closing"} /\ d # c
    BY <2>1, <1>2 DEF Inv, Attached
  <2> QED BY <2>2, <1>1, <1>2 DEF Inv, Types
<1> QED BY <1>3, <1>4 DEF Inv

\* A connection is stored in the entry of its session.
LEMMA StoreInv ==
    ASSUME Inv, NEW c \in Conns, Store(c)
    PROVE  Inv'
<1>1. /\ pc[c] = "accepted" /\ pc' = [pc EXCEPT ![c] = "open"]
      /\ conn' = [conn EXCEPT ![sess[c]] = c] /\ sess' = sess
  BY DEF Store
<1>2. sess[c] \in Sessions
  BY <1>1 DEF Inv, HasSession
<1>3. Types' /\ HasSession'
  BY <1>1, <1>2 DEF Inv, Types, HasSession
<1>4. Attached'
  BY <1>1, <1>2 DEF Inv, Types, Attached
<1> QED BY <1>3, <1>4 DEF Inv

\* A connection begins to close: it may still be in its entry.
LEMMA ShutInv ==
    ASSUME Inv, NEW c \in Conns, Shut(c)
    PROVE  Inv'
BY DEF Shut, entryVars, Inv, Types, HasSession, Attached

\* A connection has closed: if its entry still names it, the entry is emptied.
LEMMA ClosedInv ==
    ASSUME Inv, NEW c \in Conns, Closed(c)
    PROVE  Inv'
<1>1. /\ pc[c] = "closing" /\ pc' = [pc EXCEPT ![c] = "closed"] /\ sess' = sess
      /\ conn' = IF conn[sess[c]] = c THEN [conn EXCEPT ![sess[c]] = NoConn] ELSE conn
  BY DEF Closed, Forget
<1>2. sess[c] \in Sessions
  BY <1>1 DEF Inv, HasSession
<1>3. Types' /\ HasSession'
  BY <1>1, <1>2 DEF Inv, Types, HasSession
<1>4. Attached'
  <2> SUFFICES ASSUME NEW t \in Sessions, NEW d \in Conns, conn'[t] = d
               PROVE  sess'[d] = t /\ pc'[d] \in {"open", "closing"}
    BY DEF Attached
  <2>1. conn[t] = d
    BY <1>1, <1>2, NobodyAssumption DEF Inv, Types
  <2>2. sess[d] = t /\ pc[d] \in {"open", "closing"}
    BY <2>1 DEF Inv, Attached
  <2>3. d # c
    BY <2>1, <2>2, <1>1, <1>2, NobodyAssumption DEF Inv, Types
  <2> QED BY <2>2, <2>3, <1>1 DEF Inv, Types
<1> QED BY <1>3, <1>4 DEF Inv

\* A step changes conn, pc and sess by one of these alone.
LEMMA Steps ==
    ASSUME Next
    PROVE  \/ \E c \in Conns : Accept(c) \/ Store(c) \/ Shut(c) \/ Closed(c)
           \/ \E S \in SUBSET sessions : Remove(S)
           \/ UNCHANGED <<conn, pc, sess>>
<1>1. ASSUME NEW c \in Conns, Serve(c) PROVE UNCHANGED <<conn, pc, sess>>
  BY <1>1 DEF Serve
<1>2. ASSUME NEW c \in Conns, CloseDetached(c) \/ StreamEnds(c) PROVE Shut(c)
  BY <1>2 DEF CloseDetached, StreamEnds
<1>3. ASSUME NEW s \in Sessions, Delete(s) \/ Expire(s)
      PROVE  \E S \in SUBSET sessions : Remove(S)
  BY <1>3 DEF Delete, Expire
<1>4. ASSUME CloseServer PROVE \E S \in SUBSET sessions : Remove(S)
  BY <1>4 DEF CloseServer
<1>5. ASSUME Tick \/ Shutdown \/ Down PROVE UNCHANGED <<conn, pc, sess>>
  BY <1>5 DEF Tick, Shutdown, Down, entryVars
<1> QED BY <1>1, <1>2, <1>3, <1>4, <1>5 DEF Next

\* The table holds identifiers of sessions only.
Table == sessions \subseteq Sessions

LEMMA TableStep == ASSUME Table, [Next]_vars PROVE Table'
<1>1. ASSUME NEW c \in Conns, Accept(c) PROVE Table'
  BY <1>1 DEF Table, Accept, Reuse, Create
<1>2. ASSUME NEW c \in Conns, Store(c) \/ Serve(c) \/ CloseDetached(c) \/ StreamEnds(c)
                              \/ Closed(c)
      PROVE  Table'
  BY <1>2 DEF Table, Store, Serve, CloseDetached, StreamEnds, Shut, Closed, entryVars
<1>3. ASSUME NEW s \in Sessions, Delete(s) \/ Expire(s) PROVE Table'
  BY <1>3 DEF Table, Delete, Expire, Remove
<1>4. ASSUME Tick \/ CloseServer \/ Shutdown \/ Down PROVE Table'
  BY <1>4 DEF Table, Tick, CloseServer, Remove, Shutdown, Down, entryVars
<1>5. CASE UNCHANGED vars
  BY <1>5 DEF Table, vars, entryVars
<1> QED BY <1>1, <1>2, <1>3, <1>4, <1>5 DEF Next

LEMMA InvStep == ASSUME Table, Inv, [Next]_vars PROVE Inv'
<1>1. CASE UNCHANGED <<conn, pc, sess>>
  BY <1>1 DEF Inv, Types, HasSession, Attached
<1>2. CASE UNCHANGED vars
  BY <1>1, <1>2 DEF vars, entryVars
<1>3. ASSUME NEW c \in Conns, Accept(c) \/ Store(c) \/ Shut(c) \/ Closed(c) PROVE Inv'
  BY <1>3, AcceptInv, StoreInv, ShutInv, ClosedInv
<1>4. ASSUME NEW S \in SUBSET sessions, Remove(S) PROVE Inv'
  BY <1>4, RemoveInv DEF Table
<1> QED BY <1>1, <1>2, <1>3, <1>4, Steps

LEMMA Invariant == Spec => [](Table /\ Inv)
<1>1. Init => Table /\ Inv
  BY InitInv DEF Init, Table
<1>2. Table /\ Inv /\ [Next]_vars => (Table /\ Inv)'
  BY TableStep, InvStep
<1> QED BY <1>1, <1>2, PTL DEF Spec

\* No entry names a connection whose Close has finished (HTTP2Conn.Close clears it
\* under the lock of the entry), for any number of connections and sessions.
THEOREM DeadNeverAttached == Spec => []ClosedForgotten
<1>1. Inv => ClosedForgotten
  BY DEF Inv, Attached, ClosedForgotten
<1> QED BY <1>1, Invariant, PTL

-----------------------------------------------------------------------------

\* The claim of SuccessorKept about one step.
Kept == \A s \in Sessions : conn[s] # NoConn /\ conn'[s] = NoConn =>
            conn[s] \in toClose' \/ pc'[conn[s]] = "closed"

LEMMA RemoveKept == ASSUME Inv, NEW S \in SUBSET Sessions, Remove(S) PROVE Kept
<1> SUFFICES ASSUME NEW s \in Sessions, conn[s] # NoConn, conn'[s] = NoConn
             PROVE  conn[s] \in toClose'
  BY DEF Kept
<1>1. s \in S
  BY DEF Remove
<1> QED BY <1>1 DEF Remove, ConnsOf

LEMMA AcceptKept == ASSUME Inv, NEW c \in Conns, Accept(c) PROVE Kept
<1>1. ASSUME NEW s \in Sessions, Reuse(c, s) PROVE Kept
  <2> SUFFICES ASSUME NEW t \in Sessions, conn[t] # NoConn, conn'[t] = NoConn
               PROVE  conn[t] \in toClose'
    BY DEF Kept
  <2>1. t = s
    BY <1>1 DEF Reuse, Inv, Types
  <2> QED BY <1>1, <2>1 DEF Reuse, Detach, ConnsOf
<1>2. ASSUME NEW s \in Sessions, Create(c, s) PROVE Kept
  BY <1>2 DEF Create, Kept
<1> QED BY <1>1, <1>2 DEF Accept

LEMMA ClosedKept == ASSUME Inv, NEW c \in Conns, Closed(c) PROVE Kept
<1> SUFFICES ASSUME NEW s \in Sessions, conn[s] # NoConn, conn'[s] = NoConn
             PROVE  pc'[conn[s]] = "closed"
  BY DEF Kept
<1>1. conn[s] = c
  BY DEF Closed, Forget, Inv, Types, Attached
<1> QED BY <1>1 DEF Closed, Inv, Types

\* The late Close of a replaced connection never detaches its successor: an entry
\* loses a connection only to a goroutine that closes it, or to its own Close.
THEOREM SuccessorsStay == Spec => SuccessorKept
<1>1. Table /\ Inv /\ [Next]_vars => [Kept]_vars
  <2> SUFFICES ASSUME Table, Inv, Next PROVE Kept
    OBVIOUS
  <2>1. CASE UNCHANGED <<conn, pc, sess>>
    BY <2>1 DEF Kept
  <2>2. ASSUME NEW c \in Conns, Store(c) PROVE Kept
    BY <2>2, NobodyAssumption DEF Store, Kept, Inv, Types
  <2>3. ASSUME NEW c \in Conns, Shut(c) PROVE Kept
    BY <2>3 DEF Shut, entryVars, Kept
  <2>4. ASSUME NEW S \in SUBSET sessions, Remove(S) PROVE Kept
    BY <2>4, RemoveKept DEF Table
  <2> QED BY <2>1, <2>2, <2>3, <2>4, AcceptKept, ClosedKept, Steps
<1>2. [Kept]_vars => [\A s \in Sessions : conn[s] # NoConn /\ conn'[s] = NoConn =>
                        conn[s] \in toClose' \/ pc'[conn[s]] = "closed"]_vars
  BY DEF Kept
<1> QED BY <1>1, <1>2, Invariant, PTL DEF Spec, SuccessorKept

-----------------------------------------------------------------------------
(* The types, and one connection for a session whose reconnects do not      *)
(* overlap.  For that an entry must name the connection that nobody is      *)
(* closing, and a request that is accepted must be alone with its session.  *)

LEMMA TypeInit == Init => TypeOK
  BY DEF Init, TypeOK

LEMMA TypeRemove ==
    ASSUME TypeOK, NEW S \in SUBSET sessions, Remove(S), UNCHANGED awaited \/ awaited' = ConnsOf(S),
           server' \in {server, "closing"}
    PROVE  TypeOK'
<1>1. ConnsOf(S) \subseteq Conns
  BY NobodyAssumption DEF ConnsOf, TypeOK
<1>2. UNION {refs[s] : s \in S} \subseteq Objects
  BY DEF TypeOK
<1>3. conn' \in [Sessions -> Conns \cup {NoConn}] /\ refs' \in [Sessions -> SUBSET Objects]
  BY DEF Remove, TypeOK
<1> QED BY <1>1, <1>2, <1>3 DEF Remove, TypeOK

LEMMA TypeStep == TypeOK /\ Inv /\ [Next]_vars => TypeOK'
<1> SUFFICES ASSUME TypeOK, Inv, [Next]_vars PROVE TypeOK'
  OBVIOUS
<1>1. ASSUME NEW c \in Conns, Accept(c) PROVE TypeOK'
  <2>1. PICK s \in Sessions : Reuse(c, s) \/ Create(c, s)
    BY <1>1 DEF Accept
  <2>2. CASE Reuse(c, s)
    <3>1. Detach(s) \subseteq Conns
      BY NobodyAssumption DEF Detach, ConnsOf, TypeOK
    <3> QED BY <1>1, <2>2, <3>1 DEF Accept, Reuse, TypeOK
  <2>3. CASE Create(c, s)
    BY <1>1, <2>3 DEF Accept, Create, TypeOK
  <2> QED BY <2>1, <2>2, <2>3
<1>2. ASSUME NEW c \in Conns, Store(c) \/ CloseDetached(c) \/ StreamEnds(c) \/ Closed(c)
      PROVE  TypeOK'
  BY <1>2 DEF Store, CloseDetached, StreamEnds, Shut, Closed, entryVars, TypeOK
<1>3. ASSUME NEW c \in Conns, Serve(c) PROVE TypeOK'
  <2>1. sess[c] \in Sessions
    BY <1>3 DEF Serve, Inv, HasSession
  <2>2. PICK R \in SUBSET Objects :
           /\ refs' = [refs EXCEPT ![sess[c]] = R]
           /\ disposed' \in {disposed} \cup {disposed \cup {o} : o \in Objects}
    <3>1. refs[sess[c]] \subseteq Objects
      BY <2>1 DEF TypeOK
    <3>2. \/ \E o \in Objects : refs' = [refs EXCEPT ![sess[c]] = @ \cup {o}] /\ UNCHANGED disposed
          \/ \E o \in Objects :
               refs' = [refs EXCEPT ![sess[c]] = @ \ {o}] /\ disposed' = disposed \cup {o}
      BY <1>3, <3>1 DEF Serve
    <3> QED BY <3>1, <3>2
  <2>3. refs' \in [Sessions -> SUBSET Objects] /\ disposed' \subseteq Objects
    BY <2>2 DEF TypeOK
  <2> QED BY <1>3, <2>3 DEF Serve, TypeOK
<1>4. ASSUME NEW s \in Sessions, Delete(s) \/ Expire(s) PROVE TypeOK'
  BY <1>4, TypeRemove DEF Delete, Expire
<1>5. CASE Tick
  <2>1. age' \in [Sessions -> 0 .. 2]
    BY <1>5 DEF Tick, TypeOK
  <2> QED BY <1>5, <2>1 DEF Tick, TypeOK
<1>6. CASE CloseServer
  BY <1>6, TypeRemove DEF CloseServer
<1>7. CASE Shutdown \/ Down \/ UNCHANGED vars
  BY <1>7 DEF Shutdown, Down, vars, entryVars, TypeOK
<1> QED BY <1>1, <1>2, <1>3, <1>4, <1>5, <1>6, <1>7 DEF Next

\* The variables of the server stay in their types.
THEOREM SessionTypes == Spec => []TypeOK
  BY TypeInit, TypeStep, Invariant, PTL DEF Spec

\* The connections of a session that are accepted or open and that nobody is closing.
Live(c, s) == sess[c] = s /\ pc[c] \in {"accepted", "open"} /\ c \notin toClose

Sole ==
    /\ \A c \in Conns :
         /\ sess[c] \in created \cup {NoSession}
         /\ pc[c] \in {"idle", "accepted"} => c \notin toClose
    /\ \A s \in Sessions \ raced :
         /\ \A c, d \in Conns : Live(c, s) /\ Live(d, s) => c = d
         /\ \A c \in Conns : Live(c, s) /\ pc[c] = "open" => conn[s] = c

LEMMA SoleAccept ==
    ASSUME TypeOK, Inv, Sole, NEW c \in Conns, Accept(c)
    PROVE  Sole'
<1>1. /\ pc[c] = "idle" /\ pc'[c] = "accepted" /\ c \notin toClose
      /\ \A d \in Conns \ {c} : pc'[d] = pc[d]
  BY DEF Accept, TypeOK, Sole
<1>2. PICK s \in Sessions : Reuse(c, s) \/ Create(c, s)
  BY DEF Accept
<1>3. sess'[c] = s /\ \A d \in Conns \ {c} : sess'[d] = sess[d]
  BY <1>2 DEF Reuse, Create, TypeOK
<1>4. /\ toClose \subseteq toClose' /\ raced \subseteq raced'
      /\ \A d \in toClose' \ toClose : d \in Conns => pc[d] \in {"open", "closing"}
  BY <1>2 DEF Reuse, Create, Detach, ConnsOf, Inv, Attached
<1>5. ASSUME NEW d \in Conns
      PROVE  /\ sess'[d] \in created' \cup {NoSession}
             /\ pc'[d] \in {"idle", "accepted"} => d \notin toClose'
  BY <1>1, <1>2, <1>3, <1>4, <1>5 DEF Reuse, Create, Sole, TypeOK
<1>6. ASSUME s \notin raced'  PROVE \A d \in Conns \ {c} : ~Live(d, s)'
  <2>1. CASE Create(c, s)
    BY <1>3, <2>1, NobodyAssumption DEF Create, Sole, Live
  <2>2. CASE Reuse(c, s)
    <3> SUFFICES ASSUME NEW d \in Conns, d # c, Live(d, s)'  PROVE FALSE
      OBVIOUS
    <3>1. Live(d, s) /\ pc[d] # "accepted"
      BY <1>1, <1>3, <1>4, <1>6, <2>2 DEF Live, Reuse
    <3>2. conn[s] = d
      BY <1>4, <1>6, <3>1 DEF Sole, Live
    <3> QED BY <2>2, <3>2, NobodyAssumption DEF Reuse, Detach, ConnsOf, Live
  <2> QED BY <1>2, <2>1, <2>2
<1>7. ASSUME NEW t \in Sessions \ raced', t # s
      PROVE  /\ conn'[t] = conn[t]
             /\ \A d \in Conns : Live(d, t)' => Live(d, t) /\ pc'[d] = pc[d]
  <2>1. conn'[t] = conn[t]
    BY <1>2, <1>7 DEF Reuse, Create, TypeOK
  <2> QED BY <1>1, <1>3, <1>4, <1>7, <2>1 DEF Live
<1>8. ASSUME NEW t \in Sessions \ raced'
      PROVE  /\ \A d, e \in Conns : Live(d, t)' /\ Live(e, t)' => d = e
             /\ \A d \in Conns : Live(d, t)' /\ pc'[d] = "open" => conn'[t] = d
  <2>1. CASE t = s
    BY <1>1, <1>6, <1>8, <2>1
  <2>2. CASE t # s
    BY <1>4, <1>7, <1>8, <2>2 DEF Sole
  <2> QED BY <2>1, <2>2
<1> QED BY <1>5, <1>8 DEF Sole

\* Connections are closed, or go on with their session.
LEMMA SoleConn ==
    ASSUME TypeOK, Inv, Sole, NEW c \in Conns, Store(c) \/ Shut(c) \/ Closed(c)
    PROVE  Sole'
<1>1. UNCHANGED <<sess, created, toClose, raced>> /\ \A d \in Conns \ {c} : pc'[d] = pc[d]
  BY DEF Store, Shut, Closed, entryVars, TypeOK
<1>2. CASE Store(c)
  <2>1. /\ pc[c] = "accepted" /\ pc'[c] = "open" /\ sess[c] \in Sessions
        /\ conn' = [conn EXCEPT ![sess[c]] = c]
    BY <1>2 DEF Store, TypeOK, Inv, HasSession
  <2>2. \A d \in Conns, s \in Sessions : Live(d, s)' => Live(d, s)
    BY <1>1, <2>1 DEF Live
  <2>3. ASSUME NEW s \in Sessions \ raced, NEW d \in Conns, Live(d, s)', pc'[d] = "open"
        PROVE  conn'[s] = d
    <3>1. Live(d, s) /\ (sess[c] = s => Live(c, s))
      BY <1>1, <2>1, <2>2, <2>3 DEF Live, Sole
    <3>2. CASE sess[c] = s
      <4>1. d = c
        BY <2>3, <3>1, <3>2 DEF Sole
      <4> QED BY <2>1, <3>2, <4>1 DEF TypeOK
    <3>3. CASE sess[c] # s
      <4>1. d # c /\ pc[d] = "open"
        BY <1>1, <2>3, <3>1, <3>3 DEF Live
      <4>2. conn[s] = d
        BY <2>3, <3>1, <4>1 DEF Sole
      <4> QED BY <2>1, <3>3, <4>2 DEF TypeOK
    <3> QED BY <3>2, <3>3
  <2> QED BY <1>1, <2>1, <2>2, <2>3 DEF Sole
<1>3. CASE Shut(c) \/ Closed(c)
  <2>1. pc[c] \in {"open", "closing"} /\ pc'[c] \in {"closing", "closed"}
    BY <1>3 DEF Shut, Closed, TypeOK
  <2>2. \A d \in Conns, s \in Sessions : Live(d, s)' => Live(d, s) /\ d # c /\ pc'[d] = pc[d]
    BY <1>1, <2>1 DEF Live
  <2>3. ASSUME NEW s \in Sessions, conn[s] # c  PROVE conn'[s] = conn[s]
    BY <1>3, <2>3 DEF Shut, Closed, entryVars, Forget, TypeOK
  <2> QED BY <1>1, <2>1, <2>2, <2>3 DEF Sole
<1> QED BY <1>2, <1>3

LEMMA SoleRemove ==
    ASSUME TypeOK, Inv, Sole, NEW S \in SUBSET sessions, Remove(S)
    PROVE  Sole'
<1>1. /\ UNCHANGED <<pc, sess, created, raced>> /\ toClose' = toClose \cup ConnsOf(S)
      /\ \A s \in Sessions : conn'[s] = IF s \in S THEN NoConn ELSE conn[s]
  BY DEF Remove
<1>2. \A d \in Conns, s \in Sessions : Live(d, s)' => Live(d, s)
  BY <1>1 DEF Live
<1>3. ASSUME NEW c \in Conns, pc[c] \in {"idle", "accepted"}  PROVE c \notin toClose'
  BY <1>1, <1>3 DEF ConnsOf, Sole, Inv, Attached, TypeOK
<1>4. ASSUME NEW s \in Sessions \ raced, NEW d \in Conns, Live(d, s)', pc[d] = "open"
      PROVE  conn'[s] = d
  <2>1. conn[s] = d
    BY <1>2, <1>4 DEF Sole
  <2>2. s \notin S
    BY <1>1, <1>4, <2>1, NobodyAssumption DEF Live, ConnsOf
  <2> QED BY <1>1, <2>1, <2>2
<1> QED BY <1>1, <1>2, <1>3, <1>4 DEF Sole

LEMMA SoleStep == TypeOK /\ Inv /\ Sole /\ [Next]_vars => Sole'
<1> SUFFICES ASSUME TypeOK, Inv, Sole, [Next]_vars PROVE Sole'
  OBVIOUS
<1>1. ASSUME UNCHANGED <<created, conn, pc, sess, toClose, raced>> PROVE Sole'
  BY <1>1 DEF Sole, Live
<1>2. ASSUME NEW c \in Conns, Accept(c) \/ Store(c) \/ Closed(c) \/ CloseDetached(c) \/ StreamEnds(c)
      PROVE  Sole'
  BY <1>2, SoleAccept, SoleConn DEF CloseDetached, StreamEnds
<1>3. ASSUME NEW s \in Sessions, Delete(s) \/ Expire(s) PROVE Sole'
  BY <1>3, SoleRemove DEF Delete, Expire
<1>4. CASE CloseServer
  BY <1>4, SoleRemove DEF CloseServer
<1>5. ASSUME NEW c \in Conns, Serve(c) PROVE Sole'
  BY <1>1, <1>5 DEF Serve
<1>6. CASE Tick \/ Shutdown \/ Down \/ UNCHANGED vars
  BY <1>1, <1>6 DEF Tick, Shutdown, Down, vars, entryVars
<1> QED BY <1>2, <1>3, <1>4, <1>5, <1>6 DEF Next

\* A session to which no two requests were connecting at once has one connection at most
\* that nobody is closing, however often its client reconnects.
THEOREM OneConnectionEach == Spec => []OneWhenSequential
<1>1. Init => Sole
  BY DEF Init, Sole, Live
<1>2. Spec => []Sole
  BY <1>1, SoleStep, SessionTypes, Invariant, PTL DEF Spec
<1>3. Sole => OneWhenSequential
  <2> SUFFICES ASSUME Sole, NEW s \in Sessions \ raced  PROVE Cardinality(Serving(s)) <= 1
    BY DEF OneWhenSequential
  <2>1. \A c, d \in Serving(s) : c = d
    BY DEF Serving, Sole, Live
  <2>2. Serving(s) = {} \/ \E c : Serving(s) = {c}
    BY <2>1
  <2>3. CASE Serving(s) = {}
    BY <2>3, FS_EmptySet
  <2>4. ASSUME NEW c, Serving(s) = {c}  PROVE Cardinality(Serving(s)) <= 1
    BY <2>4, FS_Singleton
  <2> QED BY <2>2, <2>3, <2>4
<1> QED BY <1>2, <1>3, PTL

=============================================================================
