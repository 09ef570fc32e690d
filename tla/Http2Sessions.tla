--------------------------- MODULE Http2Sessions ---------------------------
(***************************************************************************)
(* The sessions of the HTTP/2 server and the connections attached to them: *)
(* src/go/jsonrpc3/http2_server.go.  A session outlives its connections: a *)
(* client reconnects with the header RPC-Session-Id, and a session ends by *)
(* DELETE, by the cleanup of expired sessions, or with the server.         *)
(*                                                                         *)
(* Time is the age of a session since it was last connected to: 0, more    *)
(* than StatelessSessionTTL (1), more than DefaultSessionTTL (2).  What a  *)
(* connection does with its messages is not here; only that its handlers   *)
(* may add references to the session, also after the connection closed.    *)
(* An operator named XFault is a plausible bug in X, used by no            *)
(* specification: it shows that the properties tell it from X.             *)
(***************************************************************************)
EXTENDS Naturals, FiniteSets

CONSTANTS
    Conns,      \* the POST requests the server may get, a connection each
    Sessions,   \* the session identifiers NewSession may generate
    Objects,    \* the objects that requests may return
    NoConn, NoSession

ASSUME NobodyAssumption == NoConn \notin Conns /\ NoSession \notin Sessions

VARIABLES
    sessions, created,  \* the table, and the sessions that were ever in it
    conn, age,          \* the fields conn and lastAccessed of the entries
    refs, disposed,     \* the references of each session, and those disposed of
    pc, sess,           \* the progress of each connection, and its session
    toClose,            \* the connections some goroutine is to close
    server, awaited,    \* HTTP2Server.Close and the connections it closes
    raced               \* ghost: the sessions with two connections under way at once

entryVars == <<sessions, created, conn, age, refs, disposed>>
vars == <<entryVars, pc, sess, toClose, server, awaited, raced>>

Init ==
    /\ sessions = {} /\ created = {}
    /\ conn = [s \in Sessions |-> NoConn] /\ age = [s \in Sessions |-> 0]
    /\ refs = [s \in Sessions |-> {}] /\ disposed = {}
    /\ pc = [c \in Conns |-> "idle"] /\ sess = [c \in Conns |-> NoSession]
    /\ toClose = {} /\ awaited = {} /\ server = "up" /\ raced = {}

\* The connections attached to the sessions in S; most have none.
ConnsOfFault(S) == {conn[s] : s \in S}
ConnsOf(S) == {conn[s] : s \in S} \ {NoConn}

-----------------------------------------------------------------------------
(* A connection.                                                            *)

\* getOrCreateSession finds the session: its old connection is closed by a goroutine.
DetachFault(s) == {}
Detach(s) == ConnsOf({s})

Reuse(c, s) ==
    /\ s \in sessions
    /\ age' = [age EXCEPT ![s] = 0]
    /\ conn' = [conn EXCEPT ![s] = NoConn]
    /\ toClose' = toClose \cup Detach(s)
    /\ sess' = [sess EXCEPT ![c] = s]
    /\ raced' = raced \cup {x \in {s} : \E d \in Conns : sess[d] = s /\ pc[d] = "accepted"}
    /\ UNCHANGED <<sessions, created>>

\* The request names no session, or one that is gone: it gets a new one.
Create(c, s) ==
    /\ s \notin created
    /\ sessions' = sessions \cup {s} /\ created' = created \cup {s}
    /\ sess' = [sess EXCEPT ![c] = s]
    /\ UNCHANGED <<conn, age, toClose, raced>>

Accept(c) ==
    /\ pc[c] = "idle" /\ server \in {"up", "closing"}
    /\ \E s \in Sessions : Reuse(c, s) \/ Create(c, s)
    /\ pc' = [pc EXCEPT ![c] = "accepted"]
    /\ UNCHANGED <<refs, disposed, server, awaited>>

\* The connection is stored in the entry, over whatever is there.
Store(c) ==
    /\ pc[c] = "accepted"
    /\ conn' = [conn EXCEPT ![sess[c]] = c]
    /\ pc' = [pc EXCEPT ![c] = "open"]
    /\ UNCHANGED <<sessions, created, age, refs, disposed, sess, toClose, server, awaited,
                   raced>>

\* A handler, which runs in a goroutine of its own, registers the object it returns, or
\* disposes of a reference for the client.
Serve(c) ==
    /\ pc[c] \in {"open", "closing", "closed"}
    /\ \/ /\ \E o \in Objects \ (disposed \cup UNION {refs[s] : s \in Sessions}) :
               refs' = [refs EXCEPT ![sess[c]] = @ \cup {o}]
          /\ UNCHANGED disposed
       \/ \E o \in refs[sess[c]] :
            /\ refs' = [refs EXCEPT ![sess[c]] = @ \ {o}]
            /\ disposed' = disposed \cup {o}
    /\ UNCHANGED <<sessions, created, conn, age, pc, sess, toClose, server, awaited, raced>>

\* HTTP2Conn.Close, once: the stream is closed...
Shut(c) ==
    /\ pc[c] = "open"
    /\ pc' = [pc EXCEPT ![c] = "closing"]
    /\ UNCHANGED <<entryVars, sess, toClose, server, awaited, raced>>

\* ... by the goroutine that is to close it, or because the client went away or
\* a loop of the connection failed.
CloseDetached(c) == c \in toClose /\ Shut(c)
StreamEnds(c) == c \notin toClose /\ Shut(c)

\* ... and then the entry forgets the connection, if it still has this one.  Close locks
\* the entry for it: nobody closes a connection while holding that lock.
CanLockFault(c) == c \notin toClose
CanLock(c) == TRUE

ForgetFault(c) == TRUE
ForgetNothingFault(c) == FALSE
Forget(c) == conn[sess[c]] = c

Closed(c) ==
    /\ pc[c] = "closing" /\ CanLock(c)
    /\ conn' = IF Forget(c) THEN [conn EXCEPT ![sess[c]] = NoConn] ELSE conn
    /\ pc' = [pc EXCEPT ![c] = "closed"]
    /\ UNCHANGED <<sessions, created, age, refs, disposed, sess, toClose, server, awaited,
                   raced>>

-----------------------------------------------------------------------------
(* The end of sessions.                                                     *)

\* Under the lock of the table: the references are disposed of and the entries removed;
\* the goroutine closes their connections after it.
Remove(S) ==
    /\ sessions' = sessions \ S
    /\ conn' = [s \in Sessions |-> IF s \in S THEN NoConn ELSE conn[s]]
    /\ disposed' = disposed \cup UNION {refs[s] : s \in S}
    /\ refs' = [s \in Sessions |-> IF s \in S THEN {} ELSE refs[s]]
    /\ toClose' = toClose \cup ConnsOf(S)
    /\ UNCHANGED <<created, age, pc, sess, raced>>

\* handleDeleteSession.
Delete(s) == s \in sessions /\ server # "down" /\ Remove({s}) /\ UNCHANGED <<server, awaited>>

\* cleanupExpiredSessions: only connecting makes a session young again.
Expired(s) == age[s] > (IF refs[s] = {} THEN 0 ELSE 1)
Expire(s) ==
    /\ s \in sessions /\ server = "up" /\ Expired(s)
    /\ Remove({s})
    /\ UNCHANGED <<server, awaited>>

Tick ==
    /\ \E s \in sessions : age[s] < 2
    /\ age' = [s \in Sessions |-> IF s \in sessions /\ age[s] < 2 THEN age[s] + 1 ELSE age[s]]
    /\ UNCHANGED <<sessions, created, conn, refs, disposed, pc, sess, toClose, server,
                   awaited, raced>>

\* HTTP2Server.Close removes every session...
CloseServer ==
    /\ server = "up" /\ server' = "closing"
    /\ awaited' = ConnsOf(sessions)
    /\ Remove(sessions)

\* ... closes their connections and then shuts the HTTP server down...
Shutdown ==
    /\ server = "closing" /\ \A c \in awaited : pc[c] = "closed"
    /\ server' = "shutdown"
    /\ UNCHANGED <<entryVars, pc, sess, toClose, awaited, raced>>

\* ... which waits for the requests it has accepted.
Down ==
    /\ server = "shutdown" /\ \A c \in Conns : pc[c] \in {"idle", "closed"}
    /\ server' = "down"
    /\ UNCHANGED <<entryVars, pc, sess, toClose, awaited, raced>>

-----------------------------------------------------------------------------

Next ==
    \/ \E c \in Conns : \/ Accept(c) \/ Store(c) \/ Serve(c)
                        \/ CloseDetached(c) \/ StreamEnds(c) \/ Closed(c)
    \/ \E s \in Sessions : Delete(s) \/ Expire(s)
    \/ Tick \/ CloseServer \/ Shutdown \/ Down

\* Goroutines that can run do; clients and time need not do anything.
Fairness ==
    /\ \A c \in Conns : WF_vars(Store(c)) /\ WF_vars(CloseDetached(c)) /\ WF_vars(Closed(c))
    /\ WF_vars(Shutdown) /\ WF_vars(Down)

Spec == Init /\ [][Next]_vars
FairSpec == Spec /\ Fairness

-----------------------------------------------------------------------------
(* Properties.                                                              *)

\* Every variable stays in its type.
TypeOK ==
    /\ sessions \subseteq created /\ created \subseteq Sessions
    /\ conn \in [Sessions -> Conns \cup {NoConn}] /\ age \in [Sessions -> 0 .. 2]
    /\ refs \in [Sessions -> SUBSET Objects] /\ disposed \subseteq Objects
    /\ pc \in [Conns -> {"idle", "accepted", "open", "closing", "closed"}]
    /\ sess \in [Conns -> Sessions \cup {NoSession}]
    /\ toClose \subseteq Conns /\ awaited \subseteq Conns /\ raced \subseteq Sessions
    /\ server \in {"up", "closing", "shutdown", "down"}

\* No entry names a connection whose Close has finished, in whatever order the closing
\* of the old connection and the storing of the new one happen: a later reconnect or
\* DELETE would close the dead one in place of the live one.
ClosedForgotten ==
    \A c \in Conns : pc[c] = "closed" => \A s \in Sessions : conn[s] # c

\* The late Close of a replaced connection never detaches its successor: an entry loses
\* its connection only to a goroutine that closes it, or by that connection's own Close.
SuccessorKept ==
    [][\A s \in Sessions : conn[s] # NoConn /\ conn'[s] = NoConn =>
          conn[s] \in toClose' \/ pc'[conn[s]] = "closed"]_vars

\* The connections of one session that nobody is closing.
Serving(s) == {c \in Conns : sess[c] = s /\ pc[c] = "open" /\ c \notin toClose}

\* As long as the reconnects of a session do not overlap, it has one connection at most.
OneWhenSequential == \A s \in Sessions \ raced : Cardinality(Serving(s)) <= 1

\* Every connection that a reconnect, a DELETE, an expiry or the server's Close has
\* detached ends, and when no other client is connected so does the server's Close.
DetachedEnd ==
    /\ \A c \in Conns : c \in toClose ~> pc[c] = "closed"
    /\ server # "up" ~> \/ server = "down"
                        \/ \E c \in Conns : pc[c] = "open" /\ c \notin toClose

\* What the comment at http2_server.go:35 says and the code does not keep: only one
\* connection per session is allowed.
OneConnection == \A s \in Sessions : Cardinality(Serving(s)) <= 1

=============================================================================
