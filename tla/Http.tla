-------------------------------- MODULE Http --------------------------------
(***************************************************************************)
(* One HTTPClient, used by several goroutines, and the HTTPHandler it      *)
(* talks to: what becomes of its sessions, references and operations.      *)
(***************************************************************************)
EXTENDS HttpClient

Serve ==
    /\ \/ \E x \in Exchanges : ServeHTTP(x)
       \/ \E s \in Ids : CleanupExpiredSessions(s)
       \/ CloseHandler
       \/ Tick
    /\ UNCHANGED clientVars

Next == Serve \/ GetSession \/ \E o \in Ops : Operate(o)

Spec == Init /\ [][Next]_vars

\* The cleanup has a ticker of its own and time passes; the rest need not happen.
Fairness ==
    /\ WF_vars(Tick /\ UNCHANGED clientVars)
    /\ \A s \in Ids : WF_vars(CleanupExpiredSessions(s) /\ UNCHANGED clientVars)

-----------------------------------------------------------------------------
(* Properties.                                                              *)

\* Every variable stays in its type.
TypeOK ==
    /\ plan \in [Ops -> Plans] /\ ran \in [Ops -> Nat]
    /\ exchange \in [Exchanges -> HttpExchanges]
    /\ created \in 0 .. MaxSessions
    /\ sessions \cup ended \subseteq 1 .. created /\ sessions \cap ended = {}
    /\ interrupted \subseteq ended
    /\ age \in [Ids -> 0 .. 2]
    /\ refs \in [Ids -> SUBSET Exchanges] /\ disposed \subseteq Exchanges
    /\ session \in 0 .. created /\ contentType \in Formats
    /\ pc \in [Ops -> {"new", "send", "wait", "listen", "body", "done"}]
    /\ outcome \in [Ops -> {"none", "ok", "missing", "failed", "accepted"}]
    /\ attempt \in [Ops -> 1 .. Attempts] /\ formats \in [Ops -> Formats]

\* A response that carries a reference comes with the id of a session under which the
\* server finds the object, until the object is disposed of or the session ended:
\* nothing else that happens between the lookup of the session and the response, other
\* requests and retries included, makes the reference dangle.
HandedOutIsFound ==
    \A x \in Exchanges :
        Method(x) = "make" /\ plan[x[1]].form # "notify" /\ exchange[x].stage = "replied" =>
            LET s == exchange[x].told IN
            /\ s # NoId
            /\ s \in ended \/ x \in disposed \/ (s \in sessions /\ x \in refs[s])

\* A request on an object that a response has handed out is told that there is none only
\* if it was disposed of or its session ended; or the client had another session by then:
\* a third operation had been given one, as happens when two requests without a session
\* are under way at once, or DeleteSession, whose answer drops the session the client has
\* when it comes, had asked for the end of another.  Not because of retries, of a session
\* the client made up, or of the requests on the object themselves.
Displaced(o, s) ==
    \E x \in Exchanges : x[1] \notin {o, plan[o].on} /\ exchange[x].told \notin {NoId, s}

Dropped(s) ==
    \E x \in Exchanges :
        Method(x) = "delete" /\ exchange[x].stage = "replied" /\ exchange[x].asks # s

MissingOnlyIfGone ==
    \A o \in Ops : outcome[o] = "missing" =>
        LET x == Reply(o).object
            s == exchange[x].told
        IN x \in Exchanges /\ Method(x) = "make" =>
             x \in disposed \/ s \in ended \/ Displaced(o, s) \/ Dropped(s)

\* An object the server holds can be disposed of: its session is in the table or its
\* request is not over.  Excepted are a session that was ended while a request was using
\* it, and a new session whose batch could not be encoded.
LeaksOnlyIfInterrupted ==
    \A x \in Exchanges : \A s \in Ids : x \in refs[s] =>
        \/ s \in sessions \/ InProgress(x)
        \/ s \in interrupted
        \/ exchange[x].stage = "failed" /\ ~Single(x)

\* A client that makes one operation at a time, with nothing lost, has one session on the
\* server at most: also if it made up an id at first, or deleted its session.
OneSessionWhenSequential ==
    ~overlapped /\ troubles = 0 => Cardinality(sessions) <= 1

\* What RemoteCalls promises: an operation is run at most once per format the client
\* tries, and reported to have succeeded only if it has run.  DELETE is no operation.
Promise == INSTANCE RemoteCalls WITH
    asked <- {o \in Ops : plan[o].method # "delete" /\ pc[o] # "new"},
    verdict <- [o \in Ops |->
        IF plan[o].method = "delete" \/ outcome[o] \in {"none", "accepted"} THEN "none"
        ELSE IF outcome[o] = "ok" THEN "succeeded" ELSE "failed"]

ImplementsRemoteCalls == Promise!Spec

\* Every session the server keeps ends, with or without references, deleted or left by
\* its client, unless the handler is closed.
SessionsEnd == \A s \in Ids : s \in sessions ~> (s \in ended \/ cleanup = "stopped")

\* What the comment at http_client.go:260 says and the code does not keep: another
\* format is tried if the server rejects one, so no operation runs again.
RunsOnce == \A o \in Ops : ran[o] <= 1
=============================================================================
