----------------------------- MODULE HttpServer -----------------------------
(***************************************************************************)
(* HTTPHandler, the server of JSON-RPC over plain HTTP:                    *)
(* src/go/jsonrpc3/http_server.go.  Each request is served by a goroutine  *)
(* of net/http and may name a session in the header RPC-Session-Id; its    *)
(* session is looked up first and, if it is new, stored last, so DELETE    *)
(* and the cleanup of expired sessions can end it in between.              *)
(*                                                                         *)
(* An exchange is one HTTP request and its response: an attempt of an      *)
(* operation of the client.  An object is named by the exchange that       *)
(* registered it.  Time is the age of a session since its last request:    *)
(* 0, more than StatelessSessionTTL (1), more than sessionTTL (2).         *)
(* Bodies that cannot be decoded are left out: the client makes none.      *)
(* An operator named XFault is a plausible bug in X, used by no            *)
(* specification: it shows that the properties tell it from X.             *)
(***************************************************************************)
EXTENDS Naturals, FiniteSets

CONSTANTS
    Ops,         \* the operations of the client
    NoOp,
    Attempts,    \* the formats a client tries: supportedFormats
    MaxTroubles, \* most failures in a behaviour
    MaxSessions  \* most sessions created in it

ASSUME HttpOpsAssumption == NoOp \notin Ops
ASSUME HttpBoundsAssumption ==
    Attempts \in Nat \ {0} /\ MaxTroubles \in Nat /\ MaxSessions \in Nat

VARIABLES
    plan, quota,       \* never change: what each operation asks for, what may go wrong
    exchange,          \* the HTTP requests and what has become of them
    created,           \* how many sessions have an id; ids are 1, 2, ...
    sessions, age,     \* the table, and lastAccessed of its entries
    refs, disposed,    \* the references of each session; the objects disposed of
    ended, interrupted,\* ghost: the sessions removed; those that a request was using
    cleanup,           \* cleanupLoop
    ran,               \* how often each operation has been executed (ghost)
    troubles           \* how much has gone wrong (bounds the runs)

fixed      == <<plan, quota>>
tableVars  == <<sessions, age, ended, interrupted>>
objectVars == <<refs, disposed>>
serverVars == <<exchange, created, tableVars, objectVars, cleanup, ran, troubles>>

Ids       == 1 .. MaxSessions
NoId      == 0
Exchanges == Ops \X (1 .. Attempts)

\* method dispose is $rpc's, none is no operation at all; clientRef is a reference to a callback in the parameters;
\* on is the operation whose object is used or disposed of.
Plans == [method : {"plain", "make", "use", "dispose", "delete", "none"},
          form : {"call", "notify", "batch"}, clientRef : BOOLEAN, on : Ops \cup {NoOp}]

Stages  == {"none", "sent", "held", "streaming", "ran", "replied", "failed", "rejected", "lost"}
Results == {"none", "ok", "missing"}
HttpExchanges == [stage : Stages, format : {"cbor", "json"}, asks : Ids \cup {NoId},
                  object : Exchanges \cup {<<>>}, session : Ids \cup {NoId},
                  existing : BOOLEAN, told : Ids \cup {NoId}, result : Results]
NoExchange == [stage |-> "none", format |-> "json", asks |-> NoId, object |-> <<>>,
               session |-> NoId, existing |-> FALSE, told |-> NoId, result |-> "none"]

ServerInit ==
    /\ quota \in 0 .. MaxTroubles
    /\ exchange = [x \in Exchanges |-> NoExchange]
    /\ created = 0 /\ sessions = {}
    /\ age = [s \in Ids |-> 0]
    /\ refs = [s \in Ids |-> {}] /\ disposed = {}
    /\ ended = {} /\ interrupted = {}
    /\ cleanup = "running"
    /\ ran = [o \in Ops |-> 0]
    /\ troubles = 0

Trouble == troubles < quota /\ troubles' = troubles + 1

Method(x) == plan[x[1]].method
Single(x) == plan[x[1]].form # "batch"
Protocol(x) == Single(x) /\ Method(x) = "dispose"

\* SSE mode is for single requests that name a client's object, as far as the scan for
\* it, which reads JSON, can tell.
Streamed(x) == Single(x) /\ plan[x[1]].clientRef /\ exchange[x].format = "json"

\* Requests whose session is in use.
InProgress(x) == exchange[x].stage \in {"held", "streaming", "ran"}

-----------------------------------------------------------------------------
(* One request.                                                             *)

\* getOrCreateSession: the entry found is touched; a new session is not stored yet.
ResumedFault(x) == exchange[x].asks \in {s \in sessions : age[s] = 0}
Resumed(x) == exchange[x].asks \in sessions

GetOrCreateSession(x) ==
    /\ exchange[x].stage = "sent" /\ Method(x) # "delete"
    /\ IF Resumed(x)
         THEN /\ age' = [age EXCEPT ![exchange[x].asks] = 0]
              /\ exchange' = [exchange EXCEPT ![x].stage = "held", ![x].existing = TRUE,
                                              ![x].session = exchange[x].asks]
              /\ UNCHANGED created
         ELSE /\ created < MaxSessions
              /\ created' = created + 1
              /\ exchange' = [exchange EXCEPT ![x].stage = "held", ![x].session = created + 1]
              /\ UNCHANGED age
    /\ UNCHANGED <<fixed, sessions, ended, interrupted, objectVars, cleanup, ran, troubles>>

\* storeSession.
Store(s) == sessions' = sessions \cup {s} /\ age' = [age EXCEPT ![s] = 0]

\* handleSSERequest, up to the header: the session is stored before the request runs.
OpenStream(x) ==
    /\ exchange[x].stage = "held" /\ Streamed(x)
    /\ IF exchange[x].existing THEN UNCHANGED <<sessions, age>> ELSE Store(exchange[x].session)
    /\ exchange' = [exchange EXCEPT ![x].stage = "streaming", ![x].told = exchange[x].session]
    /\ UNCHANGED <<fixed, created, ended, interrupted, objectVars, cleanup, ran, troubles>>

\* HandleRequest or HandleBatch, as far as the references of the session go.
Reaches(x) == exchange[x].object \in refs[exchange[x].session]

Done(x, result) == exchange' = [exchange EXCEPT ![x].stage = "ran", ![x].result = result]
Executed(x) == Done(x, "ok") /\ ran' = [ran EXCEPT ![x[1]] = @ + 1]

Handle(x) ==
    /\ exchange[x].stage = (IF Streamed(x) THEN "streaming" ELSE "held")
    /\ \/ /\ Method(x) = "plain"
          /\ Executed(x) /\ UNCHANGED objectVars
       \/ /\ Method(x) = "make"
          /\ Executed(x)
          /\ refs' = [refs EXCEPT ![exchange[x].session] = @ \cup {x}]
          /\ UNCHANGED disposed
       \/ /\ Method(x) = "use" /\ Reaches(x)
          /\ Executed(x) /\ UNCHANGED objectVars
       \/ /\ Method(x) = "dispose" /\ Reaches(x)
          /\ Executed(x)
          /\ refs' = [refs EXCEPT ![exchange[x].session] = @ \ {exchange[x].object}]
          /\ disposed' = disposed \cup {exchange[x].object}
       \/ /\ Method(x) \in {"use", "dispose"} /\ ~Reaches(x)
          /\ Done(x, "missing") /\ UNCHANGED <<ran, objectVars>>
    /\ UNCHANGED <<fixed, created, tableVars, cleanup, troubles>>

\* Whether the session is kept, and its id sent: asked after the request has run.
KeepFault(x) == exchange[x].existing \/ Protocol(x)
Keep(x) == exchange[x].existing \/ Protocol(x) \/ refs[exchange[x].session] # {}

\* The end of ServeHTTP, and of handleSSERequest, whose header was sent before.
Respond(x) ==
    /\ exchange[x].stage = "ran"
    /\ IF Streamed(x) \/ exchange[x].existing \/ ~Keep(x)
         THEN UNCHANGED <<sessions, age>> ELSE Store(exchange[x].session)
    /\ exchange' = [exchange EXCEPT ![x].stage = "replied",
                      ![x].told = IF Streamed(x) \/ Keep(x) THEN exchange[x].session ELSE NoId]
    /\ UNCHANGED <<fixed, created, ended, interrupted, objectVars, cleanup, ran, troubles>>

\* The response cannot be encoded: HTTP 500, or the end of the stream.  A batch is
\* encoded before its session is stored, a single response after.
EncodeFails(x) ==
    /\ Trouble
    /\ exchange[x].stage = "ran" /\ plan[x[1]].form # "notify"
    /\ IF Streamed(x) \/ exchange[x].existing \/ ~Single(x) \/ ~Keep(x)
         THEN UNCHANGED <<sessions, age>> ELSE Store(exchange[x].session)
    /\ exchange' = [exchange EXCEPT ![x].stage = "failed",
                      ![x].told = IF Streamed(x) \/ (Single(x) /\ Keep(x))
                                    THEN exchange[x].session ELSE NoId]
    /\ UNCHANGED <<fixed, created, ended, interrupted, objectVars, cleanup, ran>>

-----------------------------------------------------------------------------
(* The end of sessions.                                                     *)

\* DisposeAll and delete, under the lock of the table.
RemoveFault(s) ==
    /\ sessions' = sessions \ {s}
    /\ ended' = ended \cup {s}
    /\ interrupted' = IF \E x \in Exchanges : InProgress(x) /\ exchange[x].session = s
                        THEN interrupted \cup {s} ELSE interrupted
    /\ UNCHANGED objectVars
Remove(s) ==
    /\ sessions' = sessions \ {s}
    /\ disposed' = disposed \cup refs[s]
    /\ refs' = [refs EXCEPT ![s] = {}]
    /\ ended' = ended \cup {s}
    /\ interrupted' = IF \E x \in Exchanges : InProgress(x) /\ exchange[x].session = s
                        THEN interrupted \cup {s} ELSE interrupted

\* ServeHTTP for DELETE: 204 whether or not there is such a session.
ServeDelete(x) ==
    /\ exchange[x].stage = "sent" /\ Method(x) = "delete"
    /\ IF Resumed(x) THEN Remove(exchange[x].asks)
                     ELSE UNCHANGED <<sessions, ended, interrupted, objectVars>>
    /\ exchange' = [exchange EXCEPT ![x].stage = "replied", ![x].result = "ok"]
    /\ UNCHANGED <<fixed, created, age, cleanup, ran, troubles>>

\* cleanupExpiredSessions.  Age counts from the last request that named the session: a
\* request that takes long does not keep it.
ExpiredFault(s) == age[s] > 0 /\ refs[s] = {}
Expired(s) == age[s] > (IF refs[s] = {} THEN 0 ELSE 1)

CleanupExpiredSessions(s) ==
    /\ s \in sessions /\ cleanup = "running" /\ Expired(s)
    /\ Remove(s)
    /\ UNCHANGED <<fixed, exchange, created, age, cleanup, ran, troubles>>

\* Time passes.
Tick ==
    /\ \E s \in sessions : age[s] < 2
    /\ age' = [s \in Ids |-> IF s \in sessions /\ age[s] < 2 THEN age[s] + 1 ELSE age[s]]
    /\ UNCHANGED <<fixed, exchange, created, sessions, ended, interrupted, objectVars,
                   cleanup, ran, troubles>>

\* Close stops the cleanup and nothing else: sessions and their objects stay.
CloseHandler ==
    /\ Trouble
    /\ cleanup = "running" /\ cleanup' = "stopped"
    /\ UNCHANGED <<fixed, exchange, created, tableVars, objectVars, ran>>

ServeHTTP(x) ==
    \/ GetOrCreateSession(x) \/ OpenStream(x) \/ Handle(x)
    \/ Respond(x) \/ EncodeFails(x) \/ ServeDelete(x)
=============================================================================
