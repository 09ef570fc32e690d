----------------------------- MODULE HttpClient -----------------------------
(***************************************************************************)
(* HTTPClient and its conversation with HTTPHandler:                       *)
(* src/go/jsonrpc3/http_client.go.  Call, Notify and CallBatch send their  *)
(* request once per format until one attempt gets a response; each reads   *)
(* the client's session when it sends and adopts the one it is told when   *)
(* the header of the response arrives, also while others are under way.    *)
(***************************************************************************)
EXTENDS HttpServer

VARIABLES
    session,        \* the id of c.session, or none
    contentType,    \* the format tried first
    pc, outcome,    \* each operation
    attempt, formats,
    overlapped      \* ghost: two operations have been under way at once

clientVars == <<session, contentType, pc, outcome, attempt, formats, overlapped>>
vars == <<fixed, serverVars, clientVars>>

Formats == {"cbor", "json"}
OtherFormat(f) == CHOOSE g \in Formats : g # f

ClientInit ==
    /\ session = NoId
    /\ contentType \in Formats
    /\ pc = [o \in Ops |-> "new"]
    /\ outcome = [o \in Ops |-> "none"]
    /\ attempt = [o \in Ops |-> 1]
    /\ formats = [o \in Ops |-> "json"]
    /\ overlapped = FALSE

Init == plan \in [Ops -> Plans] /\ ServerInit /\ ClientInit

Last(o) == <<o, attempt[o]>>
Reply(o) == exchange[Last(o)]
UnderWay(o) == pc[o] \in {"send", "wait", "body", "listen"}

frame  == <<fixed, created, tableVars, objectVars, cleanup, ran>>
opRest == <<formats, overlapped>>

\* An operation on an object is made once its reference has been returned.
Given(o) == plan[o].on # NoOp => outcome[plan[o].on] = "ok"

Return(o, r) ==
    /\ pc' = [pc EXCEPT ![o] = "done"]
    /\ outcome' = [outcome EXCEPT ![o] = r]

-----------------------------------------------------------------------------
(* The session of the client.                                               *)

\* SetSessionID as doRequest uses it: a response without the header changes nothing.
AdoptFault(s) == session' = IF s = NoId \/ session # NoId THEN session ELSE s
Adopt(s) == session' = IF s = NoId THEN session ELSE s

\* GetSession, for RegisterCallback: the client makes up a session, and an id the
\* server has not heard of.
GetSession ==
    /\ session = NoId /\ created < MaxSessions
    /\ \E o \in Ops : plan[o].clientRef /\ pc[o] = "new"
    /\ created' = created + 1 /\ session' = created + 1
    /\ UNCHANGED <<fixed, exchange, tableVars, objectVars, cleanup, ran, troubles,
                   contentType, pc, outcome, attempt, formats, overlapped>>

\* DeleteSession, which returns at once when there is no session to delete.
DeleteSession(o) ==
    /\ pc[o] = "new" /\ plan[o].method = "delete"
    /\ IF session = NoId
         THEN Return(o, "ok") /\ UNCHANGED exchange
         ELSE /\ exchange' = [exchange EXCEPT ![Last(o)].stage = "sent",
                                              ![Last(o)].asks = session]
              /\ pc' = [pc EXCEPT ![o] = "wait"]
              /\ UNCHANGED outcome
    /\ overlapped' = (overlapped \/ \E q \in Ops : UnderWay(q))
    /\ UNCHANGED <<frame, troubles, session, contentType, attempt, formats>>

\* On 204 the session the client has by then is dropped.
Deleted(o) ==
    /\ pc[o] = "wait" /\ plan[o].method = "delete" /\ Reply(o).stage = "replied"
    /\ session' = NoId
    /\ Return(o, "ok")
    /\ UNCHANGED <<frame, exchange, troubles, contentType, attempt, opRest>>

-----------------------------------------------------------------------------
(* Call, Notify and CallBatch.                                              *)

\* The list of formats starts with the one preferred now.
Start(o) ==
    /\ pc[o] = "new" /\ plan[o].method \notin {"delete", "none"} /\ Given(o)
    /\ formats' = [formats EXCEPT ![o] = contentType]
    /\ pc' = [pc EXCEPT ![o] = "send"]
    /\ overlapped' = (overlapped \/ \E q \in Ops : UnderWay(q))
    /\ UNCHANGED <<frame, exchange, troubles, session, contentType, outcome, attempt>>

\* doRequest.
Send(o) ==
    /\ pc[o] = "send"
    /\ exchange' = [exchange EXCEPT ![Last(o)] =
         [NoExchange EXCEPT !.stage = "sent", !.asks = session,
            !.format = IF attempt[o] = 1 THEN formats[o] ELSE OtherFormat(formats[o]),
            !.object = IF plan[o].on = NoOp THEN <<>> ELSE Last(plan[o].on)]]
    /\ pc' = [pc EXCEPT ![o] = "wait"]
    /\ UNCHANGED <<frame, troubles, session, contentType, outcome, attempt, opRest>>

\* continue: the next format, while there is one.
TryNextFault(o) ==
    /\ attempt' = [attempt EXCEPT ![o] = @ + 1]
    /\ pc' = [pc EXCEPT ![o] = "send"]
    /\ UNCHANGED outcome
TryNext(o) ==
    IF plan[o].method # "delete" /\ attempt[o] < Attempts
      THEN /\ attempt' = [attempt EXCEPT ![o] = @ + 1]
           /\ pc' = [pc EXCEPT ![o] = "send"]
           /\ UNCHANGED outcome
      ELSE Return(o, "failed") /\ UNCHANGED attempt

\* Do fails.  The request may have been lost, or be served all the same.
DoFails(o) ==
    /\ Trouble
    /\ pc[o] = "wait"
    /\ \/ Reply(o).stage = "sent" /\ exchange' = [exchange EXCEPT ![Last(o)].stage = "lost"]
       \/ UNCHANGED exchange
    /\ TryNext(o)
    /\ UNCHANGED <<frame, session, contentType, opRest>>

\* 415 or 406, from a server or a proxy that does not take the format; this server
\* takes every one.
Rejected(o) ==
    /\ Trouble
    /\ pc[o] = "wait" /\ Reply(o).stage = "sent"
    /\ exchange' = [exchange EXCEPT ![Last(o)].stage = "rejected"]
    /\ TryNext(o)
    /\ UNCHANGED <<frame, session, contentType, opRest>>

\* The header of the response arrives: before the request has run when it is streamed.
HasHeader(x) ==
    \/ exchange[x].stage \in {"replied", "failed"}
    \/ Streamed(x) /\ exchange[x].stage \in {"streaming", "ran"}

Header(o) ==
    /\ pc[o] = "wait" /\ plan[o].method # "delete" /\ plan[o].form # "notify"
    /\ HasHeader(Last(o))
    /\ Adopt(Reply(o).told)
    /\ pc' = [pc EXCEPT ![o] = IF Streamed(Last(o)) THEN "listen" ELSE "body"]
    /\ UNCHANGED <<frame, exchange, troubles, contentType, outcome, attempt, opRest>>

\* Notify is content with the header, whatever the body says, and closes the body.
Notified(o) ==
    /\ pc[o] = "wait" /\ plan[o].form = "notify" /\ plan[o].method # "delete"
    /\ HasHeader(Last(o)) /\ Reply(o).stage # "failed"
    /\ Adopt(Reply(o).told)
    /\ contentType' = Reply(o).format
    /\ Return(o, "accepted")
    /\ UNCHANGED <<frame, exchange, troubles, attempt, opRest>>

\* handleSSEResponse sets the session once more.
Listen(o) ==
    /\ pc[o] = "listen"
    /\ Adopt(Reply(o).told)
    /\ pc' = [pc EXCEPT ![o] = "body"]
    /\ UNCHANGED <<frame, exchange, troubles, contentType, outcome, attempt, opRest>>

\* What the operation returns for a response.
ResultFault(o) == "ok"
Result(o) == Reply(o).result

\* The body: a format that worked is preferred from now on, except after a stream.
Body(o) ==
    /\ pc[o] = "body"
    /\ \/ /\ Reply(o).stage = "replied"
          /\ Return(o, Result(o))
          /\ contentType' = IF Streamed(Last(o)) THEN contentType ELSE Reply(o).format
       \/ /\ Reply(o).stage = "failed"
          /\ Return(o, "failed")
          /\ UNCHANGED contentType
    /\ UNCHANGED <<frame, exchange, troubles, session, attempt, opRest>>

\* The connection breaks in the body: an error, and no other attempt.
BodyLost(o) ==
    /\ Trouble
    /\ pc[o] = "body"
    /\ Return(o, "failed")
    /\ UNCHANGED <<frame, exchange, session, contentType, attempt, opRest>>

Operate(o) ==
    \/ Start(o) \/ Send(o) \/ DoFails(o) \/ Rejected(o) \/ Header(o) \/ Notified(o)
    \/ Listen(o) \/ Body(o) \/ BodyLost(o)
    \/ DeleteSession(o) \/ Deleted(o)
=============================================================================
