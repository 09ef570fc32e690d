------------------------------- MODULE MCHttp -------------------------------
(***************************************************************************)
(* Bounds for TLC: which operations one client makes in one behaviour, and *)
(* how much goes wrong in it.                                              *)
(***************************************************************************)
EXTENDS Http

CONSTANTS First, Second, Third

Plan(m, f, r, on) == [method |-> m, form |-> f, clientRef |-> r, on |-> on]
Idle == Plan("none", "call", FALSE, NoOp)

Are(p, q, r) ==
    plan = [o \in Ops |-> CASE o = First -> p [] o = Second -> q [] o = Third -> r]

\* A server that keeps nothing.
Stateless == Are(Plan("plain", "call", FALSE, NoOp), Idle, Idle)

\* An object is made, used and deleted with its session at the same time.
Used == Are(Plan("make", "call", FALSE, NoOp), Plan("use", "call", FALSE, First),
            Plan("delete", "call", FALSE, NoOp))

\* The same while the client registers a callback first: it asks for the end of the session
\* it made up, and drops the one it was given meanwhile.
Dropping == Are(Plan("make", "call", FALSE, NoOp), Plan("use", "call", TRUE, First),
                Plan("delete", "call", FALSE, NoOp))

\* The first requests of two goroutines: each is given a session of its own.
Racing == Are(Plan("make", "batch", FALSE, NoOp), Plan("make", "call", FALSE, NoOp), Idle)

\* A reference of one is disposed of while the client registers a callback.
Disposing == Are(Plan("make", "call", FALSE, NoOp), Plan("dispose", "call", TRUE, First), Idle)

\* Streamed: a request and a notification that name a callback.
Notifying == Are(Plan("make", "call", TRUE, NoOp), Plan("use", "notify", TRUE, First), Idle)

\* One failure where operations interact, two where every attempt of one may fail.
Mixes ==
    \/ quota = 0 /\ Dropping
    \/ quota = 1 /\ (Used \/ Racing \/ Disposing \/ Notifying)
    \/ quota = 2 /\ Stateless

HttpInit == Mixes /\ Init
HttpSpec == HttpInit /\ [][Next]_vars /\ Fairness
=============================================================================
