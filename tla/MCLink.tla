------------------------------- MODULE MCLink -------------------------------
(***************************************************************************)
(* Bounds for TLC: which operations live together in one behaviour.        *)
(***************************************************************************)
EXTENDS Links

CONSTANTS First, Second, Third

Is(o, e, k, p) == plan[o] = [end |-> e, kind |-> k, parent |-> p]
Idle(o) == Is(o, "client", "none", NoOp)

\* A call of the client whose handler calls back.
Nested == /\ Is(First, "client", "call", NoOp) /\ Is(Second, "server", "call", First)
          /\ Idle(Third)

\* Messages that cross: the server's is not made in a handler of the other.
Crossing == /\ Is(First, "client", "notify", NoOp) /\ Is(Second, "server", "notify", NoOp)
            /\ Idle(Third)

\* A batch of either end: the client's on its own; the server's made by the handler of
\* a notification, with a callback to the server in the end.
Alone == Is(First, "client", "batch", NoOp) /\ Idle(Second) /\ Idle(Third)
Chain == /\ Is(First, "client", "notify", NoOp)
         /\ Is(Second, "server", "batch", First)
         /\ Is(Third, "client", "notify", Second)

LinkInit == Init /\ (Nested \/ Crossing \/ Alone \/ Chain)
LinkSpec == LinkInit /\ [][Next]_vars

\* Liveness is checked where the two ends wait for each other.
LinkLiveInit == Init /\ Nested
LinkLiveSpec == LinkLiveInit /\ [][Next]_vars /\ Fairness
=============================================================================
