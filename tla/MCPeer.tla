------------------------------- MODULE MCPeer -------------------------------
(***************************************************************************)
(* Bounds for TLC: which goroutines live together in one behaviour.  Each  *)
(* mix is explored from its own initial states, so that one run covers all *)
(* of them without their product.                                          *)
(***************************************************************************)
EXTENDS PeerProperties, TLC

CONSTANTS FirstOp, FirstMsg

\* At most c calls, b batches, n notifications, r registered objects and h
\* incoming messages (of any kind).
Mix(c, b, n, r, h) ==
    LET Count(k) == Cardinality({o \in Ops : kind[o] = k}) IN
    /\ Count("call") <= c /\ Count("batch") <= b
    /\ Count("notify") <= n /\ Count("register") <= r
    /\ Cardinality({m \in Incoming : hkind[m] # "none"}) <= h

SafetyMixes ==
    \/ Mix(2, 0, 0, 0, 0)
    \/ Mix(1, 0, 0, 0, 1)
    \/ Mix(0, 0, 1, 0, 1)
    \/ Mix(0, 0, 0, 1, 1)
    \/ Mix(0, 0, 0, 0, 2)

\* Goroutines are interchangeable: a mix of one is a mix of the first.  This
\* stands in for symmetry, which is not sound for liveness.
Canonical ==
    /\ (\E o \in Ops : kind[o] # "none") => kind[FirstOp] # "none"
    /\ (\E m \in Incoming : hkind[m] # "none") => hkind[FirstMsg] # "none"

LiveMixes ==
    /\ Canonical
    /\ \A m \in Incoming : hkind[m] \in {"request", "none"}
    /\ Mix(1, 0, 0, 0, 0) \/ Mix(0, 1, 0, 0, 0) \/ Mix(0, 0, 2, 0, 1)

SafetyInit == Init /\ SafetyMixes
LiveInit == Init /\ LiveMixes

SafetySpec == SafetyInit /\ [][Next]_vars
LiveSpec == LiveInit /\ [][Next]_vars /\ Fairness

Symmetry == Permutations(Ops) \cup Permutations(Incoming)
=============================================================================
