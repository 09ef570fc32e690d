----------------------------- MODULE MCDispatch -----------------------------
(***************************************************************************)
(* Bounds for TLC: one goroutine with batches of up to three entries, and  *)
(* one with a single request that interferes with it.                      *)
(***************************************************************************)
EXTENDS DispatchProperties, TLC

CONSTANTS Long, Short

E(id, to, arg, does) == [id |-> id, to |-> to, arg |-> arg, does |-> does]

Heads == {E(i, "root", 0, d) : i \in BOOLEAN, d \in {"value", "make", "fail", "garble"}}
Locals == {E(i, "local", k, d) : i \in BOOLEAN, k \in 0 .. 1, d \in {"value", "self"}}
Others == {E(TRUE, "root", 0, "empty"), E(FALSE, "local", 0, "empty"),
           E(TRUE, "ref", 1, "self"), E(TRUE, "rpc", 0, "introspect"),
           E(TRUE, "rpc", 0, "make"), E(TRUE, "rpc", 1, "dispose")}

LongBatches ==
    LET Mixed == Heads \cup Locals \cup Others IN
    {<<>>} \cup {<<e>> : e \in Mixed} \cup {<<e, f>> : e, f \in Mixed}
           \cup {<<e, f, g>> : e \in Heads, f \in Heads \cup Locals, g \in Locals}

ShortBatches ==
    {<<E(i, "rpc", 1, d)>> : i \in BOOLEAN, d \in {"dispose", "dispose_all"}}
    \cup {<<E(i, "root", 0, "make")>> : i \in BOOLEAN}
    \cup {<<E(TRUE, "ref", 1, d)>> : d \in {"value", "self"}}

MCBatches == (Long :> LongBatches) @@ (Short :> ShortBatches)

\* Only the format of the long batches matters.
MCInit == Init /\ format[Short] = "json"
JSONInit == MCInit /\ format[Long] = "json"
MCSpec == MCInit /\ [][Next]_vars
JSONSpec == JSONInit /\ [][Next]_vars
=============================================================================
