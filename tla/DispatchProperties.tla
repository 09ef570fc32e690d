------------------------- MODULE DispatchProperties -------------------------
(***************************************************************************)
(* What the dispatching of batches over a shared session must guarantee.   *)
(***************************************************************************)
EXTENDS Dispatch

Outcomes == {"value", "ref", "error"}
Reply == [entry : Nat, id : BOOLEAN, val : Outcomes, ref : Nat, obj : Nat]

\* Every variable stays in its type, and a worker on an entry until its batch is done.
TypeOK ==
    /\ batch \in [Workers -> Seq(Entry)]
    /\ format \in [Workers -> {"json", "cbor"}]
    /\ pos \in [Workers -> Nat \ {0}]
    /\ \A w \in Workers : pc[w] \notin {"idle", "done"} /\ batch[w] # <<>> =>
         pos[w] <= Len(batch[w])
    /\ pc \in [Workers -> {"idle", "next", "handle", "call", "register", "done"}]
    /\ name \in [Workers -> Nat] /\ held \in [Workers -> Nat]
    /\ out \in [Workers -> Seq(Reply)]
    /\ ran \in [Workers -> SUBSET [entry : Nat, obj : Nat]]
    /\ localRefs \in [Live -> Nat] /\ Live \subseteq Nat
    /\ refCounter \in Nat
    /\ disposed \subseteq Nat /\ twice \subseteq Nat

-----------------------------------------------------------------------------
(* Responses.                                                               *)

\* HandleBatch answers every entry with an id exactly once, and answers in the order of
\* the batch, whichever of its paths the entry takes.
EachAnsweredOnce ==
    \A w \in Workers :
        /\ \A j, k \in 1 .. Len(out[w]) : j < k => out[w][j].entry < out[w][k].entry
        /\ {out[w][k].entry : k \in {i \in 1 .. Len(out[w]) : out[w][i].id}} =
             {p \in 1 .. pos[w] - 1 : batch[w][p].id}

\* What SPEC.md 3.6.2 says of entry p, given what its method does and what f says of
\* the entries before it: a batch-local reference to an entry that yields no reference
\* is an error.
Expected(b, f, p) ==
    IF b[p].does \in {"empty", "fail", "garble"} THEN "error"
    ELSE IF b[p].to = "rpc"
      THEN IF b[p].does \in {"dispose", "dispose_all", "introspect"} THEN "value" ELSE "error"
    ELSE IF b[p].to = "local" /\ (b[p].arg >= p - 1 \/ f[b[p].arg + 1] # "ref") THEN "error"
    ELSE IF b[p].does \in {"make", "self"} THEN "ref" ELSE "value"

Specified(b) == LET f[p \in 1 .. Len(b)] == Expected(b, f, p) IN f

\* An entry names something that may be gone by the time it is looked up.
MayBeGone(e) == e.to \in {"ref", "local"} \/ e.does = "dispose"

\* Where the indices of entries and responses agree (no notification) and the
\* encoding is JSON, HandleBatch has the outcomes of the specification: an entry that
\* must fail fails, and one that must not fails only because a reference is gone, its
\* own or that of an entry it depends on.
OutcomesAsSpecified ==
    \A w \in Workers :
        format[w] = "json" /\ (\A p \in 1 .. Len(batch[w]) : batch[w][p].id) =>
            \A r \in {out[w][k] : k \in 1 .. Len(out[w])} :
                r.entry # 0 =>
                    LET e == batch[w][r.entry] IN
                    \/ r.val = Specified(batch[w])[r.entry]
                    \/ r.val = "error" /\ MayBeGone(e)

\* A batch-local \N only ever runs a method on the object that entry N returned.
RunsOnEntry(w, x) ==
    \E k \in 1 .. Len(out[w]) :
        /\ out[w][k].entry = batch[w][x.entry].arg + 1
        /\ out[w][k].val = "ref" /\ out[w][k].obj = x.obj

\* Without notifications before it, \N runs on the object that entry N returned, also
\* while other goroutines register and dispose of references.
LocalRefExact ==
    \A w \in Workers : \A x \in ran[w] :
        batch[w][x.entry].to = "local" /\ (\A p \in 1 .. x.entry : batch[w][p].id) =>
            RunsOnEntry(w, x)

-----------------------------------------------------------------------------
(* References.                                                              *)

\* Concurrent calls of GenerateRefID and AddLocalRef never hand out one reference for
\* two results.
RefsDistinct ==
    \A v, w \in Workers : \A j \in 1 .. Len(out[v]) : \A k \in 1 .. Len(out[w]) :
        out[v][j].val = "ref" /\ out[w][k].val = "ref" /\ out[v][j].ref = out[w][k].ref =>
            v = w /\ j = k

\* Every reference a response has carried is live or has been disposed of, never both,
\* and Dispose has run once for it.
DisposedOnce ==
    /\ twice = {} /\ Live \cap disposed = {}
    /\ \A w \in Workers : \A k \in 1 .. Len(out[w]) :
         out[w][k].val = "ref" => out[w][k].ref \in Live \cup disposed

\* A reference never changes its object, and never comes back once it is disposed of.
NeverRebound ==
    [][/\ \A r \in Live \cap Live' : localRefs'[r] = localRefs[r]
       /\ disposed \cap Live' = {}]_vars

-----------------------------------------------------------------------------
(* What SPEC.md says and the code does not keep (see README.md).            *)

\* A batch-local \N resolves to the result of the request at index N of the batch.
LocalRefIsEntry ==
    \A w \in Workers : \A x \in ran[w] : batch[w][x.entry].to = "local" => RunsOnEntry(w, x)

=============================================================================
