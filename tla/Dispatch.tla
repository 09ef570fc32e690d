------------------------------ MODULE Dispatch ------------------------------
(***************************************************************************)
(* How incoming batches are dispatched over one session:                   *)
(* src/go/jsonrpc3/handler.go, session.go, protocol.go and refwalk.go.     *)
(* A peer starts a goroutine (Workers) for each incoming message; each     *)
(* runs HandleBatch over its entries in order, and all of them share the   *)
(* session's table of local references.  A single request is a batch of    *)
(* one.                                                                    *)
(*                                                                         *)
(* References are the numbers that GenerateRefID counts out.  An object is *)
(* named by the first reference it is given, the root object by 0.  An     *)
(* entry says what its method will do:                                     *)
(*   value, fail     return a plain value, or an error                     *)
(*   make, self      return a new object, or the object it is called on    *)
(*   garble          return a new object in a value that cannot be encoded *)
(*   dispose, dispose_all, introspect    methods of $rpc                   *)
(*   empty           the method name is missing                            *)
(* An operator named XFault is a plausible bug in X.  It is used by no     *)
(* specification: it shows that the properties tell it from X.             *)
(***************************************************************************)
EXTENDS Naturals, Sequences, FiniteSets

CONSTANTS
    Workers,    \* goroutines that serve one incoming message each
    Batches     \* the batches each of them may be given

Does  == {"value", "fail", "make", "self", "garble", "empty",
          "dispose", "dispose_all", "introspect"}
Entry == [id : BOOLEAN,                             \* FALSE for a notification
          to : {"root", "rpc", "ref", "local"},     \* the field ref of the request
          arg : Nat,                                \* a reference, or N of a local \N
          does : Does]

ASSUME BatchesAssumption == Batches \in [Workers -> SUBSET Seq(Entry)]

VARIABLES
    batch, format, pos, pc,     \* the batch of each worker and where it is in it
    name, held, out,            \* a reference, an object, the responses so far
    ran,                        \* ghost: the objects its methods ran on, by entry
    localRefs, refCounter,      \* Session
    disposed, twice             \* ghosts: the references disposed of, once and again

workerVars  == <<batch, format, pos, pc, name, held, out, ran>>
sessionVars == <<localRefs, refCounter, disposed, twice>>
vars == <<workerVars, sessionVars>>

Root == 0

Init ==
    /\ batch = [w \in Workers |-> <<>>]
    /\ format \in [Workers -> {"json", "cbor"}]
    /\ pos = [w \in Workers |-> 1]
    /\ pc = [w \in Workers |-> "idle"]
    /\ name = [w \in Workers |-> 0]
    /\ held = [w \in Workers |-> Root]
    /\ out = [w \in Workers |-> <<>>]
    /\ ran = [w \in Workers |-> {}]
    /\ localRefs = <<>>
    /\ refCounter = 0
    /\ disposed = {} /\ twice = {}

-----------------------------------------------------------------------------
(* The session.                                                             *)

Live == DOMAIN localRefs

\* GenerateRefID.
NextRefFault == Cardinality(Live) + 1
NextRef == refCounter + 1

\* AddLocalRef replaces whatever the reference denoted.
AddLocalRef(r, o) ==
    localRefs' = [x \in Live \cup {r} |-> IF x = r THEN o ELSE localRefs[x]]

\* RemoveLocalRef and DisposeAll call Dispose or Close on the objects and forget them,
\* all under the lock of the session.
RemoveRefsFault(S) ==
    /\ UNCHANGED localRefs
    /\ disposed' = disposed \cup S
    /\ twice' = twice \cup (disposed \cap S)
RemoveRefs(S) ==
    /\ localRefs' = [x \in Live \ S |-> localRefs[x]]
    /\ disposed' = disposed \cup S
    /\ twice' = twice \cup (disposed \cap S)

-----------------------------------------------------------------------------
(* HandleBatch.                                                             *)

Cur(w) == batch[w][pos[w]]

\* The end of an iteration: resps, at most one response, is appended.
AdvanceFault(w, resps) ==
    /\ out' = [out EXCEPT ![w] = @ \o resps]
    /\ pos' = [pos EXCEPT ![w] = @ + 1]
    /\ pc' = [pc EXCEPT ![w] = IF pos[w] > Len(batch[w]) THEN "done" ELSE "next"]
Advance(w, resps) ==
    /\ out' = [out EXCEPT ![w] = @ \o resps]
    /\ pos' = [pos EXCEPT ![w] = @ + 1]
    /\ pc' = [pc EXCEPT ![w] = IF pos[w] = Len(batch[w]) THEN "done" ELSE "next"]

Response(w, val, ref, obj) ==
    [entry |-> pos[w], id |-> Cur(w).id, val |-> val, ref |-> ref, obj |-> obj]

\* errorResponse: also for a notification, then with a null id.
ErrorsFault(w) == IF pos[w] = 1 THEN <<Response(w, "error", 0, Root)>> ELSE <<>>
Errors(w) == <<Response(w, "error", 0, Root)>>

\* A success has a response only if the request has an id.
Success(w) == IF Cur(w).id THEN <<Response(w, "value", 0, Root)>> ELSE <<>>

\* A message arrives for the goroutine.
Arrive(w) ==
    /\ pc[w] = "idle"
    /\ \E b \in Batches[w] : batch' = [batch EXCEPT ![w] = b]
    /\ pc' = [pc EXCEPT ![w] = "next"]
    /\ UNCHANGED <<format, pos, name, held, out, ran, sessionVars>>

\* An empty batch has one error as its answer.
EmptyBatch(w) ==
    /\ pc[w] = "next" /\ batch[w] = <<>>
    /\ out' = [out EXCEPT ![w] =
                 <<[entry |-> 0, id |-> FALSE, val |-> "error", ref |-> 0, obj |-> Root]>>]
    /\ pc' = [pc EXCEPT ![w] = "done"]
    /\ UNCHANGED <<batch, format, pos, name, held, ran, sessionVars>>

\* resolveBatchLocalRef: \k is looked up by its index in the responses so far, which
\* have none for the notifications that succeeded.
NamedFault(w, k) == out[w][Len(out[w])]
Named(w, k) == out[w][k + 1]

\* The result is parsed as JSON, whatever its encoding is.
Resolvable(w, k) ==
    /\ k < pos[w] - 1 /\ k < Len(out[w])
    /\ Named(w, k).val = "ref" /\ format[w] = "json"

\* A batch-local reference is replaced, or the entry fails here.
ResolveLocal(w) ==
    /\ pc[w] = "next" /\ batch[w] # <<>> /\ Cur(w).to = "local"
    /\ LET k == Cur(w).arg IN
         IF Resolvable(w, k)
           THEN /\ name' = [name EXCEPT ![w] = Named(w, k).ref]
                /\ pc' = [pc EXCEPT ![w] = "handle"]
                /\ UNCHANGED <<pos, out>>
           ELSE Advance(w, Errors(w)) /\ UNCHANGED name
    /\ UNCHANGED <<batch, format, held, ran, sessionVars>>

-----------------------------------------------------------------------------
(* HandleRequest.                                                           *)

Handling(w) ==
    \/ pc[w] = "handle"
    \/ pc[w] = "next" /\ batch[w] # <<>> /\ Cur(w).to # "local"

Target(w) == IF pc[w] = "handle" THEN name[w] ELSE Cur(w).arg

\* The method is required.
MissingMethod(w) ==
    /\ Handling(w) /\ Cur(w).does = "empty"
    /\ Advance(w, Errors(w))
    /\ UNCHANGED <<batch, format, name, held, ran, sessionVars>>

\* handleRefMethod: GetLocalRef under the read lock; the method runs after it.
LookUp(w) ==
    /\ Handling(w) /\ Cur(w).does # "empty" /\ Cur(w).to \in {"ref", "local"}
    /\ IF Target(w) \in Live
         THEN /\ held' = [held EXCEPT ![w] = localRefs[Target(w)]]
              /\ pc' = [pc EXCEPT ![w] = "call"]
              /\ UNCHANGED <<pos, out>>
         ELSE Advance(w, Errors(w)) /\ UNCHANGED held
    /\ UNCHANGED <<batch, format, name, ran, sessionVars>>

\* handleMethod.
CallRoot(w) ==
    /\ Handling(w) /\ Cur(w).does # "empty" /\ Cur(w).to = "root"
    /\ held' = [held EXCEPT ![w] = Root]
    /\ pc' = [pc EXCEPT ![w] = "call"]
    /\ UNCHANGED <<batch, format, pos, name, out, ran, sessionVars>>

\* The method runs.  Its error is always answered; its result is dropped for a
\* notification, and otherwise walked for objects, which are given a reference.
ReturnsObjectFault(w) == Cur(w).does \in {"make", "garble"}
ReturnsObject(w) == Cur(w).does \in {"make", "self", "garble"}

CallMethod(w) ==
    /\ pc[w] = "call"
    /\ ran' = [ran EXCEPT ![w] = @ \cup {[entry |-> pos[w], obj |-> held[w]]}]
    /\ IF Cur(w).id /\ ReturnsObject(w)
         THEN /\ refCounter' = NextRef
              /\ name' = [name EXCEPT ![w] = NextRef]
              /\ pc' = [pc EXCEPT ![w] = "register"]
              /\ UNCHANGED <<pos, out>>
         ELSE /\ Advance(w, IF Cur(w).does = "fail" THEN Errors(w) ELSE Success(w))
              /\ UNCHANGED <<refCounter, name>>
    /\ UNCHANGED <<batch, format, held, localRefs, disposed, twice>>

\* processResult stores the object and replaces it by its reference.  When the result
\* is found not to encode, the object stays in the session.
Register(w) ==
    /\ pc[w] = "register"
    /\ LET o == IF Cur(w).does = "self" THEN held[w] ELSE name[w] IN
         /\ AddLocalRef(name[w], o)
         /\ Advance(w, IF Cur(w).does = "garble" THEN Errors(w)
                       ELSE <<Response(w, "ref", name[w], o)>>)
    /\ UNCHANGED <<batch, format, name, held, ran, refCounter, disposed, twice>>

-----------------------------------------------------------------------------
(* The methods of $rpc.                                                     *)

\* handleDispose.
Dispose(w) ==
    /\ Handling(w) /\ Cur(w).to = "rpc" /\ Cur(w).does = "dispose"
    /\ IF Cur(w).arg \in Live
         THEN RemoveRefs({Cur(w).arg}) /\ Advance(w, Success(w))
         ELSE Advance(w, Errors(w)) /\ UNCHANGED <<localRefs, disposed, twice>>
    /\ UNCHANGED <<batch, format, name, held, ran, refCounter>>

\* handleDisposeAll.
DisposeAll(w) ==
    /\ Handling(w) /\ Cur(w).to = "rpc" /\ Cur(w).does = "dispose_all"
    /\ RemoveRefs(Live)
    /\ Advance(w, Success(w))
    /\ UNCHANGED <<batch, format, name, held, ran, refCounter>>

\* session_id, list_refs, ref_info, mimetypes and capabilities change nothing; any
\* other method of $rpc is not found.
Introspect(w) ==
    /\ Handling(w) /\ Cur(w).to = "rpc"
    /\ Cur(w).does \notin {"empty", "dispose", "dispose_all"}
    /\ Advance(w, IF Cur(w).does = "introspect" THEN Success(w) ELSE Errors(w))
    /\ UNCHANGED <<batch, format, name, held, ran, sessionVars>>

Step(w) ==
    \/ EmptyBatch(w) \/ ResolveLocal(w) \/ MissingMethod(w) \/ LookUp(w) \/ CallRoot(w)
    \/ CallMethod(w) \/ Register(w) \/ Dispose(w) \/ DisposeAll(w) \/ Introspect(w)

Next == \E w \in Workers : Arrive(w) \/ Step(w)

Spec == Init /\ [][Next]_vars

=============================================================================
