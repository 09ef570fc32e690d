---------------------------- MODULE RemoteCalls ----------------------------
(***************************************************************************)
(* What a transport promises of a remote operation: it is asked for once,  *)
(* run by the other end at most once for each attempt to send it, and      *)
(* reported to have succeeded only if it has run.  A failure promises      *)
(* nothing: the operation may have run, be running, or run later.          *)
(***************************************************************************)
EXTENDS Naturals

CONSTANTS
    Ops,
    Attempts  \* how often an operation may be sent; more than once only over HTTP

VARIABLES
    asked,    \* the operations begun
    ran,      \* how often the other end has run each
    verdict   \* what the caller of each has been told

vars == <<asked, ran, verdict>>

Init ==
    /\ asked = {}
    /\ ran = [o \in Ops |-> 0]
    /\ verdict = [o \in Ops |-> "none"]

Ask(o) ==
    /\ o \notin asked
    /\ asked' = asked \cup {o}
    /\ UNCHANGED <<ran, verdict>>

Run(o) ==
    /\ o \in asked /\ ran[o] < Attempts
    /\ ran' = [ran EXCEPT ![o] = @ + 1]
    /\ UNCHANGED <<asked, verdict>>

Tell(o, v) ==
    /\ verdict[o] = "none"
    /\ v = "succeeded" => ran[o] > 0
    /\ verdict' = [verdict EXCEPT ![o] = v]
    /\ UNCHANGED <<asked, ran>>

Next == \E o \in Ops :
    Ask(o) \/ Run(o) \/ \E v \in {"succeeded", "failed"} : Tell(o, v)

Spec == Init /\ [][Next]_vars
=============================================================================
