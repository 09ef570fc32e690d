------------------------------ MODULE RpcCalls ------------------------------
(***************************************************************************)
(* What an endpoint promises about the operations of its application: an   *)
(* operation is begun once, is sent at most once and only after it has     *)
(* begun, and ends once.  It succeeds only if it was sent; it may also be  *)
(* sent although it has failed, for a failure says nothing of the remote.  *)
(* An operation that expects no response is accepted instead.              *)
(***************************************************************************)
CONSTANT Ops
VARIABLES phase, sent

vars == <<phase, sent>>

TypeOK ==
    /\ phase \in [Ops -> {"idle", "rejected", "open", "accepted", "succeeded", "failed"}]
    /\ sent \subseteq Ops

Init == phase = [o \in Ops |-> "idle"] /\ sent = {}

Move(o, from, to) ==
    /\ phase[o] \in from
    /\ phase' = [phase EXCEPT ![o] = to]
    /\ UNCHANGED sent

Reject(o)  == Move(o, {"idle"}, "rejected")
Open(o)    == Move(o, {"idle"}, "open")
Accept(o)  == Move(o, {"idle", "open"}, "accepted")
Fail(o)    == Move(o, {"open"}, "failed")
Succeed(o) == o \in sent /\ Move(o, {"open"}, "succeeded")

Send(o) ==
    /\ phase[o] \in {"open", "failed"}
    /\ o \notin sent
    /\ sent' = sent \cup {o}
    /\ UNCHANGED phase

Next == \E o \in Ops :
    Reject(o) \/ Open(o) \/ Accept(o) \/ Fail(o) \/ Succeed(o) \/ Send(o)

Spec == Init /\ [][Next]_vars

\* Success is never reported for a request the remote cannot have received.
SucceededWasSent == \A o \in Ops : phase[o] = "succeeded" => o \in sent
=============================================================================
