----------------------------- MODULE Capability -----------------------------
(***************************************************************************)
(* What a minted descriptor promises, whoever holds it and whatever they   *)
(* write: it conveys at most the one request it was minted for, it answers *)
(* at most once, and the answer tells whether the origin was involved.     *)
(***************************************************************************)
EXTENDS Grant

CONSTANTS Bindings, grant

VARIABLES
  bound,     \* the method and target the descriptor was minted for
  requests,  \* the requests made of the origin on its authority
  verdict    \* what its holder was told: "none", "relayed", "denied", "failed"

Request == [method : Method, target : Target, headers : SUBSET Header,
            body : Seq(Octet)]

\* The requests that are within a binding and the grant.
Conveyed(b, r) ==
  /\ r.method = b.method /\ r.target = b.target
  /\ grant.injected \subseteq r.headers
  /\ \A h \in r.headers \ grant.injected : permits(grant, h)
  /\ Len(r.body) <= grant.max_request_body

Init == bound \in Bindings /\ requests = <<>> /\ verdict = "none"

Use ==
  /\ requests = <<>> /\ verdict = "none"
  /\ requests' \in Seq(Request) /\ Len(requests') = 1
  /\ Conveyed(bound, requests'[1])
  /\ UNCHANGED <<bound, verdict>>

\* A relayed answer follows the request; a denial means there was none; a
\* failure leaves it open.
Tell(v) ==
  /\ verdict = "none"
  /\ v = "relayed" => requests # <<>>
  /\ v = "denied" => requests = <<>>
  /\ verdict' = v
  /\ UNCHANGED <<bound, requests>>

Next == Use \/ \E v \in {"relayed", "denied", "failed"} : Tell(v)

Spec == Init /\ [][Next]_<<bound, requests, verdict>>
=============================================================================
