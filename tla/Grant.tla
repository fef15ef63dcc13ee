------------------------------- MODULE Grant --------------------------------
(***************************************************************************)
(* The policy a capability carries (crate capcurl-grant): which headers    *)
(* reach the origin and how large the two bodies may be.                   *)
(***************************************************************************)
EXTENDS Http

DENIED_CLIENT_HEADERS == {"authorization", "connection", "content-length",
  "cookie", "expect", "host", "keep-alive", "proxy-authenticate",
  "proxy-authorization", "proxy-connection", "te", "trailer",
  "transfer-encoding", "upgrade"}

(***************************************************************************)
(* A grant.  `policy' is the HeaderPolicy variant, `allowed' the set of    *)
(* its Allowed variant, `injected' the names of the injections.            *)
(***************************************************************************)
Grants == [policy : {"none", "all_except_denied", "allowed"},
          allowed : SUBSET Header, injected : SUBSET Header,
          max_request_body : Nat, max_response_body : Nat]

\* HeaderPolicy::permits
permits(g, name) ==
  /\ name \notin DENIED_CLIENT_HEADERS
  /\ \/ g.policy = "all_except_denied"
     \/ g.policy = "allowed" /\ name \in g.allowed

\* Mutant: only the injections are guarded.
InjectionsDenied(g, client) == \E name \in client : name \in g.injected

\* Grant::apply_headers: one bad name refuses the whole request; otherwise
\* the injections are added to what the client set.
HeadersDenied(g, client) ==
  \E name \in client : name \in g.injected \/ ~ permits(g, name)

apply_headers(g, client) == client \union g.injected
=============================================================================
