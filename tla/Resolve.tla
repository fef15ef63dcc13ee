------------------------------- MODULE Resolve ------------------------------
(***************************************************************************)
(* Grant::resolve: which requests an endpoint may be asked for, and what   *)
(* URL the daemon makes of one (crate capcurl-grant).                      *)
(***************************************************************************)
EXTENDS Target

CONSTANTS
  Word,       \* what a client may send as a method
  NULL,
  Canonical   \* canonicalize: a word in upper case, NULL if no token

ASSUME ResolveAssumption ==
  /\ Canonical \in [Word -> Word \union {NULL}]
  /\ NULL \notin Word /\ NULL \notin RequestTarget
  /\ NULL \notin [method : Word, target : RequestTarget]

Request == [method : Word, target : RequestTarget]

\* The part of a grant that decides on requests.
Endpoint ==
  [base : Seq(Part), methods : SUBSET Word, fixed : Request \union {NULL},
   allow_query : BOOLEAN, allow_encoded_separators : BOOLEAN]

\* MethodSet::parse
MethodSet(words) == {Canonical[w] : w \in words}

\* Grant::new and MethodSet::parse take it: the base is a parsed URL.
Grantable(e) ==
  /\ e.base # <<>> /\ Parsed(e.base) = e.base
  /\ e.methods # {} /\ NULL \notin MethodSet(e.methods)

\* with_fixed_request narrows the methods to the pinned one.
permitted(e) ==
  IF e.fixed = NULL \/ Canonical[e.fixed.method] = NULL
  THEN MethodSet(e.methods) ELSE MethodSet({e.fixed.method})

\* If the grant pins a request, what the client asked for is discarded.
Pinned(e, asked) == IF e.fixed = NULL THEN asked ELSE e.fixed

URL(base, target) ==
  [path |-> Parsed(Assembled(base, target)), query |-> target.query]

\* Mutant: the re-check after parsing is left out.
unchecked_join(base, target) == URL(base, target)

\* NULL is Denied::Escape.
join(base, target) ==
  IF StartsWith(URL(base, target).path, base) THEN URL(base, target) ELSE NULL

\* The URL resolve returns, NULL if it denies the request.  A target is no
\* token, and a word does not begin with a slash.
resolve(e, asked) ==
  LET request == Pinned(e, asked)
      target  == request.target
  IN  IF /\ request \in Request
         /\ Canonical[request.method] \in permitted(e)
         /\ normalizes(target, e.allow_encoded_separators)
         /\ target.query # "none" => e.allow_query
         /\ exact(e.base) => target.path = <<seg("")>>
      THEN join(e.base, target) ELSE NULL

\* serve_connection: the target the descriptor is bound to and the target
\* whose URL is fetched are computed apart.
BoundTarget(e, asked) ==
  IF e.fixed # NULL THEN e.fixed.target ELSE asked.target

Bound(e, asked) == [method |-> Canonical[Pinned(e, asked).method],
                    target |-> BoundTarget(e, asked)]
=============================================================================
