------------------------------- MODULE MCMint -------------------------------
(***************************************************************************)
(* The mint handshake, with one word of each sort that resolve tells apart *)
(* and every path of up to two segments of up to two parts.                *)
(***************************************************************************)
EXTENDS Mint, TLC

CONSTANTS GET, get, POST, junk

MCWord == {GET, get, POST, junk}
MCCanonical == (GET :> GET) @@ (get :> GET) @@ (POST :> POST) @@ (junk :> NULL)

to(path, query) == [form |-> "origin", path |-> path, query |-> query]
root == to(<<seg("")>>, "none")
item == to(<<seg("x")>>, "none")
ask(word, target) == [method |-> word, target |-> target]

\* Paths: one or two segments, the first of which may hold a backslash, and
\* the walk that takes three to leave the base and come back.
MCSegment == {seg(p) : p \in Part}
MCPath == {<<s>> : s \in MCSegment}
            \union {<<s, t>> : s, t \in MCSegment}
            \union {<< <<p, q>> >> : p, q \in Name \union {"", ".."}}
            \union {<< <<"..", "..", "x">> >>, << <<"..", "v", "x">> >>}

MCTarget ==
  {to(path, "none") : path \in MCPath}
    \union {to(<<seg("x")>>, q) : q \in {"given", "malformed"}}
    \union {[item EXCEPT !.form = "other"]}

MCAsks == {ask(GET, t) : t \in MCTarget}
            \union {ask(w, item) : w \in {get, POST, junk}}

\* A prefix and one resource, open and pinned.
prefix(queries, separators, fixed) ==
  [base |-> <<"v", "">>, methods |-> {get}, fixed |-> fixed,
   allow_query |-> queries, allow_encoded_separators |-> separators]

MCEndpoints ==
  {prefix(FALSE, FALSE, NULL), prefix(TRUE, TRUE, NULL),
   prefix(TRUE, FALSE, ask(POST, item)),
   [prefix(TRUE, FALSE, NULL) EXCEPT !.base = <<"v">>]}

\* What other speakers send: too little, too much, too early an end, no text,
\* the two the wrong way round, a message out of place, and nothing more.
MCOtherScript ==
  {<<arg(GET), end>>,
   <<arg(GET), arg(root), arg(root), end>>,
   <<arg(GET), arg(NULL), end>>,
   <<arg(item), arg(GET), end>>,
   <<arg(GET), fds>>,
   <<arg(GET), arg(root)>>}

\* For the announcement of a pinned endpoint: one that pins nothing.
MCOpen == {prefix(TRUE, FALSE, NULL)}
MCAskedWords == {ask(w, item) : w \in Word}
=============================================================================
