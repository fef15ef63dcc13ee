----------------------------- MODULE MCHolders ------------------------------
\* Model values for Holders: a pinned-down endpoint, and holders that know
\* every kind of unit the parsers tell apart.
EXTENDS Holders, TLC

MCMethod == {"GET", "get", "POST"}
MCCanonical == [m \in MCMethod |-> IF m = "get" THEN "GET" ELSE m]
MCTarget == {"/a", "/b"}
MCHeader == {"host", "accept", "cookie", "authorization"}
MCResponseHeader == {"content-type", "connection", "x-one", REFUSED}

MCBindings == {[method |-> "GET", target |-> "/a"]}

MCGrant == [policy |-> "all_except_denied", allowed |-> {},
            injected |-> {"authorization"},
            max_request_body |-> 1, max_response_body |-> 2]

\* The same endpoint with room for a body of two chunks.
MCTwoChunkGrant == [MCGrant EXCEPT !.max_request_body = 2]

Answered(n, known) == [status |-> 200, headers |-> {"content-type"},
                       nominated |-> {}, length |-> n, declared |-> known]

MCOriginResponse == {Answered(2, TRUE), Answered(3, TRUE), Answered(3, FALSE)}

HeadOf(m, t, hs, ls, c) ==
  [method |-> m, target |-> t, headers |-> hs, lengths |-> ls, codings |-> c]

End(h) == [kind |-> "end", octet |-> 0, head |-> h]
Plain(k) == [kind |-> k, octet |-> 0, head |-> NULL]

\* Heads that are in order but for one thing.
MCHead == {
  HeadOf("get", "/a", {"host", "accept"}, {}, 0),
  HeadOf("GET", "/a", {"host"}, {1}, 0),
  HeadOf("GET", "/a", {"host"}, {}, 1),
  HeadOf("GET", "/a", {"cookie"}, {1}, 0),
  HeadOf("GET", "/b", {"host"}, {}, 0),
  HeadOf("GET", "/a", {"host"}, {2}, 0),
  HeadOf("GET", "/a", {"host"}, {1}, 1)}

MCHolderUnit ==
  {End(h) : h \in MCHead} \union {Plain(k) : k \in UnitKind}

\* A well-behaved chunked request.
MCChunkedUnit ==
  {End(HeadOf("GET", "/a", {"host"}, {}, 1)), Plain("chunk"), Plain("last")}

\* Heads that never end, and bodies that never do.
MCEndlessUnit ==
  {Plain("line"), Plain("octet"),
   End(HeadOf("GET", "/a", {"host"}, {}, 1)),
   End(HeadOf("GET", "/a", {"host"}, {1}, 0))}

MCSymmetry == Permutations(Holder)
=============================================================================
