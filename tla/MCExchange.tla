----------------------------- MODULE MCExchange -----------------------------
\* Model values for Exchange: requests in order, and one for each mistake a
\* caller of request_over_fd can make.
EXTENDS Exchange

MCMethod == {"GET", "get", "POST"}
MCCanonical == [m \in MCMethod |-> IF m = "get" THEN "GET" ELSE m]
MCTarget == {"/a", "/b"}
MCHeader == {"host", "accept", "x-other", "cookie", "authorization",
             "upgrade"}
MCResponseHeader == {"content-type", "connection", "x-one", "x-bulk", REFUSED}

MCBindings == {[method |-> "GET", target |-> "/a"]}

MCGrant == [policy |-> "allowed", allowed |-> {"accept", "authorization"},
            injected |-> {"authorization"},
            max_request_body |-> 2, max_response_body |-> 2]

MCOriginResponse ==
  {[status |-> s, headers |-> {"content-type", "connection", "x-one"},
    nominated |-> {"x-one"}, length |-> n, declared |-> d] :
      s \in {302, 404}, n \in {0, 2}, d \in {TRUE}} \union
  {[status |-> 200, headers |-> {}, nominated |-> {}, length |-> n,
    declared |-> FALSE] : n \in {1, 3}} \union
  {[status |-> 200, headers |-> {"x-bulk"}, nominated |-> {}, length |-> 1,
    declared |-> TRUE]}

MCMarkedOrigin ==
  {[status |-> 404, headers |-> {REFUSED}, nominated |-> {}, length |-> 1,
    declared |-> TRUE]}

MCBulky == {"x-bulk"}

HeadOf(m, t, hs, ls, c) ==
  [method |-> m, target |-> t, headers |-> hs, lengths |-> ls, codings |-> c]

MCClientHead == {
  NULL,
  HeadOf("get", "/a", {"accept"}, {}, 0),
  HeadOf("POST", "/a", {}, {}, 0),
  HeadOf("GET", "/b", {}, {}, 0),
  HeadOf("GET", "/a", {"x-other"}, {}, 0),
  HeadOf("GET", "/a", {"authorization"}, {}, 0),
  HeadOf("GET", "/a", {"upgrade"}, {}, 0),
  HeadOf("GET", "/a", {}, {1}, 0),
  HeadOf("GET", "/a", {}, {}, 1)}

MCPlainHead == {HeadOf("GET", "/a", {"accept"}, {}, 0)}
=============================================================================
