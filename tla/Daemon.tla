------------------------------- MODULE Daemon -------------------------------
(***************************************************************************)
(* What capcurld does with a descriptor it has minted: serve_connection    *)
(* from the moment the descriptor is sent, serve_request, and the origin   *)
(* leg.  The holders of the descriptor are left open; a module that        *)
(* EXTENDS this one says what they do.                                     *)
(*                                                                         *)
(* Between two awaits the task runs alone: an action never reaches past    *)
(* the next await.                                                         *)
(***************************************************************************)
EXTENDS Grant

CONSTANTS
  Holder,          \* processes that can come to hold the descriptor
  Bindings,        \* what a descriptor may be minted for
  grant,           \* the endpoint's policy
  OriginResponse,  \* what the origin may answer
  Capacity,        \* units a socket buffers in one direction
  READ,            \* units one read returns at most (8192 bytes)
  CHUNKED_SLACK,   \* the 4096 in the cap on a chunked body
  REFUSAL_LEN,     \* length of the text of a refusal
  IoErrors         \* whether reads and writes may fail on a live socket

ASSUME DaemonAssumption ==
  /\ Bindings \subseteq [method : Method, target : Target]
  /\ grant \in Grants
  /\ OriginResponse \subseteq
       [status : Nat, headers : SUBSET ResponseHeader,
        nominated : SUBSET ResponseHeader, length : Nat, declared : BOOLEAN]
  /\ {"content-type", REFUSED} \subseteq ResponseHeader
  /\ Capacity \in Nat \ {0} /\ READ \in Nat \ {0}
  /\ CHUNKED_SLACK \in Nat /\ REFUSAL_LEN \in Nat
  /\ IoErrors \in BOOLEAN
  /\ NULL \notin RequestHead /\ NULL \notin Response
  /\ NULL \notin OriginResponse

VARIABLES
  holders,  \* who has the client's end of the socketpair open
  theirs,   \* whether the daemon's own copy of that end is still open
  half,     \* whether that end is shut down for writing
  up,       \* units written to the descriptor and not read by the daemon
  down,     \* pieces written by the daemon and not read off the descriptor
  ours,     \* the daemon's end: "open", "shut" for writing, or "closed"
  pc,       \* the await the serving task is at
  buf,      \* what it has read and not consumed
  head,     \* the head it has parsed
  body,     \* the request body it has read
  reply,    \* the origin's answer it is collecting
  got,      \* how much of that answer's body it holds
  answer,   \* the response it is writing
  wrote,    \* how many pieces of it are written
  bound,    \* the method and target the descriptor was minted for
  served,   \* history: the requests the origin has seen
  sent      \* history: the pieces the daemon has written

socket  == <<holders, theirs, half, ours>>
reading == <<up, buf>>
request == <<head, body>>
origin  == <<reply, got, served>>
writing == <<down, answer, wrote, sent>>
daemonVars == <<socket, reading, request, origin, writing, pc, bound>>

-----------------------------------------------------------------------------
(***************************************************************************)
(* Errors and how refusal_for reports them.                                *)
(***************************************************************************)
Errors == {"RequestTooLarge", "ResponseTooLarge", "NotFixedRequest",
           "Header", "Http", "Upstream", "Handshake", "Io"}

\* Mutant: the two sides of a TooLarge are not told apart.
StatusOfEitherBody(e) ==
  CASE e \in {"RequestTooLarge", "ResponseTooLarge"} -> 413
    [] e \in {"NotFixedRequest", "Header"} -> 403
    [] e = "Http" -> 400
    [] e = "Upstream" -> 502
    [] e \in {"Handshake", "Io"} -> 500

StatusOf(e) ==
  CASE e = "RequestTooLarge"              -> 413
    [] e \in {"NotFixedRequest", "Header"} -> 403
    [] e = "Http"                         -> 400
    [] e \in {"ResponseTooLarge", "Upstream"} -> 502
    [] e \in {"Handshake", "Io"}          -> 500

Refusal(e) == [by |-> "daemon", status |-> StatusOf(e),
               headers |-> {"content-type", REFUSED}, length |-> REFUSAL_LEN]

\* Mutant: the error is logged and not reported.
FailSilently(e) ==
  pc' = "shutdown" /\ answer' = Refusal(e) /\ wrote' = REFUSAL_LEN + 1

\* serve_request returns Err(e): the refusal is what is written next.
Fail(e) == pc' = "refuse" /\ answer' = Refusal(e) /\ wrote' = 0

-----------------------------------------------------------------------------
(***************************************************************************)
(* The socketpair, as the daemon's end sees it.                            *)
(***************************************************************************)
PeerGone == holders = {} /\ ~ theirs

AtEof == up = <<>> /\ (half \/ PeerGone)

ReadSize == IF Len(up) < READ THEN Len(up) ELSE READ

Read ==
  /\ up # <<>>
  /\ buf' = buf \o SubSeq(up, 1, ReadSize)
  /\ up' = SubSeq(up, ReadSize + 1, Len(up))
  /\ UNCHANGED <<socket, request, origin, writing, pc, bound>>

\* Mutant: a peer that shut down its writing side is not worth an answer.
ReadEofSilently(e) ==
  /\ AtEof
  /\ pc' = "shutdown"
  /\ UNCHANGED <<socket, reading, request, origin, writing, bound>>

ReadEof(e) ==
  /\ AtEof
  /\ Fail(e)
  /\ UNCHANGED <<socket, reading, request, origin, down, sent, bound>>

-----------------------------------------------------------------------------
\* Mutant: the daemon's own copy is forgotten.
KeepTheirs ==
  /\ pc = "delivered"
  /\ pc' = "read_head"
  /\ UNCHANGED <<socket, reading, request, origin, writing, bound>>

\* The descriptor has been sent.  Every transport took a reference of its
\* own, so this one has to go.
DropTheirs ==
  /\ pc = "delivered"
  /\ theirs' = FALSE
  /\ pc' = "read_head"
  /\ UNCHANGED <<holders, half, ours, reading, request, origin, writing,
                 bound>>

\* into_stream fails: serve_connection returns with nothing written.
StreamFails ==
  /\ pc = "delivered" /\ IoErrors
  /\ theirs' = FALSE /\ ours' = "closed" /\ pc' = "returned"
  /\ UNCHANGED <<holders, half, reading, request, origin, writing, bound>>

(***************************************************************************)
(* read_head                                                               *)
(***************************************************************************)
HeadPending == pc = "read_head" /\ \A i \in 1 .. Len(buf) : ~ EndsHead(buf[i])

HeadOverrun == Len(buf) > MAX_HEAD_LEN

ReadHead == HeadPending /\ ~ HeadOverrun /\ Read

HeadEof == HeadPending /\ ~ HeadOverrun /\ ReadEof("Handshake")

HeadTooLarge ==
  /\ HeadPending /\ HeadOverrun
  /\ Fail("Http")
  /\ UNCHANGED <<socket, reading, request, origin, down, sent, bound>>

\* Mutant: the target is not compared.
MatchesMethod(h) == Canonical[h.method] = Canonical[bound.method]

\* The descriptor was minted for one request.
MatchesBinding(h) ==
  Canonical[h.method] = Canonical[bound.method] /\ h.target = bound.target

HeadRead ==
  /\ pc = "read_head"
  /\ \E e \in 1 .. Len(buf) :
       /\ HeadEndsAt(buf, e)
       /\ IF ~ Parses(buf, e)
            THEN Fail("Http") /\ UNCHANGED <<buf, head>>
          ELSE IF ~ MatchesBinding(buf[e].head)
            THEN Fail("NotFixedRequest") /\ UNCHANGED <<buf, head>>
          ELSE /\ head' = buf[e].head
               /\ buf' = SubSeq(buf, e + 1, Len(buf))
               /\ pc' = "read_body"
               /\ UNCHANGED <<answer, wrote>>
  /\ UNCHANGED <<socket, up, body, origin, down, sent, bound>>

(***************************************************************************)
(* read_body, and apply_headers, which runs once the body is in.           *)
(***************************************************************************)
DESCRIPTOR_LEG_HEADERS == {"connection", "content-length", "expect", "host",
  "keep-alive", "proxy-connection", "te", "trailer", "transfer-encoding",
  "upgrade"}

ClientHeaders == head.headers \ DESCRIPTOR_LEG_HEADERS

BodyRead(b) ==
  /\ IF HeadersDenied(grant, ClientHeaders)
       THEN Fail("Header") /\ UNCHANGED body
       ELSE pc' = "send" /\ body' = b /\ UNCHANGED <<answer, wrote>>
  /\ UNCHANGED <<socket, reading, head, origin, down, sent, bound>>

BodyNone == pc = "read_body" /\ NoBody(head) /\ BodyRead(<<>>)

\* Mutant: off by one.
TooLongAtLimit(n) == n >= grant.max_request_body

\* A limit of the grant is passed by what is declared or has arrived.
TooLong(n) == n > grant.max_request_body

BodyLengthTooLarge ==
  /\ pc = "read_body"
  /\ \E n \in head.lengths : HasLength(head, n) /\ TooLong(n)
  /\ Fail("RequestTooLarge")
  /\ UNCHANGED <<socket, reading, request, origin, down, sent, bound>>

LengthPending ==
  /\ pc = "read_body"
  /\ \E n \in head.lengths :
       HasLength(head, n) /\ ~ TooLong(n) /\ Len(buf) < n

ReadLength == LengthPending /\ Read

LengthEof == LengthPending /\ ReadEof("Handshake")

\* Mutant: off by one.
LengthReadPastEnd ==
  /\ pc = "read_body"
  /\ \E n \in head.lengths :
       /\ HasLength(head, n) /\ ~ TooLong(n) /\ Len(buf) > n
       /\ BodyRead(Octets(buf, n))

LengthRead ==
  /\ pc = "read_body"
  /\ \E n \in head.lengths :
       /\ HasLength(head, n) /\ ~ TooLong(n) /\ Len(buf) >= n
       /\ BodyRead(Octets(buf, n))

ChunkedBody == pc = "read_body" /\ Chunked(head)

ChunkedRead ==
  /\ ChunkedBody
  /\ \E n \in 0 .. Len(buf) :
       /\ DecodesTo(buf, n, grant.max_request_body)
       /\ BodyRead(Octets(buf, n))

ChunkedRejected ==
  /\ ChunkedBody
  /\ \/ DecodedTooLarge(buf, grant.max_request_body)
     \/ BadChunk(buf, grant.max_request_body)
  /\ Fail("Http")
  /\ UNCHANGED <<socket, reading, request, origin, down, sent, bound>>

ChunkedPending == ChunkedBody /\ NeedMore(buf, grant.max_request_body)

\* Mutant: only what is decoded counts.
ChunkedNeverOverrun == FALSE

ChunkedOverrun == RawLen(buf) > grant.max_request_body * 2 + CHUNKED_SLACK

ReadChunked == ChunkedPending /\ ~ ChunkedOverrun /\ Read

ChunkedEof == ChunkedPending /\ ~ ChunkedOverrun /\ ReadEof("Http")

ChunkedTooLarge ==
  /\ ChunkedPending /\ ChunkedOverrun
  /\ Fail("RequestTooLarge")
  /\ UNCHANGED <<socket, reading, request, origin, down, sent, bound>>

\* A read of a live socket fails.
ReadFails ==
  /\ IoErrors
  /\ \/ HeadPending /\ ~ HeadOverrun
     \/ LengthPending
     \/ ChunkedPending /\ ~ ChunkedOverrun
  /\ Fail("Io")
  /\ UNCHANGED <<socket, reading, request, origin, down, sent, bound>>

-----------------------------------------------------------------------------
(***************************************************************************)
(* upstream::fetch.  The request may reach the origin and be acted on      *)
(* whether or not an answer comes back in time.                            *)
(***************************************************************************)
OriginRequest == [method |-> bound.method, target |-> bound.target,
                  headers |-> apply_headers(grant, ClientHeaders),
                  body |-> body]

Send ==
  /\ pc = "send"
  /\ served' = Append(served, OriginRequest)
  /\ pc' = "await"
  /\ UNCHANGED <<socket, reading, request, reply, got, writing, bound>>

\* Mutant: a fetch that failed is tried again.
FetchRetries ==
  /\ pc \in {"send", "await", "read_capped"}
  /\ pc' = "send"
  /\ UNCHANGED <<socket, reading, request, origin, writing, bound>>

\* The origin cannot be reached, or the timeout expires, at any point.
FetchFails ==
  /\ pc \in {"send", "await", "read_capped"}
  /\ Fail("Upstream")
  /\ UNCHANGED <<socket, reading, request, origin, down, sent, bound>>

PassesResponseLimit(n) == n > grant.max_response_body

OriginAnswers(r) ==
  /\ pc = "await"
  /\ IF r.declared /\ PassesResponseLimit(r.length)
       THEN Fail("ResponseTooLarge") /\ UNCHANGED <<reply, got>>
       ELSE /\ pc' = "read_capped" /\ reply' = r /\ got' = 0
            /\ UNCHANGED <<answer, wrote>>
  /\ UNCHANGED <<socket, reading, request, served, down, sent, bound>>

ReadCapped ==
  /\ pc = "read_capped" /\ got < reply.length
  /\ IF PassesResponseLimit(got + 1)
       THEN Fail("ResponseTooLarge") /\ UNCHANGED got
       ELSE got' = got + 1 /\ UNCHANGED <<pc, answer, wrote>>
  /\ UNCHANGED <<socket, reading, request, reply, served, down, sent, bound>>

\* What serve_request relays: the status, the headers that are not hop by
\* hop, and a length computed from the body held.  A header is its name: that
\* one whose value is no visible ASCII is dropped too is left out.
Relayed == [by |-> "origin", status |-> reply.status,
            headers |-> {h \in reply.headers :
                           ~ is_hop_by_hop(h, reply.nominated)},
            length |-> got]

ReplyRead ==
  /\ pc = "read_capped" /\ got = reply.length
  /\ pc' = "write_response" /\ answer' = Relayed /\ wrote' = 0
  /\ UNCHANGED <<socket, reading, request, origin, down, sent, bound>>

-----------------------------------------------------------------------------
(***************************************************************************)
(* write_response, for the relayed answer and for a refusal.               *)
(***************************************************************************)
Answering == pc \in {"write_response", "refuse"}

\* Mutant: off by one.
UnwrittenOneMore == Answering /\ wrote <= answer.length + 1

Unwritten == Answering /\ wrote <= answer.length

HasRoom == Len(down) < Capacity

Write ==
  /\ Unwritten /\ HasRoom /\ ~ PeerGone
  /\ down' = Append(down, [of |-> answer, n |-> wrote])
  /\ sent' = Append(sent, [of |-> answer, n |-> wrote])
  /\ wrote' = wrote + 1
  /\ UNCHANGED <<socket, reading, request, origin, answer, pc, bound>>

\* Mutant: a full buffer is taken for a failure.
WriteFailsWhenFull ==
  /\ Unwritten /\ (PeerGone \/ IoErrors \/ ~ HasRoom)
  /\ IF pc = "write_response"
       THEN Fail("Io")
       ELSE pc' = "shutdown" /\ UNCHANGED <<answer, wrote>>
  /\ UNCHANGED <<socket, reading, request, origin, down, sent, bound>>

\* Mutant: a relay that failed starts over.
WriteFailsFetchAgain ==
  /\ Unwritten /\ (PeerGone \/ IoErrors)
  /\ pc' = IF pc = "write_response" THEN "send" ELSE "shutdown"
  /\ UNCHANGED <<socket, reading, request, origin, writing, bound>>

\* The error of a relay becomes a refusal; the error of a refusal is
\* dropped.
WriteFails ==
  /\ Unwritten /\ (PeerGone \/ IoErrors)
  /\ IF pc = "write_response"
       THEN Fail("Io")
       ELSE pc' = "shutdown" /\ UNCHANGED <<answer, wrote>>
  /\ UNCHANGED <<socket, reading, request, origin, down, sent, bound>>

AfterAnswer == "shutdown"

Written ==
  /\ Answering /\ wrote = answer.length + 1
  /\ pc' = AfterAnswer
  /\ UNCHANGED <<socket, reading, request, origin, writing, bound>>

Shutdown ==
  /\ pc = "shutdown"
  /\ ours' = "shut" /\ pc' = "drop"
  /\ UNCHANGED <<holders, theirs, half, reading, request, origin, writing,
                 bound>>

Drop ==
  /\ pc = "drop"
  /\ ours' = "closed" /\ pc' = "returned"
  /\ UNCHANGED <<holders, theirs, half, reading, request, origin, writing,
                 bound>>

Over == pc \in {"returned", "crashed"}

\* The daemon dies, or the host takes its descriptors away.
Crash ==
  /\ ~ Over
  /\ ours' = "closed" /\ theirs' = FALSE /\ pc' = "crashed"
  /\ UNCHANGED <<holders, half, reading, request, origin, writing, bound>>

-----------------------------------------------------------------------------
DaemonInit ==
  /\ holders \in {{h} : h \in Holder}
  /\ theirs = TRUE /\ half = FALSE /\ ours = "open"
  /\ up = <<>> /\ down = <<>>
  /\ pc = "delivered"
  /\ buf = <<>> /\ head = NULL /\ body = <<>>
  /\ reply = NULL /\ got = 0
  /\ answer = NULL /\ wrote = 0
  /\ bound \in Bindings
  /\ served = <<>> /\ sent = <<>>

ServeHead == ReadHead \/ HeadEof \/ HeadTooLarge \/ HeadRead

ServeBody ==
  \/ BodyNone
  \/ BodyLengthTooLarge \/ ReadLength \/ LengthEof \/ LengthRead
  \/ ChunkedRead \/ ChunkedRejected
  \/ ReadChunked \/ ChunkedEof \/ ChunkedTooLarge

Fetch ==
  \/ Send \/ FetchFails \/ ReadCapped \/ ReplyRead
  \/ \E r \in OriginResponse : OriginAnswers(r)

Answer == Write \/ WriteFails \/ Written \/ Shutdown \/ Drop

\* The steps of the serving task.
Serve ==
  \/ DropTheirs \/ StreamFails
  \/ ServeHead \/ ServeBody \/ ReadFails \/ Fetch \/ Answer

\* The steps nothing makes happen: I/O that fails on a live socket.  Fairness
\* is of the other steps only, or a failure would end every wait.
IoFails ==
  \/ StreamFails
  \/ ReadFails /\ ~ AtEof
  \/ WriteFails /\ ~ PeerGone
=============================================================================
