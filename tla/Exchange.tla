------------------------------ MODULE Exchange ------------------------------
(***************************************************************************)
(* The daemon against the client the project ships: request_over_fd, which *)
(* writes its whole request, does not half-close, and then reads one       *)
(* response by its Content-Length.  It is one of the holders of module     *)
(* Holders, and the composition implements that module.                    *)
(***************************************************************************)
EXTENDS Daemon

CONSTANTS
  Client,      \* the process that holds the descriptor
  ClientHead,  \* heads it may be asked to send; NULL if one does not parse
  Bulky        \* fields that take a response head a read past MAX_HEAD_LEN

\* A refusal, a line of text, fits the buffer of a socket: the client reads
\* nothing before it has written everything.  A head over the daemon's limit
\* is one that does not parse.
ASSUME ExchangeAssumption ==
  /\ Client \in Holder /\ ClientHead \subseteq RequestHead \union {NULL}
  /\ "host" \in Header /\ 0 \in Octet
  /\ MAX_HEAD_LEN >= 2 /\ REFUSAL_LEN < Capacity
  /\ Bulky \subseteq ResponseHeader \ {"content-type", REFUSED}

VARIABLES
  ask,    \* the head it sends
  load,   \* the body it sends
  cpc,    \* "write", "read_head", "read_body", "ok", "err" or "dead"
  put,    \* how much of its request it has written
  taken   \* the pieces of the response it has read

client == <<ask, load, cpc, put, taken>>
vars == <<daemonVars, client>>

-----------------------------------------------------------------------------
(***************************************************************************)
(* The request on the wire: the request line, the rest of the head with    *)
(* its Content-Length, the body.                                           *)
(***************************************************************************)
Wire(k, o, h) == [kind |-> k, octet |-> o, head |-> h]

RequestUnits ==
  <<Wire("line", 0, NULL), Wire("end", 0, ask)>> \o
    [i \in 1 .. Len(load) |-> Wire("octet", load[i], NULL)]

\* A Content-Length field follows whatever fields the caller asked for.
WithLength(h, n) ==
  IF h = NULL THEN NULL
  ELSE [h EXCEPT !.headers = @ \union {"host"}, !.lengths = @ \union {n}]

\* Mutant: a closed peer goes unnoticed.
ClientWritesRegardless ==
  /\ cpc = "write" /\ put < Len(RequestUnits)
  /\ Len(up) < Capacity
  /\ up' = Append(up, RequestUnits[put + 1])
  /\ put' = put + 1
  /\ UNCHANGED <<socket, buf, request, origin, writing, pc, bound,
                 ask, load, cpc, taken>>

ClientWrites ==
  /\ cpc = "write" /\ put < Len(RequestUnits)
  /\ ours # "closed" /\ Len(up) < Capacity
  /\ up' = Append(up, RequestUnits[put + 1])
  /\ put' = put + 1
  /\ UNCHANGED <<socket, buf, request, origin, writing, pc, bound,
                 ask, load, cpc, taken>>

\* EPIPE: write_all fails and with it request_over_fd.
ClientWriteFails ==
  /\ cpc = "write" /\ put < Len(RequestUnits)
  /\ ours = "closed"
  /\ cpc' = "err" /\ holders' = {}
  /\ UNCHANGED <<theirs, half, ours, reading, request, origin, writing, pc,
                 bound, ask, load, put, taken>>

ClientWritten ==
  /\ cpc = "write" /\ put = Len(RequestUnits)
  /\ cpc' = "read_head"
  /\ UNCHANGED <<daemonVars, ask, load, put, taken>>

\* The response it is reading, once it has a head: read_response counts the
\* bytes the first head it met announced.
Response1 == taken[1].of

Waiting ==
  \/ cpc = "read_head"
  \/ cpc = "read_body" /\ Len(taken) <= Response1.length

TooBulky ==
  cpc = "read_head" /\ down # <<>> /\ Head(down).of.headers \cap Bulky # {}

ClientReads ==
  /\ Waiting /\ down # <<>> /\ ~ TooBulky
  /\ taken' = Append(taken, Head(down))
  /\ down' = Tail(down)
  /\ cpc' = "read_body"
  /\ UNCHANGED <<socket, reading, request, origin, answer, wrote, sent, pc,
                 bound, ask, load, put>>

\* The daemon relays any head; the client takes no more than 64 KiB of one.
ClientRejects ==
  /\ TooBulky
  /\ cpc' = "err" /\ holders' = {}
  /\ UNCHANGED <<theirs, half, ours, reading, request, origin, writing, pc,
                 bound, ask, load, put, taken>>

\* Mutant: the end of the stream is taken for the end of the body.
ClientEofEndsBody ==
  /\ Waiting /\ down = <<>> /\ ours # "open"
  /\ cpc' = IF cpc = "read_body" THEN "ok" ELSE "err"
  /\ holders' = {}
  /\ UNCHANGED <<theirs, half, ours, reading, request, origin, writing, pc,
                 bound, ask, load, put, taken>>

\* The stream ends, or is reset, before the response is whole.
ClientEof ==
  /\ Waiting /\ down = <<>> /\ ours # "open"
  /\ cpc' = "err" /\ holders' = {}
  /\ UNCHANGED <<theirs, half, ours, reading, request, origin, writing, pc,
                 bound, ask, load, put, taken>>

\* Mutant: the descriptor outlives the response.
ClientDoneKeepsFd ==
  /\ cpc = "read_body" /\ Len(taken) = Response1.length + 1
  /\ cpc' = "ok"
  /\ UNCHANGED <<daemonVars, ask, load, put, taken>>

ClientDone ==
  /\ cpc = "read_body" /\ Len(taken) = Response1.length + 1
  /\ cpc' = "ok" /\ holders' = {}
  /\ UNCHANGED <<theirs, half, ours, reading, request, origin, writing, pc,
                 bound, ask, load, put, taken>>

ClientOver == cpc \in {"ok", "err", "dead"}

ClientDies ==
  /\ ~ ClientOver
  /\ cpc' = "dead" /\ holders' = {}
  /\ UNCHANGED <<theirs, half, ours, reading, request, origin, writing, pc,
                 bound, ask, load, put, taken>>

ClientStep ==
  \/ ClientWrites \/ ClientWriteFails \/ ClientWritten
  \/ ClientReads \/ ClientRejects \/ ClientEof \/ ClientDone

\* Mutant: a refusal is looked at with -F only.
ExitUnmarked(fail_on_error) ==
  IF cpc = "err" THEN 1
  ELSE IF fail_on_error /\ (REFUSED \in Response1.headers
                              \/ Response1.status >= 400) THEN 22
  ELSE 0

\* What capcurl exits with, with or without -F.
Exit(fail_on_error) ==
  IF cpc = "err" THEN 1
  ELSE IF REFUSED \in Response1.headers THEN 22
  ELSE IF fail_on_error /\ Response1.status >= 400 THEN 22
  ELSE 0

-----------------------------------------------------------------------------
Finished == Over /\ ClientOver /\ UNCHANGED vars

Init ==
  /\ DaemonInit /\ holders = {Client}
  /\ load \in UNION {[1 .. n -> Octet] : n \in 0 .. grant.max_request_body + 1}
  /\ \E h \in ClientHead : ask = WithLength(h, Len(load))
  /\ cpc = "write" /\ put = 0 /\ taken = <<>>

DaemonStep == Serve /\ UNCHANGED client

DaemonCrash == Crash /\ UNCHANGED client

Next == DaemonStep \/ DaemonCrash \/ ClientStep \/ ClientDies \/ Finished

Spec == Init /\ [][Next]_vars

\* Both are tasks of a runtime that polls what can go on.
FairSpec ==
  Spec /\ WF_vars(DaemonStep /\ ~ IoFails) /\ WF_vars(ClientStep)
-----------------------------------------------------------------------------
(***************************************************************************)
(* Properties                                                              *)
(***************************************************************************)
TypeOK ==
  /\ ask \in RequestHead \union {NULL}
  /\ load \in Seq(Octet)
  /\ cpc \in {"write", "read_head", "read_body", "ok", "err", "dead"}
  /\ put \in 0 .. Len(RequestUnits)
  /\ taken \in Seq(Piece)
  /\ ClientOver => holders = {}

\* A response request_over_fd returns is one that was written, from the
\* first byte of its head to the last of its body, and nothing else: "how a
\* truncated response becomes a successful-looking one".
WholeAnswer == cpc = "ok" => taken = Encode(Response1)

\* An answer relayed to the client is the origin's answer to the client's
\* own request: the origin saw its body byte for byte however the stream was
\* segmented, its headers and the injections, and all it answered came back,
\* within the cap and without the headers that end at a connection.
RoundTrip ==
  cpc = "ok" /\ Response1.by = "origin" =>
    /\ Len(served) = 1
    /\ Canonical[served[1].method] = Canonical[ask.method]
    /\ served[1].target = ask.target
    /\ served[1].body = load
    /\ served[1].headers = grant.injected \union
                             (ask.headers \ DESCRIPTOR_LEG_HEADERS)
    /\ Response1.status = reply.status /\ Response1.length = reply.length
    /\ Response1.headers = reply.headers \ (HOP_BY_HOP \union reply.nominated)
    /\ reply.length <= grant.max_response_body

\* The status of a refusal names the client's own mistake: refusal_for.
RefusalIsJust ==
  cpc = "ok" /\ Response1.by = "daemon" =>
    CASE Response1.status = 400 ->
           \/ ask = NULL \/ ConflictingFraming(ask)
           \/ "upgrade" \in ask.headers
      [] Response1.status = 403 ->
           \/ ~ MatchesBinding(ask)
           \/ HeadersDenied(grant, ask.headers \ DESCRIPTOR_LEG_HEADERS)
      [] Response1.status = 413 -> Len(load) > grant.max_request_body
      [] OTHER -> Response1.status = 502

\* Apart from the death of the daemon there are two ways a client is left
\* with an error: it was refused while it still had body to write, or the
\* origin answered with a head it does not take.  A bodiless request is
\* otherwise always answered, and so is one that is relayed.
OnlyRacedRefusalsAreLost ==
  cpc = "err" =>
    \/ pc = "crashed"
    \/ load # <<>> /\ put < Len(RequestUnits) /\ answer.by = "daemon"
    \/ put = Len(RequestUnits) /\ reply # NULL /\ reply.headers \cap Bulky # {}

\* A script that sees exit status 0 has the whole of what the origin answered
\* to the one request it made, with or without -F, and with it no error; and
\* a client the daemon refused never exits with 0.
ZeroIsAnAnswer ==
  cpc \in {"ok", "err"} => \A fail_on_error \in BOOLEAN :
    Exit(fail_on_error) = 0 =>
      /\ Response1.by = "origin" /\ Len(served) = 1
      /\ Len(taken) = reply.length + 1 /\ Response1.status = reply.status
      /\ fail_on_error => reply.status < 400

\* The client ends, with a response or an error: neither side is left
\* waiting for the other although nobody half-closes.
ClientFinishes == <> ClientOver

\* And so does the serving task, without a half-close to end the request.
TaskFinishes == <> Over

\* The client is one of the holders that module Holders allows.
ClientUnit ==
  {Wire("line", 0, NULL)} \union {Wire("octet", o, NULL) : o \in Octet}
    \union {Wire("end", 0, WithLength(h, n)) :
              h \in ClientHead, n \in 0 .. grant.max_request_body + 1}

H == INSTANCE Holders WITH
       HolderUnit <- ClientUnit, MaxWrites <- grant.max_request_body + 3,
       written <- put

ImplementsHolders == H!Spec

-----------------------------------------------------------------------------
(***************************************************************************)
(* What the source says and the code does not do.                          *)
(***************************************************************************)
\* "A refusal is reported on the descriptor as an HTTP response": once the
\* daemon has written one and returned, the client does not end in an error.
RefusalReported ==
  pc = "returned" /\ answer.by = "daemon" /\ wrote = answer.length + 1
    => cpc # "err"

\* "Whether the daemon refused the request rather than relaying an origin's
\* answer (the X-Capcurl-Refused marker)".
MarkerIsTheDaemons ==
  cpc = "ok" => (REFUSED \in Response1.headers <=> Response1.by = "daemon")
=============================================================================
