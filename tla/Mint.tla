-------------------------------- MODULE Mint --------------------------------
(***************************************************************************)
(* The mint handshake: the client mint() and the first half of             *)
(* serve_connection over one channel.  A message may carry a descriptor,   *)
(* and a descriptor in flight keeps its socket open like any other copy.   *)
(***************************************************************************)
EXTENDS Resolve

CONSTANTS
  Endpoints,    \* the endpoints there are
  Asks,         \* the requests that clients mint for
  OtherScript,  \* what clients other than mint() may send in place of a mint
  IoErrors      \* whether socketpair or into_stream may fail, or a client
                \* have no room in its table for the descriptor

Kind == {"arg", "end", "error", "fd"}

\* What is not UTF-8 is NULL.
Value == Word \union RequestTarget \union {NULL}

Message == [kind : Kind, value : Value]

ASSUME MintAssumption ==
  /\ Endpoints \subseteq Endpoint /\ \A e \in Endpoints : Grantable(e)
  /\ Asks \subseteq Request
  /\ OtherScript \subseteq {s \in Seq(Message) : Len(s) >= 2}
  /\ IoErrors \in BOOLEAN

arg(v)  == [kind |-> "arg", value |-> v]
end     == [kind |-> "end", value |-> NULL]
error   == [kind |-> "error", value |-> NULL]
fds     == [kind |-> "fd", value |-> NULL]

MintScript(asked) == <<arg(asked.method), arg(asked.target), end>>

VARIABLES
  endpoint,  \* the endpoint it is served at
  script,    \* the messages the client sends
  put,       \* how many of them it has sent
  cpc,       \* "send", "recv"; how mint() ended: "minted", "refused",
             \* "no_room", "err"; or "gone"
  seen,      \* how many bound-request args it has received
  reported,  \* the request it believes the descriptor to be bound to
  held,      \* whether it holds the descriptor
  req,       \* messages in flight to the daemon
  rep,       \* messages in flight to the client
  dpc,       \* the await the serving task is at
  args,      \* the args it has received
  minted,    \* the request the descriptor is bound to, or NULL
  url,       \* the URL it would fetch, or NULL
  theirs     \* whether the daemon's copy of the client's end is open

client == <<endpoint, script, cpc, put, seen, reported, held>>
daemon == <<dpc, args, minted, url, theirs>>
vars == <<client, req, rep, daemon>>

Over == dpc \in {"returned", "no_pair", "crashed"}

Gone == cpc = "gone"

-----------------------------------------------------------------------------
(***************************************************************************)
(* client.rs: mint.                                                        *)
(***************************************************************************)
ClientSends ==
  /\ cpc = "send" /\ put < Len(script) /\ ~ Over
  /\ req' = Append(req, script[put + 1])
  /\ put' = put + 1
  /\ UNCHANGED <<endpoint, script, cpc, seen, reported, held, rep, daemon>>

ClientSendFails ==
  /\ cpc = "send" /\ put < Len(script) /\ Over
  /\ cpc' = "err"
  /\ UNCHANGED <<endpoint, script, put, seen, reported, held, req, rep, daemon>>

ClientSent ==
  /\ cpc = "send" /\ put = Len(script)
  /\ cpc' = "recv"
  /\ UNCHANGED <<endpoint, script, put, seen, reported, held, req, rep, daemon>>

Receives(kind) == cpc = "recv" /\ rep # <<>> /\ Head(rep).kind = kind

ClientArg ==
  /\ Receives("arg")
  /\ IF seen < 2
       THEN /\ reported' = IF seen = 0
                             THEN [reported EXCEPT !.method = Head(rep).value]
                             ELSE [reported EXCEPT !.target = Head(rep).value]
            /\ seen' = seen + 1 /\ UNCHANGED cpc
       ELSE cpc' = "err" /\ UNCHANGED <<reported, seen>>
  /\ rep' = Tail(rep)
  /\ UNCHANGED <<endpoint, script, put, held, req, daemon>>

\* fds.len() = 1
ClientFd ==
  /\ Receives("fd")
  /\ held' = TRUE /\ cpc' = "minted"
  /\ rep' = Tail(rep)
  /\ UNCHANGED <<endpoint, script, put, seen, reported, req, daemon>>

\* "expected exactly one descriptor, got 0": the client's table is full, and
\* the kernel drops the copy that came with the message.
ClientNoRoom ==
  /\ IoErrors /\ Receives("fd")
  /\ cpc' = "no_room"
  /\ rep' = Tail(rep)
  /\ UNCHANGED <<endpoint, script, put, seen, reported, held, req, daemon>>

ClientError ==
  /\ Receives("error")
  /\ cpc' = "refused"
  /\ rep' = Tail(rep)
  /\ UNCHANGED <<endpoint, script, put, seen, reported, held, req, daemon>>

\* Mutant: the end of the channel goes unnoticed.
ClientMissesEof == FALSE /\ UNCHANGED vars

\* "daemon closed the channel"
ClientEof ==
  /\ cpc = "recv" /\ rep = <<>> /\ Over
  /\ cpc' = "err"
  /\ UNCHANGED <<endpoint, script, put, seen, reported, held, req, rep, daemon>>

\* The client's process ends, or dies: its copies go, and with its end of
\* the channel what is in flight to it, descriptor and all.  It is the only
\* holder there is here; module Holders has those it may pass a copy to.
ClientEnds ==
  /\ ~ Gone
  /\ cpc' = "gone" /\ held' = FALSE /\ rep' = <<>>
  /\ UNCHANGED <<endpoint, script, put, seen, reported, req, daemon>>

ClientStep ==
  \/ ClientSends \/ ClientSendFails \/ ClientSent
  \/ ClientArg \/ ClientFd \/ ClientNoRoom \/ ClientError \/ ClientEof

-----------------------------------------------------------------------------
(***************************************************************************)
(* daemon.rs: read_mint_request and serve_connection.                      *)
(***************************************************************************)
Arrives(kinds) == dpc = "recv" /\ req # <<>> /\ Head(req).kind \in kinds

Asked == [method |-> args[1], target |-> args[2]]

\* Mutant: off by one.
MintArgOneMore ==
  /\ Arrives({"arg"})
  /\ IF Len(args) <= 2 /\ Head(req).value # NULL
       THEN args' = Append(args, Head(req).value) /\ UNCHANGED dpc
       ELSE dpc' = "send_error" /\ UNCHANGED args
  /\ req' = Tail(req)
  /\ UNCHANGED <<client, rep, minted, url, theirs>>

MintArg ==
  /\ Arrives({"arg"})
  /\ IF Len(args) < 2 /\ Head(req).value # NULL
       THEN args' = Append(args, Head(req).value) /\ UNCHANGED dpc
       ELSE dpc' = "send_error" /\ UNCHANGED args
  /\ req' = Tail(req)
  /\ UNCHANGED <<client, rep, minted, url, theirs>>

MintBroken ==
  /\ \/ Arrives(Kind \ {"arg", "end"})
     \/ Arrives({"end"}) /\ Len(args) # 2
  /\ dpc' = "send_error"
  /\ req' = Tail(req)
  /\ UNCHANGED <<client, rep, args, minted, url, theirs>>

\* The client closed the channel; the error that is sent reaches nobody.
MintEof ==
  /\ dpc = "recv" /\ req = <<>> /\ Gone
  /\ dpc' = "send_error"
  /\ UNCHANGED <<client, req, rep, args, minted, url, theirs>>

\* Mutant: a denial is logged and not sent.
MintDeniedSilently ==
  /\ Arrives({"end"}) /\ Len(args) = 2 /\ resolve(endpoint, Asked) = NULL
  /\ dpc' = "returned"
  /\ req' = Tail(req)
  /\ UNCHANGED <<client, rep, args, minted, url, theirs>>

MintDenied ==
  /\ Arrives({"end"}) /\ Len(args) = 2 /\ resolve(endpoint, Asked) = NULL
  /\ dpc' = "send_error"
  /\ req' = Tail(req)
  /\ UNCHANGED <<client, rep, args, minted, url, theirs>>

\* resolve and socketpair, up to the first send.
MintGranted ==
  /\ Arrives({"end"}) /\ Len(args) = 2 /\ resolve(endpoint, Asked) # NULL
  /\ dpc' = "send_method" /\ theirs' = TRUE
  /\ minted' = Bound(endpoint, Asked) /\ url' = resolve(endpoint, Asked)
  /\ req' = Tail(req)
  /\ UNCHANGED <<client, rep, args>>

\* socketpair fails: the task returns and says nothing.
MintNoPair ==
  /\ IoErrors
  /\ Arrives({"end"}) /\ Len(args) = 2 /\ resolve(endpoint, Asked) # NULL
  /\ dpc' = "no_pair"
  /\ req' = Tail(req)
  /\ UNCHANGED <<client, rep, args, minted, url, theirs>>

Sends(m, next) ==
  /\ ~ Gone
  /\ rep' = Append(rep, m)
  /\ dpc' = next
  /\ UNCHANGED <<client, req, args, minted, url, theirs>>

SendError == dpc = "send_error" /\ Sends(error, "returned")

SendMethod == dpc = "send_method" /\ Sends(arg(minted.method), "send_target")

\* Mutant: what is reported is what was asked for.
SendTargetAsAsked == dpc = "send_target" /\ Sends(arg(args[2]), "send_fd")

SendTarget == dpc = "send_target" /\ Sends(arg(minted.target), "send_fd")

SendFd == dpc = "send_fd" /\ Sends(fds, "drop")

\* A send to a client that is gone ends the task and drops what it holds.
SendFails ==
  /\ dpc \in {"send_error", "send_method", "send_target", "send_fd"} /\ Gone
  /\ dpc' = "returned" /\ theirs' = FALSE
  /\ UNCHANGED <<client, req, rep, args, minted, url>>

\* Mutant: the daemon's own copy is forgotten.
KeepTheirs ==
  /\ dpc = "drop"
  /\ dpc' = "serving"
  /\ UNCHANGED <<client, req, rep, args, minted, url, theirs>>

DropTheirs ==
  /\ dpc = "drop"
  /\ dpc' = "serving" /\ theirs' = FALSE
  /\ UNCHANGED <<client, req, rep, args, minted, url>>

\* into_stream fails
StreamFails ==
  /\ dpc = "drop" /\ IoErrors
  /\ dpc' = "returned" /\ theirs' = FALSE
  /\ UNCHANGED <<client, req, rep, args, minted, url>>

InFlight == \E i \in 1 .. Len(rep) : rep[i].kind = "fd"

Referenced == theirs \/ held \/ InFlight

\* serve_request, which modules Daemon and Holders detail: a holder uses the
\* descriptor, or nobody is left that could.
ServeHolder ==
  /\ dpc = "serving" /\ held
  /\ dpc' = "returned"
  /\ UNCHANGED <<client, req, rep, args, minted, url, theirs>>

ServeNobody ==
  /\ dpc = "serving" /\ ~ Referenced
  /\ dpc' = "returned"
  /\ UNCHANGED <<client, req, rep, args, minted, url, theirs>>

\* The daemon dies.  What it has sent can still be received.
Crash ==
  /\ ~ Over
  /\ dpc' = "crashed" /\ theirs' = FALSE
  /\ UNCHANGED <<client, req, rep, args, minted, url>>

ServeStep ==
  \/ MintArg \/ MintBroken \/ MintEof \/ MintDenied \/ MintGranted \/ MintNoPair
  \/ SendError \/ SendMethod \/ SendTarget \/ SendFd \/ SendFails
  \/ DropTheirs \/ StreamFails \/ ServeNobody

-----------------------------------------------------------------------------
Finished == Over /\ Gone /\ UNCHANGED vars

Init ==
  /\ endpoint \in Endpoints
  /\ script \in {MintScript(asked) : asked \in Asks} \union OtherScript
  /\ put = 0 /\ cpc = "send" /\ seen = 0 /\ held = FALSE
  /\ reported = [method |-> script[1].value, target |-> script[2].value]
  /\ req = <<>> /\ rep = <<>>
  /\ dpc = "recv" /\ args = <<>> /\ minted = NULL /\ url = NULL
  /\ theirs = FALSE

Next == \/ ClientStep \/ ClientEnds
        \/ ServeStep \/ ServeHolder \/ Crash
        \/ Finished

Spec == Init /\ [][Next]_vars

\* Both are polled by a runtime; nothing makes a holder use a descriptor.
FairSpec == Spec /\ WF_vars(ClientStep) /\ WF_vars(ServeStep)

-----------------------------------------------------------------------------
(***************************************************************************)
(* Properties                                                              *)
(***************************************************************************)
\* The client is mint(), or sends what mint() would.
Mints == \E asked \in Asks : script = MintScript(asked)

\* Every variable keeps its type.  Only a client that has minted, and only
\* until it ends, holds the descriptor.
TypeOK ==
  /\ endpoint \in Endpoints
  /\ script \in Seq(Message) /\ put \in 0 .. Len(script)
  /\ cpc \in {"send", "recv", "minted", "refused", "no_room", "err", "gone"}
  /\ seen \in 0 .. 2 /\ reported \in [method : Value, target : Value]
  /\ held \in BOOLEAN
  /\ req \in Seq(Message) /\ rep \in Seq(Message)
  /\ dpc \in {"recv", "send_error", "send_method", "send_target", "send_fd",
              "drop", "serving", "returned", "no_pair", "crashed"}
  /\ args \in Seq(Word \union RequestTarget) /\ Len(args) <= 2
  /\ minted \in Request \union {NULL}
  /\ url # NULL => minted # NULL /\ url.query \in {"none", "given"}
  /\ theirs \in BOOLEAN
  /\ held <=> cpc = "minted"

\* A client that got a descriptor knows what it is good for, and what the
\* daemon will compare a request with is what it will fetch: the report, the
\* binding and the URL are three computations of the one request that its
\* first two messages made, which nothing but the end followed.
ReportIsBinding ==
  cpc = "minted" =>
    /\ reported = minted /\ url = URL(endpoint.base, minted.target)
    /\ minted.method \in permitted(endpoint)
    /\ script[1].kind = "arg" /\ script[2].kind = "arg"
    /\ script[3].kind = "end"
    /\ minted = Bound(endpoint, [method |-> script[1].value,
                                 target |-> script[2].value])

\* The URL that is fetched is the base or under it, and what its query says
\* was let through: at an endpoint that allows encoded separators, where a
\* target may step out of the base, the re-check in join is what holds.
Confined ==
  minted # NULL =>
    /\ StartsWith(url.path, endpoint.base)
    /\ exact(endpoint.base) => url.path = endpoint.base
    /\ url.query = "given" => endpoint.allow_query

\* "Everything here rejects; there is no repair": with encoded separators
\* refused, the parser leaves every target that normalize_target accepts as
\* it was written, so that the two do not disagree about a path and the
\* re-check finds nothing ("should make this unreachable").  A part is what
\* percent-decoding makes of it: how a character was spelled is left out.
NothingRepaired ==
  /\ dpc = "recv" /\ Len(args) = 2 /\ Pinned(endpoint, Asked) \in Request
  /\ ~ endpoint.allow_encoded_separators
  =>
    LET target == Pinned(endpoint, Asked).target
        written == Assembled(endpoint.base, target)
    IN  normalizes(target, FALSE) =>
          Parsed(written) = written /\ StartsWith(written, endpoint.base)

\* "Answer anyway: the client is waiting on a descriptor that will never
\* come".  A client that mints properly gets the descriptor or the daemon's
\* reason for not giving it.  An error that is neither means that the daemon
\* died or ran out of descriptors, or, after it was told in full what the
\* descriptor is good for, that it had itself no room to take it.
MintIsAnswered ==
  Mints =>
    /\ cpc = "err" => dpc \in {"crashed", "no_pair"}
    /\ cpc = "no_room" => minted # NULL /\ reported = minted

\* A proper mint does not hang, whatever becomes of the daemon.
MintEnds == Mints ~> cpc \in {"minted", "refused", "no_room", "err", "gone"}

\* When the client ends, at whatever point of the handshake and also with
\* the descriptor in flight to it, or could not take the descriptor, the task
\* that serves it ends: while no other process holds a copy, which is for
\* AbandonedTaskEnds of module Holders.
TaskEnds == cpc \in {"no_room", "gone"} ~> Over

-----------------------------------------------------------------------------
(***************************************************************************)
(* What the source says and the code does not do.                          *)
(***************************************************************************)
\* capcurl: "A pinned endpoint ignores what we asked for.  Say so".  What it
\* compares to tell, what it asked for and what is reported, differs only
\* where the endpoint is pinned.
OnlyPinnedDiffers ==
  cpc = "minted" /\ reported # [method |-> script[1].value,
                                target |-> script[2].value]
    => endpoint.fixed # NULL
=============================================================================
