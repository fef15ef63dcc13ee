------------------------------- MODULE Holders ------------------------------
(***************************************************************************)
(* The daemon against arbitrary holders of a descriptor.  A descriptor is  *)
(* an ordinary socket: whoever holds it may write anything, read, shut     *)
(* down its writing side, pass it on, and close it, in any order and at    *)
(* any time, and several may hold it at once.                              *)
(***************************************************************************)
EXTENDS Daemon

CONSTANTS
  HolderUnit,  \* the units holders write
  MaxWrites    \* bound: units they write in all

ASSUME HoldersAssumption ==
  HolderUnit \subseteq Unit /\ MaxWrites \in Nat

VARIABLE written  \* units written by the holders so far

vars == <<daemonVars, written>>

-----------------------------------------------------------------------------
\* A write once the daemon has closed its end fails and leaves no trace.
HolderWrites(u) ==
  /\ holders # {} /\ ~ half /\ ours # "closed"
  /\ Len(up) < Capacity
  /\ written < MaxWrites
  /\ up' = Append(up, u)
  /\ written' = written + 1
  /\ UNCHANGED <<socket, buf, request, origin, writing, pc, bound>>

HolderReads ==
  /\ holders # {} /\ down # <<>>
  /\ down' = Tail(down)
  /\ UNCHANGED <<socket, reading, request, origin, answer, wrote, sent, pc,
                 bound, written>>

HalfClose ==
  /\ holders # {} /\ ~ half
  /\ half' = TRUE
  /\ UNCHANGED <<holders, theirs, ours, reading, request, origin, writing,
                 pc, bound, written>>

Delegate(h, g) ==
  /\ h \in holders /\ g \notin holders
  /\ holders' = holders \union {g}
  /\ UNCHANGED <<theirs, half, ours, reading, request, origin, writing, pc,
                 bound, written>>

Close(h) ==
  /\ h \in holders
  /\ holders' = holders \ {h}
  /\ UNCHANGED <<theirs, half, ours, reading, request, origin, writing, pc,
                 bound, written>>

HoldersStep ==
  \/ \E u \in HolderUnit : HolderWrites(u)
  \/ HolderReads \/ HalfClose
  \/ \E h, g \in Holder : Delegate(h, g)
  \/ \E h \in Holder : Close(h)

\* Nothing is left to do: the task is over and nobody holds the descriptor.
Finished == Over /\ holders = {} /\ UNCHANGED vars

Init == DaemonInit /\ written = 0

DaemonStep == Serve /\ UNCHANGED written

DaemonCrash == Crash /\ UNCHANGED written

Next == DaemonStep \/ DaemonCrash \/ HoldersStep \/ Finished

Spec == Init /\ [][Next]_vars

\* The runtime polls a task that can go on; nothing makes a holder act.
FairSpec == Spec /\ WF_vars(DaemonStep /\ ~ IoFails)

-----------------------------------------------------------------------------
(***************************************************************************)
(* The abstract capability this is an implementation of: the first answer  *)
(* that starts to be written is the verdict.                               *)
(***************************************************************************)
Verdict(r) ==
  IF r.by = "origin" THEN "relayed"
  ELSE IF r.status \in {400, 403, 413} THEN "denied" ELSE "failed"

C == INSTANCE Capability WITH
       requests <- served,
       verdict <- IF sent = <<>> THEN "none" ELSE Verdict(sent[1].of)

(***************************************************************************)
(* Properties                                                              *)
(***************************************************************************)
\* Every variable keeps its type, a stream never holds more than a socket
\* buffers, and no piece is written past the end of an answer.
TypeOK ==
  /\ holders \subseteq Holder
  /\ theirs \in BOOLEAN /\ half \in BOOLEAN
  /\ ours \in {"open", "shut", "closed"}
  /\ up \in Seq(Unit) /\ Len(up) <= Capacity
  /\ down \in Seq(Piece) /\ Len(down) <= Capacity
  /\ pc \in {"delivered", "read_head", "read_body", "send", "await",
             "read_capped", "write_response", "refuse", "shutdown", "drop",
             "returned", "crashed"}
  /\ buf \in Seq(Unit)
  /\ head \in RequestHead \union {NULL}
  /\ body \in Seq(Octet)
  /\ reply \in OriginResponse \union {NULL}
  /\ got \in Nat
  /\ answer \in Response \union {NULL}
  /\ wrote \in 0 .. (IF answer = NULL THEN 0 ELSE answer.length + 1)
  /\ bound \in Bindings
  /\ served \in Seq(C!Request)
  /\ sent \in Seq(Piece)
  /\ written \in 0 .. MaxWrites

\* "Authority to make exactly one request": whatever its holders write, in
\* whatever order and however it is segmented, a descriptor makes the origin
\* see at most the request it was minted for, once, with the headers the
\* grant lets a client set, every injection, and a body within the cap.
OneRequestConveyed ==
  /\ Len(served) <= 1
  /\ \A i \in 1 .. Len(served) :
       /\ served[i].method = bound.method
       /\ served[i].target = bound.target
       /\ grant.injected \subseteq served[i].headers
       /\ \A h \in served[i].headers \ grant.injected : permits(grant, h)
       /\ Len(served[i].body) <= grant.max_request_body

\* A holder that never ends its head or its body cannot make the daemon hold
\* more than a limit and one read: the head's limit until there is a head, and
\* then that or the limit of the framing the head announced.
BufferBounded ==
  \/ Len(buf) <= MAX_HEAD_LEN + READ
  \/ head # NULL /\ ~ Chunked(head) /\ Len(buf) <= grant.max_request_body + READ
  \/ /\ head # NULL /\ Chunked(head)
     /\ Len(buf) <= grant.max_request_body * 2 + CHUNKED_SLACK + READ

\* Refused here, the request was not made: when the daemon answers that the
\* request was bad, forbidden or too large (400, 403, 413), the origin has
\* seen nothing.  An answer in the origin's name follows its one request.
RefusalLeavesOriginAlone ==
  \A i \in 1 .. Len(sent) :
    /\ sent[i].of.by = "daemon" /\ sent[i].of.status \in {400, 403, 413}
         => served = <<>>
    /\ sent[i].of.by = "origin" => Len(served) = 1

\* "A minted descriptor carries one request and is then closed": what is
\* written to it is the beginning of one encoded response, never of two, so
\* the length its head states is the length that follows.
OneAnswer ==
  \A i \in 1 .. Len(sent) :
    /\ sent[i] = [of |-> sent[1].of, n |-> i - 1]
    /\ i <= sent[1].of.length + 1

\* A task that returns while anybody could still be listening has written a
\* whole response, whichever way it went wrong before.
NeverSilent ==
  pc = "returned" /\ ~ PeerGone =>
    sent # <<>> /\ sent[Len(sent)].n = sent[1].of.length

\* The daemon implements the abstract capability, whatever its holders do:
\* the requests it conveys and the verdict it gives are those of module
\* Capability.
ImplementsCapability == C!Spec

\* A task does not outlive the interest in it: when every holder has closed
\* the descriptor the task ends, whatever they left unsaid.
AbandonedTaskEnds == holders = {} ~> Over

-----------------------------------------------------------------------------
(***************************************************************************)
(* What the source says and the code does not do.                          *)
(***************************************************************************)
\* "Chunk framing overhead is bounded; far past the limit means the peer is
\* not going to stop": a chunked body is refused as too large only when it
\* is larger than the grant allows.
ChunkedRefusalIsDeserved ==
  sent # <<>> /\ head # NULL /\ Chunked(head) /\ sent[1].of.status = 413 =>
    \E i \in 1 .. Len(buf) : TooLong(i) /\ AllChunks(buf, i)

\* refusal_for: "The status describes who was refused and why in policy
\* terms".  A body the grant's cap refuses is refused with 413, however it is
\* framed; 400 is for what "was not valid HTTP".
CapIsReportedAsCap ==
  sent # <<>> /\ head # NULL /\ Chunked(head) /\ sent[1].of.status = 400 =>
    ~ DecodedTooLarge(buf, grant.max_request_body)
=============================================================================
