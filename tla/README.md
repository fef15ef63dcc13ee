# capcurl in TLA+

capcurl hands out HTTP requests as file descriptors. A daemon (`capcurld`) holds
a credential and a base URI; a client asks it over a *mint channel* for one
method and one target and gets one end of a socketpair, on which it, or whoever
it passes the descriptor to, speaks HTTP/1.1 once. This directory models that
exchange, model-checks it and proves every safety property and refinement that is
checked.

Run everything from this directory: `tlc -config X.cfg M`, `tlapm M.tla`.
`PROJECT.json` lists the runs, the mutants each property is tried on, the source
lines each definition stands for, the hazards and the findings.

## The system

| Part | State | Operations | Talks to |
|---|---|---|---|
| mint, client side (`client.rs`) | bound method and target as reported, args seen | send method, target, `End`; receive args, a descriptor or an error | the daemon, over the mint channel |
| mint, daemon side (`daemon.rs` 63-175) | args received, the bound request, both ends of a socketpair | receive and check args, resolve, create the pair, report, send the descriptor, drop its own copy | the client; the grant |
| serving task (`daemon.rs` 118-346) | buffer, parsed head, body, answer | read head, check the binding, read body, filter headers, fetch, write, refuse, shut down | the descriptor's holders; the origin |
| origin leg (`upstream.rs`) | the answer read so far | send, time out, fail, cap | the origin, through reqwest |
| client of a descriptor (`exchange.rs`) | what it has written and read | write the request, read one response by its length | the serving task, over the descriptor |
| grant (`capcurl-grant`) | immutable | `resolve` with `normalize_target` and `join`, `apply_headers`, caps | called by the daemon; the URL parser |
| wire format (`capcurl-http`) | none | parse a head, decode chunks, encode a response | called by both sides |
| `capcurld` | the listener, the process's descriptors, idle origin connections | accept, spawn a task per connection; or `-1`, one session on stdin | the transport |
| `capcurl` | options | mint, request, print, exit status | the two clients above |

Sessions share the immutable grant, an HTTP client and the descriptors of the
process. But for the last two the system is the product of one *mint* and one
*exchange* per connection; `Capcurld` models what they share.

What makes it hard:

* **the daemon's peer is anybody.** A descriptor can be written by hand, shared,
  passed on and closed at any byte; reads cut the stream anywhere.
* **copies of a descriptor.** End of file arrives only when the last copy is
  closed: the daemon's own, those in flight, those of all holders.
* **no half-close.** Both sides rely on framing to know when to stop reading.
* **early answers.** The daemon refuses before the request is read to its end
  and closes, while the client is still writing.
* **failures on the origin leg.** The origin may have acted when the answer is
  late, too large or lost.
* **caps** on heads, bodies and what is buffered, each enforced in a loop the
  holder drives.
* **either side dying** at any point, with a descriptor in flight in particular.
* **two parsers of one path.** `normalize_target` rejects, the URL parser repairs,
  and the credential goes where the second one says.
* **sessions that overlap** take descriptors at three points of their lives, and
  any of these may find none left; some clients never say anything.
* **machine arithmetic** on lengths that somebody else wrote.

What makes it correct: a descriptor conveys at most the one request it was minted
for; a refusal says truly whether the origin was involved; one whole answer is
written; a client never takes part of a response for all of it; nobody waits for
ever once everybody has let go; buffers are bounded; what is reported, checked
and fetched is one request, under the base and spelled as it was granted; a body
decodes the same however it was cut; whoever connects is accepted and told
something.

## Modules

| Module | Models |
|---|---|
| `Http` | the wire: units, heads and their framing, outcomes of the chunk decoder, responses (`capcurl-http`) |
| `Grant` | header policy and caps (`capcurl-grant`) |
| `Daemon` | the serving task and the origin leg; holders are left open |
| `Holders` | `Daemon` against arbitrary holders |
| `Exchange` | `Daemon` against `request_over_fd` |
| `Capability` | abstract specification of a descriptor: `Use` once, `Tell` once |
| `ChunkedBody` | `decode_chunked` and the loop around it, byte by byte, in words |
| `Target` | `normalize_target`, what `join` assembles and what the URL parser makes of it |
| `Resolve` | `Grant::new`, `resolve`, pinning, `join`, the bound target |
| `Mint` | the handshake over one channel, descriptors in flight |
| `Capcurld` | the process: accept loop or `-1`, a task per client, descriptors |
| `Holders_proofs` | type correctness of `Holders` |
| `HoldersSafety_proofs` | its safety properties and `Spec => C!Spec` |
| `Exchange_proofs` | type correctness of `Exchange` and `Spec => H!Spec` |
| `ExchangeSafety_proofs` | its safety properties, and that it implements `Capability` |
| `Capcurld_proofs` | type correctness of `Capcurld`, and that three descriptors a client are enough |
| `Mint_proofs` | type correctness of `Mint`, and what is bound, reported, fetched, repaired and answered |
| `ChunkedBody_proofs` | type correctness of `ChunkedBody`, what the decoder decides of a stream, and of units |
| `Induction` | what the two modules above need of induction: recursive functions over `0 .. n`, `FlattenSeq` |
| `MCHolders`, `MCExchange`, `MCMint`, `MCChunkedBody`, `MCCapcurld` | values for the constants |

    Capability <== Holders (Daemon + any holder) <== Exchange (Daemon + request_over_fd)

`<==` is *is implemented by*. Both arrows are model-checked and proved
(`ImplementsCapability`, `ImplementsHolders`), so what is proved of arbitrary
holders holds for the shipped client; that `Exchange` implements `Capability` is a
theorem of its own. `ChunkedBody`
has `Http` under a substitution (`OnUnits`), and that the outcomes `Daemon` goes by
are those of the decoder on the bytes the units stand for is checked and proved
(`UnitsAgree`).

### How state and actions correspond to the code

*The stream.* A unit of `Http` is a run of bytes the parsers never tell apart: a
line of a head, the rest of a head with the head it completes, a byte of a body,
a whole chunk of one byte, the last chunk. A unit may be split by a read in the
code; between the halves the code only asks for more, so a read that returns half
a unit is a read that returns none. What every parser makes of *any* sequence of
units is defined, because a holder may write any: a last chunk ends a head
(it contains CRLFCRLF), a body byte is no chunk, and so on.

*The serving task.* `pc` names the await it is at. One action runs from an await
to the next: `HeadRead` finds the end of the head, parses, checks the binding
and either goes on or fails; `BodyRead` also applies the header policy, since
`apply_headers` follows `read_body` without an await. `Fail` is the one way a
`Result` becomes an answer (`refusal_for`). `Write` is one piece of
`write_response`: piece 0 is the head, the rest is the body.

*The socketpair.* `holders` and `theirs` are the copies of the client's end,
`up` and `down` what is buffered in each direction, bounded by `Capacity`. The
daemon sees end of file when `up` is empty and the end is shut or has no copy
left. Its writes fail once no copy is left.

*The origin leg.* `Send` puts the request in the history `served`: from then on
it may have been acted on. `FetchFails` is enabled before, during and after:
connect errors, timeouts, malformed answers. `OriginAnswers` checks the declared
length, `ReadCapped` counts what arrives.

*The mint.* `req` and `rep` are the two directions of the channel. A message of
kind `fd` in `rep` is a copy of the descriptor: `Referenced` counts it. If the
client ends, what is in flight to it goes with it; if the daemon dies, what it
sent can still be received. A client whose own descriptor table is full gets the
message without its descriptor, which the kernel has dropped, and `mint` ends in a
`Handshake` error (`ClientNoRoom`; `cpc = "no_room"`, one of the failures `IoErrors`
allows, with a failing `socketpair` or `into_stream`). After the handshake `Mint` keeps
one abstract step for the serving of the descriptor, which `Daemon` details. The client
is the only holder here: passing the descriptor on is `Delegate` of `Holders`.

*Targets.* A path is segments, cut at slashes, and a segment is parts, cut at
literal backslashes: `check_path` walks segments, `Url::parse` sees a slash in
either. A part is what percent-decoding makes of it, since both sides treat `%2e`
as a dot; `"%2F"` is any text with an escaped separator, which the parser leaves
escaped. Everything a target can be rejected for before the walk (length, bytes,
a fragment, not begun by one slash) is `form = "other"`.

*The chunk decoder.* A byte is a hex digit, CR, LF or `DATA`. `Chunk` is one turn of
the loop, with the comparisons in the order of the code, and `decode_chunked` the
state after as many turns as there may be; `plus` adds in words of
`RADIX^DIGITS` (`WORD`), so that `Size` fills a word as 16 hex digits fill 64 bits.
`got` is how much of what the holder writes has been read. `MemoryAssumption` says
that positions in the buffer are words: the code's buffer is a `Vec`, of at most
`isize::MAX` bytes, and positions are `usize`. Sizes that a client merely *writes*
are any word.

*The process.* `stage[c]` is where the task of client `c` is, and `Descriptors` what
it holds there: the channel, both ends of the socketpair, the daemon's end, the
connection to the origin; while the answer is written (`answering`), the daemon's end
alone. `Used` adds them up and `nofile` bounds them; accept, socketpair and connect
fail where there is none left. `idling` connections are the HTTP client's: an answer
read to its end may leave one behind, and the next fetch takes it. What a client sent
before it left is still read and acted on, so a session without its client may go on
as far as the origin, or end at the read or write that finds nobody (`MintEof`,
`SendFails`, `HeadEof`, `WriteFails`). Whether a request is refused before the origin leg is
up to the request (`refused`, like `denied` for the mint), not a choice a session has.

Variables `served`, `sent`, `written` and the field `by` of a response are
history: the program does not hold them.

## Runs

| Run | Question | Size |
|---|---|---|
| `holders_safety` | two holders, every kind of unit in any order, split anywhere: one request, just refusals, one answer, never silence, and the refinement of `Capability` | 1.5 M states |
| `holders_limits` | streams of a head or chunked body that do not end, and reads and writes that fail on live sockets: buffers stay bounded, the refinement still holds, and once every holder has closed the task ends | 430 k |
| `exchange_client` | the shipped client: whole answers, round trip, just refusals, which errors are possible, what exit status 0 means, the refinement of `Holders`, and that both sides finish without a half-close | 57 k |
| `mint_handshake` | proper and broken mints for every short path, at prefixes and single resources, pinned and not, deaths, failing socketpairs, a client without room for the descriptor: a mint is answered and ends, what is reported, checked and fetched is one request under the base, nothing is repaired behind the grant's back, and the task ends with its client while that is the only holder | 30 k |
| `chunked` | every stream of three pieces under every cut into reads: the decoder accepts the bodies of the grammar and no others, decides the same however the stream is cut, and agrees with `Http` | 218 k |
| `capcurld_accept` | three clients, one that may say nothing, the listener and `-1`, descriptors for a mint, a request or everybody: all are accepted, those that ask and read are told something, three descriptors a client are enough, `-1` ends | 59 k |
| `lost_refusal`, `marker`, `false_413`, `chunked_400`, `not_pinned`, `chunked_words` | findings, below | |

### Bounds

The code's sizes are scaled so that every comparison can fall either way.

* `READ` is 1 or 2 units (8192 bytes), `Capacity` 2 or 3 (a socket's buffer):
  heads and bodies arrive in one read, in several, and together; writers block.
* `MAX_HEAD_LEN` is 2 units (64 KiB): a head of two units fits, one of three that
  arrives in one piece is parsed and refused, one that does not end is cut off.
* A chunk is one byte, `CHUNK_FRAMING` its five bytes of framing; `CHUNKED_SLACK`
  (4096) is 1 or 4. The false 413 exists at the real numbers from 1025 one-byte
  chunks on, given a cap that allows as many.
* The caps are 1 or 2 bytes: bodies below, at and above them are written, declared
  and answered. Bodies of two different octets tell reordering from identity.
* `MaxWrites` (3, and 7 of the units that matter in `holders_limits`) bounds what
  holders write in all: a head, a body and one unit more, or an endless stream
  that passes every limit. It is the only bound on behaviours.
* Two holders show delegation and the last of several copies; more add nothing,
  since a holder's steps do not depend on who takes them. Symmetry is used for
  safety only
  (`holders_safety`); `holders_limits` has one holder and no symmetry.

* `MCMint` has every path of one or two segments over all parts, those with one
  backslash, and the three-part walk out of the base and back. The parser's walk
  has no more memory than the path walked so far, and the base is one segment: a
  longer path repeats what these do. Endpoints differ in each field `resolve`
  reads.
* `ChunkedBody` runs in words of 256, two digits a size, with caps 0, 2, 3 and 255
  (the largest word). Three pieces of 14 kinds reach every pair of branches of the
  loop and what follows them; `got` takes every value, so every cut is covered.
  `DecodesTheGrammar` compares with a reference in unbounded numbers (`Bodies`).
  In some of the scripts sums wrap: never into a body that is taken for complete,
  as that property shows, but into a panic, which is what `chunked_words` is about.
* `MCCapcurld` has limits 4, 5, 6 and 9 besides what the process needs for itself:
  below 3 a client every failing point is reached, at 9 `ThreeEach` applies. At a
  limit of twice the silent clients or less these may hold everything for ever,
  which `CapcurldAssumption` excludes. One client may be denied its mint and another
  refused its request, or neither.

Properties are not limited to these values where they are proved.

`Holders.Finished`, `Exchange.Finished` and `Mint.Finished` are the stuttering of
a system that is done, so that deadlock can be checked everywhere else. It is not
checked in `ChunkedBody`, which ends when `read_body` returns, and `Capcurld`, where
a killed or exited process does nothing more.

### Fairness

`WF(DaemonStep /\ ~ IoFails)` and `WF(ClientStep)`: a tokio runtime polls a task
that can make progress, a timeout of 30 s ends every fetch (`FetchFails` is a
step of the task), and kernel sockets wake their readers. I/O that fails on a
live socket (`IoFails`) may happen and is never relied on: fairness that
included it would end every wait and make `AbandonedTaskEnds` true of a daemon
that waits for its own copy of the descriptor. Nothing makes a holder act, die
or close, nor the daemon crash: `AbandonedTaskEnds` and `TaskEnds` promise an
end only once everybody has let go. The code has no timeout on the mint channel
or on the descriptor, and no property pretends otherwise.

In `Capcurld` the loop runs in `block_on` on the main thread and the tasks on the
workers of a multi-thread runtime, so a loop that spins on a failing accept does
not keep them from running: `WF(Accept)` next to `WF(Runs(c))`, what a task does
without its client. Idle connections are closed by the HTTP client (`CloseIdle`).
`WF(Asked(c))` is the client doing its part, reading its answer included, and is
assumed only of those that are not in `Idle`. The steps of `Asked(c)` exclude one
another, so that it promises nothing of a step that waits for a descriptor: the mutant
of `EveryoneIsTold` lets the connection to the origin wait. `EveryoneIsAccepted` needs
`WF(Accept)` only, since `Used < nofile` is stable until somebody takes the descriptor,
and no more than the tasks there are take one.

## Proofs

`HoldersSafety_proofs` proves for every grant, binding, origin, buffer size, read
size, alphabet of holders' units and set of holders, including infinite ones:

| Theorem | Extra assumption |
|---|---|
| `TypeCorrect`: `Spec => []TypeOK` | |
| `OneRequestConveyedCorrect` | |
| `BufferBoundedCorrect` | |
| `RefusalLeavesOriginAloneCorrect` | |
| `OneAnswerCorrect`, `NeverSilentCorrect` | `~IoErrors` |
| `ImplementsCapabilityCorrect`: `Spec => C!Spec` | |

They assume `HttpAssumption`, `DaemonAssumption` and `HoldersAssumption`: the
constants have their types, `NULL` is none of the values it stands in for,
buffers and reads are not of size zero.

The inductive invariant is a conjunction of parts, each needed for a reason:

* `PcInv`: what each await knows to be there (a parsed head, an answer). Without
  it `TypeOK` is not inductive, as the fields of `NULL` would be read.
* `ServedInv`: up to `Send` the origin has seen nothing, and at `send` the body is
  within the cap and the headers are permitted. `OneRequestConveyed` alone does
  not forbid a state at `send` after one request.
* `BufferInv`: each loop's limit, at its own `pc`. A bound on the buffer alone does
  not survive one more read.
* `RefusalInv`: the answer being written is just and nothing was written before it
  was chosen. `RefusalLeavesOriginAlone` speaks only of what is already sent.
* `AnswerInv`: while somebody can listen, what was sent is exactly the first
  `wrote` pieces of `answer`. `PeerGoneStable`, nobody takes up a descriptor
  that everybody let go of, is what makes it inductive: a relay whose peer left
  turns into a refusal, of which nothing can then be written.

The refinement maps `served` to `requests` and the first piece sent to `verdict`.
`CapabilityUse`, `CapabilityTell` and `CapabilityStutters` are its three cases;
they use the invariants at both ends of the step.

`OneAnswer` without `~IoErrors` is false: a relay that fails half-way on a socket
still open is followed by a refusal on the same stream, whose bytes complete the
promised length. It takes a write that fails for another reason than a closed
peer, which a local socket hardly does, so it is an assumption here and no
finding. `ImplementsCapability` holds all the same, since the abstract
specification speaks of the first head.

`Mint_proofs` proves for every set of endpoints, of requests and of other scripts,
whatever words and targets there are, with both sides ending at any point and
`socketpair` failing or not:

| Theorem | What of the code it is about |
|---|---|
| `TypeCorrect`: `Spec => []TypeOK` | two arguments at most, a URL only with a minted request |
| `ReportIsBindingCorrect` | the report to the client, the comparison in `serve_request` and the URL are three computations of one request |
| `ConfinedCorrect` | `join` re-checks what the parser made of the URL |
| `NothingRepairedCorrect` | what `normalize_target` let pass, encoded separators refused, is fetched as it was written, up to how a character is percent-encoded |
| `MintIsAnsweredCorrect` | "Answer anyway": a proper mint ends without descriptor or reason only where the daemon died or had no descriptors, or where it was told its whole binding and had no room itself |

They assume `TargetAssumption`, `ResolveAssumption` and `MintAssumption`: the
constants have their types, the endpoints are such as `Grant::new` accepts, `NULL` is
no word, target or request, and a client that is not `mint()` sends two messages at
least (one that stops earlier is one that has not sent the rest yet). `ConfinedCorrect`
says nothing of how the URL parser walks a path: it rests on the check after it alone.
`NothingRepairedCorrect` is about that walk.

The parts of this inductive invariant:

* `ReqInv`: what the daemon has read and what is in flight to it are the client's
  messages in order. `args` alone says nothing of which messages they were.
* `BoundInv`: `minted` is `NULL` until `MintGranted`, and then everything `resolve`
  established of it (`Justified`) stays true.
* `RepInv`: while the client waits, each reply in flight is the one its place calls
  for (`Reply`), and the daemon's `pc` says how many there are (`Counted`). A daemon that
  returned has left a last word, so the end of the channel is never all there is.
* `SeenInv`: what the client was told up to here is part of the binding, and all of it
  once the message with the descriptor is there, taken or not.
* `ProperInv`: the daemon does not end a proper mint before its third message, which
  is what rules out a client whose send fails on a live daemon.

`NothingRepaired` needs no more of the handshake than `BoundInv`, but it needs to know
what a fold over a path of any length comes to. `Walking` gives the path after every
part (`Recursion`, below), and `NoDots` shows that one without dots is walked as it is
written. The target has none because `check_path` let it pass (`Checked`), and the base
has none because `Grant::new` took it from a parsed URL, which the parser leaves as it
is, and it would not leave dots (`DotsGo`). `Unrepaired` puts these together.

`Exchange_proofs` and `ExchangeSafety_proofs` prove for every request head and body,
grant, binding and origin, every buffer and read size, with the client dying
or the daemon crashing at any point:

| Theorem | Extra assumption |
|---|---|
| `TypeCorrect`, `ImplementsHoldersCorrect`: `Spec => H!Spec` | |
| `ImplementsCapabilityCorrect`: `Spec => H!ImplementsCapability` | |
| `RoundTripCorrect` (the request, and of the answer its status, length, end-to-end headers and cap), `ZeroIsAnAnswerCorrect` | |
| `WholeAnswerCorrect`, `RefusalIsJustCorrect`, `OnlyRacedRefusalsAreLostCorrect` | `~IoErrors` |

They assume what `HoldersSafety_proofs` does and `ExchangeAssumption`: the caller's
header names are in the alphabet and so is `host`, which the client adds; a byte
has a value; the daemon takes heads of two units (`MAX_HEAD_LEN`, 64 KiB, against
the few hundred bytes of a request line); a refusal fits a socket's buffer.

The client is shown to be one of the holders: each of its steps is a step of a
holder (`StepIsHolders`), and `HoldersAssumptions` discharges the assumptions of
`Holders` at the client's alphabet. `HP`, the instance of `HoldersSafety_proofs` at
that mapping, then carries `ServedInv`, `RefusalInv` and `AnswerInv` over without
proving them again, and `CapabilityStep`, which makes the two refinements one. `SameMoves` to `SameServe` say that an action of `Daemon` is the
same action in all three modules that take it up; they follow by expanding both.

The parts of this inductive invariant, all checked on the instance of
`exchange_client`, with `IoErrors` and without, before they were proved:

* `StreamInv`, `TakenInv`: what was read, what is buffered and what is in flight are,
  one behind the other, what was written. The properties compare the two ends of a
  stream; a step in the middle preserves nothing they speak of.
* `HeadInv`: the head the daemon has parsed is the client's and is one it accepts.
* `OriginInv`: at `send` the body is the client's whole body, and the client has
  written all of it. What was served is then `OwnRequest`.
* `CauseInv`: the answer chosen, and every piece sent, is in `Explained`: the origin's
  answer, or a refusal whose cause is there in the request. `RefusalIsJust` and `RoundTrip` speak of
  the response read, which is sent long after its cause was looked at.
* `ShutInv`, `SeenInv`, `LostInv`: the daemon closes only as it ends, answers only once it
  has seen the whole head, and the client is in an error for one of three reasons.
  Without `SeenInv` the daemon might have refused, and closed, while the client was
  still at its head, which `OnlyRacedRefusalsAreLost` would not survive.

Only the last three and `AnswerInv` need `~IoErrors`. With failing sockets the 500 of
`CauseInv` is a status `RefusalIsJust` does not have, and a relay that failed half-way
is not whole.

`Capcurld_proofs` proves for every finite set of clients, any limits on descriptors, any
denials and refusals:

| Theorem | What of the code it is about |
|---|---|
| `TypeCorrect`: `Spec => []TypeOK` | the queue holds who waits in it, once; no step takes a descriptor there is not |
| `ThreeEachCorrect` | the descriptors `serve_connection`, `fetch` and the pool take and return |

They assume `CapcurldAssumption`, of which the proofs use that `Client` is finite,
that the limits are numbers that leave one descriptor at least, and that `NULL` is
nothing a client hears.

`ThreeEach` bounds what is held now by the number of clients there will be. It needs
`IdleInv`: every idle connection was left by a session that has its answer or is over,
so it can be charged to a client that holds two descriptors at most. `Room` does the
counting: what is held, the third descriptor of each such client, and the rest of the
three of one that has no answer yet are disjoint parts of `Client \X 1..3`. All of this
counts one descriptor for a fetch (below). `HeardInv` adds that with so
many nobody was cut off earlier. `Moves` says what a step of one task does to the count.

`ChunkedBody_proofs` proves for every set of streams, every limit, every radix and number
of digits, and every way to cut a stream into reads:

| Theorem | What of the code it is about |
|---|---|
| `TypeCorrect`: `Spec => []TypeOK` | what is returned lies within what was read, also where sums wrap |
| `CutsDoNotMatterCorrect` | `read_body` decodes again from the start after each read, and may |
| `DecodesTheGrammarCorrect` | no body is made up, and none within the limit is missed |
| `UnitsAgreeCorrect` | on any number of units, `decode_chunked` does with their bytes what `Http` says of the units |
| `OneOutcome` | no two of the outcomes `Http` states one by one hold of one buffer |

They assume `ChunkedBodyAssumption`; `DecodesTheGrammarCorrect` and
`UnitsAgreeCorrect` also assume `MemoryAssumption`.

* `CutsDoNotMatter` rests on every turn being stable: a turn that does not ask for more
  comes to the same when more bytes lie behind (`ChunkFacts`, from `FindSame` and
  `SliceSame`). `DecodedSame` carries this through the loop, whose number of turns
  depends on the length of what it is given: a decoder that has ended stays where it is.
* `DecodesTheGrammar` relates two recursions that run in opposite directions, the loop,
  which builds a body from the front, and the grammar, which has the bodies that may
  follow a position. The loop's invariant is `Keeps`: the bodies of the whole stream
  within the limit are what was taken so far with whatever may follow `pos` (`Behind`).
  A position has at most one first line, since a line has no CRLF in it (`LinesFacts`).
* The sums that may wrap, `body.len() + size`, `at + size` and `+ 2`, are each compared
  before they are used. `Sound` has the body no longer than the bytes it came in, so a
  sum that wraps belongs to a chunk whose end lies behind the buffer, where the grammar
  has no body either; `PlusCases` says that a wrapped sum falls short by a whole word.
  What the theorem allows, and `chunked_words` shows, is that such a chunk ends in a
  panic.
* `UnitsAgree` relates a loop over bytes to predicates on units that have no loop: each
  is about the first unit that is no chunk, wherever it lies. `Stops` names that place,
  the decoder's last turn, and `Stopping` finds it. `Stream` says where each unit's bytes
  are (from `Placing`). Over the chunks in front the loop's invariant is `Taken`: as
  many turns as chunks, `pos` at the end of the last and a byte of body for each
  (`AllTaken`). What the turn after that does depends on what comes next, which is one
  of four things (`Nexts`): `ChunkUnit`, `LastUnit`, `BadUnit` and `MoreUnits` say what
  `decode_chunked` makes of each, `UnitOutcomes` what `Http` does, and
  `StaysEnded` that no later turn matters. A unit that begins no chunk is bad only with
  the next CR, which may lie in a unit far behind it (`OctetsRun`): that is the
  condition a reader of `BadChunk` would doubt.

`Induction` has what the provers lack. The library's induction theorems take an operator
as a parameter, which none of the provers can instantiate; those on sets can be used.
`Least` is the least element of a set of numbers (well-foundedness of `<`), `UpTo` is
induction over `0 .. n` for a *set* of numbers, and `Recursion` proves that a function
defined by its value at 0 and a step exists on `0 .. n`, so that what a recursive
function or a fold computes can be reasoned about. `Flattening`, `Beginnings`, `Placing`
and `FlattenOnes` are what they say of `FlattenSeq`: what it makes of each beginning of
a sequence, and where in the whole it puts which element.

Model-checked only is liveness (`ClientFinishes`, `TaskFinishes`, `AbandonedTaskEnds`, `MintEnds`, `TaskEnds`,
`EveryoneIsAccepted`, `EveryoneIsTold`, `OneShotExits`), which needs ENABLED.

## Findings

Each is a sentence of the source that the code does not keep, with the run that
shows it.

* `lost_refusal`: a refusal written while the client writes its body is lost. The
  client's write fails with EPIPE and it returns an i/o error without reading.
  `OnlyRacedRefusalsAreLost` shows that this, the daemon's death, and an answer whose
  head is over 64 KiB are the only ways the shipped client ends in an error while
  sockets work.
* `marker`: an origin's own `X-Capcurl-Refused` header is relayed, and `refused` is
  set for an answer the daemon relayed.
* `false_413`: a chunked body within the cap is refused as too large when its
  chunks are small, because framing counts against twice the cap plus 4096.
* `chunked_400`: a chunked body over the cap is a 400, one with a length a 413.
* `not_pinned`: `capcurl` announces a pinned endpoint when it only upper-cased the
  method.
* `chunked_words`: behind a body, a chunk size at the end of the 64-bit range wraps
  the sums of `decode_chunked`; the decoder then neither completes, asks for more nor
  rejects, but panics, and the task ends without an answer.

One more sentence was found not to hold in full while modelling and has no run of
its own. Of `Denied::Escape` it is said (`lib.rs:74-75`) "Defence in depth: the checks
in [`target`] should make this unreachable". `NothingRepaired` shows that this is
so while encoded separators are refused. With `allow_encoded_separators` a segment
may also hold a literal backslash (`target.rs:136` tests both with one option),
which the URL parser takes for a slash, so that dots behind it are resolved after
`check_path` has passed the segment. It is then the re-check in `join` that denies
the request, and `Confined` shows that it always does.

## Not modelled

* The scanning of one line: request line, header lines, Content-Length values. A
  head with a line that does not scan is `NULL`. These functions have no state and
  no loop whose iterations interact; what is made of the lines is in `Http`.
* Percent-decoding itself: a part of a target is its result, and how a character was
  spelled is not told apart.
* What reqwest does with descriptors besides one connection for a fetch: attempts to
  connect to two addresses at once, the sockets of name resolution.
  `ThreeEach` and the limits of `Capcurld` count one for a fetch.
* Failures of the mint channel other than a peer that closed or died, and a descriptor
  lost for another reason than a full table.
* `SHUT_RD` by a holder. A reset, which Linux reports to a reader when its peer
  closed with unread data, is not told from end of file: both are errors there.
* Header values and duplicates: a header is its name. `serve_request` drops an origin's
  header whose value is not visible ASCII (`daemon.rs:222`), which is left out with the
  values.
* The multiplexing transport of another zone, option parsing, the files that
  `Injection::parse` reads at start-up, output. `examples/mint.py` is one more client:
  `OtherScript` and the holders of `Holders` include it.

## Plan

1. `Session`: `Mint` composed with `Exchange`, the descriptor handed over for
   real and the client's death between the two. Both refer to it abstractly now:
   `ServeHolder` in one, `holders = {Client}` in the other.
2. Proofs: every safety property and refinement the runs check has its theorem; what
   `Session` adds would come next, carried over from `Mint_proofs` and
   `ExchangeSafety_proofs` the way `HP` carries over what is known of any holders.
