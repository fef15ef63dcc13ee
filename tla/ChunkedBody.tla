----------------------------- MODULE ChunkedBody ----------------------------
(***************************************************************************)
(* decode_chunked (crate capcurl-http) byte by byte and in machine words,  *)
(* and the loop of read_body that runs it again after every read.  Module  *)
(* Http has the same decoder on units, which is what Daemon reads.         *)
(***************************************************************************)
EXTENDS Naturals, SequencesExt, FiniteSetsExt

CONSTANTS
  RADIX,    \* a hex digit is a byte below RADIX (16 in the code)
  DIGITS,   \* how many of them a size may have (16)
  SLACK,    \* what read_body adds to twice the limit (4096)
  Scripts,  \* what holders write, in the pieces it is made of
  Limits    \* caps on a body

CR == RADIX
LF == RADIX + 1
DATA == RADIX + 2  \* any byte that is no digit, CR or LF; `;' is one
CRLF == <<CR, LF>>

Byte == 0 .. DATA

powers[i \in 0 .. DIGITS] == IF i = 0 THEN 1 ELSE RADIX * powers[i - 1]

WORD == powers[DIGITS]  \* u64 and usize hold less than this

ASSUME ChunkedBodyAssumption ==
  /\ RADIX \in Nat \ {0, 1} /\ DIGITS \in Nat \ {0} /\ SLACK \in Nat
  /\ Scripts \subseteq Seq(Seq(Byte)) /\ Limits \subseteq 0 .. WORD - 1

\* What is written, and could be read, fits an address space.
ASSUME MemoryAssumption == \A s \in Scripts : Len(FlattenSeq(s)) + 2 < WORD

-----------------------------------------------------------------------------
(***************************************************************************)
(* chunked.rs.  Positions count from 0, as in the code.                    *)
(***************************************************************************)
slice(input, from, to) == SubSeq(input, from + 1, to)

\* Where the first CRLF from `from' on lies, Len(input) if nowhere.
find_crlf(input, from) ==
  Min({i \in from .. Len(input) - 2 : slice(input, i, i + 2) = CRLF}
        \union {Len(input)})

Size(line) ==
  LET size[i \in 0 .. Len(line)] ==
        IF i = 0 THEN 0 ELSE RADIX * size[i - 1] + line[i]
  IN  size[Len(line)]

IsSize(line) ==
  /\ Len(line) \in 1 .. DIGITS
  /\ \A i \in DOMAIN line : line[i] < RADIX

\* Sums wrap: the release build does not check them.
plus(a, b) == (a + b) % WORD

\* Where the decoder is: the next chunk begins at pos.
Going(pos, body) == [is |-> "going", pos |-> pos, body |-> body]

Ended(as, s) == [s EXCEPT !.is = as]

\* Mutant: a byte too many is consumed.
LastChunkAndMore(input, at, s) ==
  LET eol == find_crlf(input, at)
  IN  IF eol = Len(input) THEN Ended("more", s)
      ELSE IF eol = at THEN [Ended("complete", s) EXCEPT !.pos = at + 3]
      ELSE Ended("bad", s)

\* Mutant: a trailer is skipped.
LastChunkWithTrailer(input, at, s) ==
  LET eol == find_crlf(input, at)
  IN  IF eol = Len(input) THEN Ended("more", s)
      ELSE [Ended("complete", s) EXCEPT !.pos = eol + 2]

\* After the zero chunk: no trailer, just the final CRLF.
LastChunk(input, at, s) ==
  LET eol == find_crlf(input, at)
  IN  IF eol = Len(input) THEN Ended("more", s)
      ELSE IF eol = at THEN [Ended("complete", s) EXCEPT !.pos = at + 2]
      ELSE Ended("bad", s)

\* Mutant: the CRLF behind the chunk need not have arrived.
ChunkDataOnly(input, at, size, s) ==
  LET stop == plus(at, size)
  IN  IF Len(input) < stop THEN Ended("more", s)
      ELSE IF stop < at THEN Ended("panic", s)
      ELSE IF ~ IsPrefix(CRLF, slice(input, stop, Len(input)))
           THEN Ended("bad", s)
      ELSE Going(plus(stop, 2), s.body \o slice(input, at, stop))

\* A chunk whose size is within the limit.  A slice that begins behind its
\* end panics.
ChunkData(input, at, size, s) ==
  LET stop == plus(at, size)
      next == plus(stop, 2)
  IN  IF Len(input) < next THEN Ended("more", s)
      ELSE IF next < stop THEN Ended("panic", s)
      ELSE IF slice(input, stop, next) # CRLF THEN Ended("bad", s)
      ELSE IF stop < at THEN Ended("panic", s)
      ELSE Going(next, s.body \o slice(input, at, stop))

\* Mutant: a body of the limit is too large.
ChunkBelowLimit(input, limit, s) ==
  LET eol  == find_crlf(input, s.pos)
      line == slice(input, s.pos, eol)
  IN  IF eol = Len(input) THEN Ended("more", s)
      ELSE IF ~ IsSize(line) THEN Ended("bad", s)
      ELSE IF Size(line) = 0 THEN LastChunk(input, eol + 2, s)
      ELSE IF plus(Len(s.body), Size(line)) >= limit THEN Ended("large", s)
      ELSE ChunkData(input, eol + 2, Size(line), s)

\* One turn of the loop of decode_chunked.
Chunk(input, limit, s) ==
  LET eol  == find_crlf(input, s.pos)
      line == slice(input, s.pos, eol)
  IN  IF eol = Len(input) THEN Ended("more", s)
      ELSE IF ~ IsSize(line) THEN Ended("bad", s)
      ELSE IF Size(line) = 0 THEN LastChunk(input, eol + 2, s)
      ELSE IF plus(Len(s.body), Size(line)) > limit THEN Ended("large", s)
      ELSE ChunkData(input, eol + 2, Size(line), s)

Turn(input, limit, s) ==
  IF s.is = "going" THEN Chunk(input, limit, s) ELSE s

\* The whole loop: a turn takes five bytes or is the last.
decode_chunked(input, limit) ==
  LET after[n \in 0 .. Len(input) + 1] ==
        IF n = 0 THEN Going(0, <<>>) ELSE Turn(input, limit, after[n - 1])
  IN  after[Len(input) + 1]

-----------------------------------------------------------------------------
(***************************************************************************)
(* daemon.rs: read_body, Framing::Chunked.                                 *)
(***************************************************************************)
VARIABLES
  script,   \* what the holder writes, before it closes or falls silent
  limit,    \* the cap on the body
  got,      \* how many bytes of it are in buf; what came with the head counts
            \* as the first read
  returned  \* what read_body has returned: a final state of the decoder,
            \* "over" for too many bytes, "eof"; or "going"

vars == <<script, limit, got, returned>>

input == FlattenSeq(script)

decoded == decode_chunked(slice(input, 0, got), limit)

saturating(n) == IF n < WORD THEN n ELSE WORD - 1

Overrun == got > saturating(saturating(2 * limit) + SLACK)

Loops == returned.is = "going"

Returns(s) == returned' = s /\ UNCHANGED <<script, limit, got>>

\* The decoder has come to an end.
Decides == Loops /\ decoded.is # "more" /\ Returns(decoded)

TooManyBytes ==
  Loops /\ decoded.is = "more" /\ Overrun /\ Returns(Ended("over", decoded))

Read ==
  /\ Loops /\ decoded.is = "more" /\ ~ Overrun
  /\ got' \in got + 1 .. Len(input)
  /\ UNCHANGED <<script, limit, returned>>

Eof ==
  /\ Loops /\ decoded.is = "more" /\ ~ Overrun /\ got = Len(input)
  /\ Returns(Ended("eof", decoded))

Init ==
  /\ script \in Scripts /\ limit \in Limits
  /\ got = 0
  /\ returned = Going(0, <<>>)

Next == Decides \/ TooManyBytes \/ Read \/ Eof

Spec == Init /\ [][Next]_vars

-----------------------------------------------------------------------------
(***************************************************************************)
(* Properties                                                              *)
(***************************************************************************)
\* The variables keep their types; a body is no longer than what was read.
TypeOK ==
  /\ script \in Scripts /\ limit \in Limits /\ got \in 0 .. Len(input)
  /\ returned.is \in {"going", "complete", "bad", "large", "panic", "over",
                      "eof"}
  /\ returned.body \in Seq(Byte) /\ returned.pos \in 0 .. got

Ends(bytes, q) == q + 2 <= Len(bytes) /\ slice(bytes, q, q + 2) = CRLF

\* What decodes at position p if its first line has n digits, `at' being what
\* decodes behind it: nothing more than the zero chunk and CRLF, or a chunk.
Decode(bytes, p, n, at) ==
  LET from == p + n + 2
      size == Size(slice(bytes, p, p + n))
  IN  IF size = 0
      THEN IF Ends(bytes, from) THEN {<<>>} ELSE {}
      ELSE IF ~ Ends(bytes, from + size) THEN {}
      ELSE {slice(bytes, from, from + size) \o rest :
              rest \in at[from + size + 2]}

\* The bytes that decode from the start, by the grammar and in unbounded
\* numbers.
Bodies(bytes) ==
  LET lines(p) == {n \in 1 .. DIGITS : /\ Ends(bytes, p + n)
                                       /\ IsSize(slice(bytes, p, p + n))}
      at[p \in 0 .. Len(bytes)] ==
        UNION {Decode(bytes, p, n, at) : n \in lines(p)}
  IN  at[0]

\* What decode_chunked calls a complete body is one by the grammar, and it
\* finds every one that is within the limit, whatever is written behind it.
DecodesTheGrammar ==
  Loops => {body \in Bodies(slice(input, 0, got)) : Len(body) <= limit}
             = IF decoded.is = "complete" THEN {decoded.body} ELSE {}

\* However the stream is cut into reads, what is decided of the bytes that
\* have arrived is what would be decided of all of them.
CutsDoNotMatter ==
  returned.is \in {"complete", "bad", "large", "panic"} =>
    returned = decode_chunked(input, limit)

\* Module Http's outcomes on units are those of the decoder on their bytes.
\* A unit is a piece of a script; what a piece is not is NULL here.
Units == [octet |-> <<DATA>>, line |-> <<DATA, CR, LF>>,
          end |-> <<DATA, CR, LF, CR, LF>>,
          chunk |-> <<1, CR, LF, DATA, CR, LF>>,
          last |-> <<0, CR, LF, CR, LF>>]

OnUnits == INSTANCE Http WITH
  Method <- {}, Target <- {}, Header <- {}, ResponseHeader <- {},
  Octet <- {DATA}, NULL <- <<>>, Canonical <- <<>>, MAX_HEAD_LEN <- 0,
  CHUNK_FRAMING <- 5

UnitsAgree ==
  \A n \in 0 .. Len(script) :
    LET pieces == SubSeq(script, 1, n)
        kind(i) == CHOOSE k \in DOMAIN Units : Units[k] = pieces[i]
        buf == [i \in 1 .. n |-> [kind |-> kind(i), octet |-> DATA,
                                  head |-> <<>>]]
    IN  /\ Loops /\ got = Len(FlattenSeq(pieces))
        /\ ToSet(pieces) \subseteq {Units[k] : k \in DOMAIN Units}
        => /\ decoded.is = "complete" <=>
                \E l \in 0 .. n : /\ OnUnits!DecodesTo(buf, l, limit)
                                  /\ decoded.body = OnUnits!Octets(buf, l)
           /\ decoded.is = "large" <=> OnUnits!DecodedTooLarge(buf, limit)
           /\ decoded.is = "bad" <=> OnUnits!BadChunk(buf, limit)
           /\ decoded.is = "more" <=> OnUnits!NeedMore(buf, limit)

-----------------------------------------------------------------------------
(***************************************************************************)
(* What the source says and the code does not do.                          *)
(***************************************************************************)
\* "it either finds a complete chunked body, asks for more bytes, or rejects"
Answers == returned.is # "panic"
=============================================================================
