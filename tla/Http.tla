-------------------------------- MODULE Http --------------------------------
(***************************************************************************)
(* The HTTP/1.1 subset spoken on a minted descriptor (crate capcurl-http). *)
(*                                                                         *)
(* The wire is a sequence of units.  A unit is a run of bytes the parsers  *)
(* never split differently: what they tell apart is where a head ends,     *)
(* whether it parses, how it frames the body, and where chunks lie.        *)
(***************************************************************************)
EXTENDS Naturals, Sequences, FiniteSets

CONSTANTS
  Method,          \* method tokens, spelled as a client may send them
  Target,          \* request-targets
  Header,          \* request header names, in lower case
  ResponseHeader,  \* response header names, in lower case
  Octet,           \* values of a body byte
  NULL,            \* a head that does not parse, or a value not there yet
  Canonical,       \* a method in upper case, as a function
  MAX_HEAD_LEN,    \* units a head may occupy (64 KiB in the code)
  CHUNK_FRAMING    \* bytes that frame a one-byte chunk: "1" CRLF, CRLF

ASSUME HttpAssumption ==
  /\ Canonical \in [Method -> Method]
  /\ MAX_HEAD_LEN \in Nat
  /\ CHUNK_FRAMING \in Nat

(***************************************************************************)
(* Request heads.  `lengths' are the values of the Content-Length fields,  *)
(* `codings' the number of Transfer-Encoding: chunked fields.  A head with *)
(* a malformed line, length or other coding is NULL.                     *)
(***************************************************************************)
RequestHead == [method : Method, target : Target, headers : SUBSET Header,
                lengths : SUBSET Nat, codings : Nat]

\* framing_of: every way of stating two framings is an error.
ConflictingFraming(h) ==
  \/ \E m, n \in h.lengths : m # n
  \/ h.codings > 1
  \/ h.codings = 1 /\ h.lengths # {}

Chunked(h) == h.codings = 1

\* Content-Length: 0 and no framing at all are both Framing::None.
NoBody(h) == h.codings = 0 /\ h.lengths \subseteq {0}

HasLength(h, n) == h.codings = 0 /\ n \in h.lengths /\ n > 0

(***************************************************************************)
(* Units of the request stream:                                            *)
(*   line   one line of a head, or its beginning                           *)
(*   end    the rest of a head, up to and including CRLFCRLF; it carries   *)
(*          the head it completes                                          *)
(*   octet  a byte that is no token, hex digit, CR or LF                   *)
(*   chunk  a whole one-byte chunk                                         *)
(*   last   the zero chunk and the final CRLF (it contains CRLFCRLF)       *)
(***************************************************************************)
UnitKind == {"line", "end", "octet", "chunk", "last"}

Unit == [kind : UnitKind, octet : Octet, head : RequestHead \union {NULL}]

\* find_head_end: the head in buf ends with its e-th unit.
EndsHead(u) == u.kind \in {"end", "last"}

HeadEndsAt(buf, e) ==
  /\ e \in 1 .. Len(buf)
  /\ EndsHead(buf[e])
  /\ \A i \in 1 .. e - 1 : ~ EndsHead(buf[i])

\* RequestHead::parse of the first e units.
Parses(buf, e) ==
  /\ e <= MAX_HEAD_LEN
  /\ buf[e].kind = "end"
  /\ \A i \in 1 .. e - 1 : buf[i].kind = "line"
  /\ buf[e].head # NULL
  /\ ~ ConflictingFraming(buf[e].head)
  /\ "upgrade" \notin buf[e].head.headers

(***************************************************************************)
(* decode_chunked, one operator per outcome.  The decoder walks whole      *)
(* chunks from the front and stops at the first thing that is not one.     *)
(***************************************************************************)
AllChunks(buf, n) == \A i \in 1 .. n : buf[i].kind = "chunk"

\* ChunkedOutcome::Complete with a body of n bytes.
DecodesTo(buf, n, limit) ==
  /\ n < Len(buf) /\ n <= limit
  /\ AllChunks(buf, n)
  /\ buf[n + 1].kind = "last"

\* HttpError::BodyTooLarge: the chunk that would pass the limit is seen.
DecodedTooLarge(buf, limit) ==
  limit < Len(buf) /\ AllChunks(buf, limit + 1)

\* HttpError::BadChunk.  Bytes that are no hex digits are an error only
\* once the CRLF that ends their line has arrived.
BadChunk(buf, limit) ==
  \E n \in 0 .. Len(buf) - 1 :
    /\ n <= limit
    /\ AllChunks(buf, n)
    /\ buf[n + 1].kind \notin {"chunk", "last"}
    /\ \E j \in n + 1 .. Len(buf) : buf[j].kind # "octet"

NeedMore(buf, limit) ==
  /\ ~ DecodedTooLarge(buf, limit)
  /\ ~ BadChunk(buf, limit)
  /\ \A n \in 0 .. Len(buf) : ~ DecodesTo(buf, n, limit)

\* Bytes on the wire, where the framing of a chunk counts.
RawLen(buf) ==
  Len(buf) +
    CHUNK_FRAMING * Cardinality({i \in 1 .. Len(buf) : buf[i].kind = "chunk"})

Octets(buf, n) == [i \in 1 .. n |-> buf[i].octet]

(***************************************************************************)
(* Responses.  `by' says who composed the response; it is not on the wire, *)
(* where only the X-Capcurl-Refused marker hints at it.                    *)
(***************************************************************************)
REFUSED == "x-capcurl-refused"

Response == [by : {"origin", "daemon"}, status : Nat,
             headers : SUBSET ResponseHeader, length : Nat]

HOP_BY_HOP == {"connection", "content-length", "keep-alive",
  "proxy-authenticate", "proxy-authorization", "proxy-connection", "te",
  "trailer", "transfer-encoding", "upgrade"}

is_hop_by_hop(name, nominated) == name \in HOP_BY_HOP \union nominated

\* ResponseHead::encode and the body: piece 0 is the head, which states the
\* length, pieces 1 to length are the bytes of the body.
Piece == [of : Response, n : Nat]

Encode(r) == [i \in 1 .. r.length + 1 |-> [of |-> r, n |-> i - 1]]
=============================================================================
