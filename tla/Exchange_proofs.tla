--------------------------- MODULE Exchange_proofs ---------------------------
(***************************************************************************)
(* Proofs about the daemon and the shipped client: the types, and that the *)
(* client is one of the holders of module Holders, so that what is proved  *)
(* of any holders holds of it.                                             *)
(***************************************************************************)
EXTENDS Exchange, SequenceTheorems, TLAPS

\* The theorems about arbitrary holders, for this one.
HP == INSTANCE HoldersSafety_proofs WITH
        HolderUnit <- ClientUnit, MaxWrites <- grant.max_request_body + 3,
        written <- put

(***************************************************************************)
(* What is known of the client alone.                                      *)
(***************************************************************************)
\* It is the one holder, until it is over, and does not half-close.
HolderInv ==
  /\ holders = IF ClientOver THEN {} ELSE {Client}
  /\ half = FALSE

AskInv ==
  /\ load \in Seq(Octet) /\ Len(load) <= grant.max_request_body + 1
  /\ \E h \in ClientHead : ask = WithLength(h, Len(load))

\* What it is at, and what it has written and read by then.
ClientInv ==
  /\ cpc \in {"write", "read_head", "read_body", "ok", "err", "dead"}
  /\ put \in 0 .. Len(RequestUnits)
  /\ taken \in Seq(Piece)
  /\ cpc \in {"read_head", "read_body", "ok"} => put = Len(RequestUnits)
  /\ cpc \in {"write", "read_head"} => taken = <<>>
  /\ cpc \in {"read_body", "ok"} => taken # <<>>
  /\ cpc = "ok" => Len(taken) = Response1.length + 1

TypeInv == HolderInv /\ AskInv /\ ClientInv

-----------------------------------------------------------------------------
(***************************************************************************)
(* The daemon of this module is the daemon of module Holders: every action *)
(* of the one is the action of the same name of the other.  It is one text *)
(* that module Daemon states and three modules take up, so each of these   *)
(* follows from the definitions alone.                                     *)
(***************************************************************************)
\* Moves of the task alone.
LEMMA SameMoves ==
  /\ DropTheirs => H!DropTheirs /\ HP!DropTheirs
  /\ StreamFails => H!StreamFails /\ HP!StreamFails
  /\ Written => H!Written /\ HP!Written
  /\ Shutdown => H!Shutdown /\ HP!Shutdown
  /\ Drop => H!Drop /\ HP!Drop
  /\ Crash => H!Crash /\ HP!Crash
BY DEF socket, reading, request, origin, writing, DropTheirs, StreamFails,
       Answering, AfterAnswer, Written, Shutdown, Drop, Over, Crash, H!socket,
       H!reading, H!request, H!origin, H!writing, H!DropTheirs, H!StreamFails,
       H!Answering, H!AfterAnswer, H!Written, H!Shutdown, H!Drop, H!Over,
       H!Crash, HP!socket, HP!reading, HP!request, HP!origin, HP!writing,
       HP!DropTheirs, HP!StreamFails, HP!Answering, HP!AfterAnswer, HP!Written,
       HP!Shutdown, HP!Drop, HP!Over, HP!Crash

\* read_head.
LEMMA SameHead ==
  /\ ReadHead => H!ReadHead /\ HP!ReadHead
  /\ HeadEof => H!HeadEof /\ HP!HeadEof
  /\ HeadTooLarge => H!HeadTooLarge /\ HP!HeadTooLarge
  /\ HeadRead => H!HeadRead /\ HP!HeadRead
BY DEF ConflictingFraming, EndsHead, HeadEndsAt, Parses, REFUSED, socket,
       reading, request, origin, writing, StatusOf, Refusal, Fail, PeerGone,
       AtEof, ReadSize, Read, ReadEof, HeadPending, HeadOverrun, ReadHead,
       HeadEof, HeadTooLarge, MatchesBinding, HeadRead, H!ConflictingFraming,
       H!EndsHead, H!HeadEndsAt, H!Parses, H!REFUSED, H!socket, H!reading,
       H!request, H!origin, H!writing, H!StatusOf, H!Refusal, H!Fail,
       H!PeerGone, H!AtEof, H!ReadSize, H!Read, H!ReadEof, H!HeadPending,
       H!HeadOverrun, H!ReadHead, H!HeadEof, H!HeadTooLarge, H!MatchesBinding,
       H!HeadRead, HP!ConflictingFraming, HP!EndsHead, HP!HeadEndsAt,
       HP!Parses, HP!REFUSED, HP!socket, HP!reading, HP!request, HP!origin,
       HP!writing, HP!StatusOf, HP!Refusal, HP!Fail, HP!PeerGone, HP!AtEof,
       HP!ReadSize, HP!Read, HP!ReadEof, HP!HeadPending, HP!HeadOverrun,
       HP!ReadHead, HP!HeadEof, HP!HeadTooLarge, HP!MatchesBinding, HP!HeadRead

\* read_body without chunks.
LEMMA SameLength ==
  /\ BodyNone => H!BodyNone /\ HP!BodyNone
  /\ BodyLengthTooLarge => H!BodyLengthTooLarge /\ HP!BodyLengthTooLarge
  /\ ReadLength => H!ReadLength /\ HP!ReadLength
  /\ LengthEof => H!LengthEof /\ HP!LengthEof
  /\ LengthRead => H!LengthRead /\ HP!LengthRead
BY DEF NoBody, HasLength, Octets, REFUSED, DENIED_CLIENT_HEADERS, permits,
       HeadersDenied, socket, reading, request, origin, writing, StatusOf,
       Refusal, Fail, PeerGone, AtEof, ReadSize, Read, ReadEof,
       DESCRIPTOR_LEG_HEADERS, ClientHeaders, BodyRead, BodyNone, TooLong,
       BodyLengthTooLarge, LengthPending, ReadLength, LengthEof, LengthRead,
       H!NoBody, H!HasLength, H!Octets, H!REFUSED, H!DENIED_CLIENT_HEADERS,
       H!permits, H!HeadersDenied, H!socket, H!reading, H!request, H!origin,
       H!writing, H!StatusOf, H!Refusal, H!Fail, H!PeerGone, H!AtEof,
       H!ReadSize, H!Read, H!ReadEof, H!DESCRIPTOR_LEG_HEADERS,
       H!ClientHeaders, H!BodyRead, H!BodyNone, H!TooLong,
       H!BodyLengthTooLarge, H!LengthPending, H!ReadLength, H!LengthEof,
       H!LengthRead, HP!NoBody, HP!HasLength, HP!Octets, HP!REFUSED,
       HP!DENIED_CLIENT_HEADERS, HP!permits, HP!HeadersDenied, HP!socket,
       HP!reading, HP!request, HP!origin, HP!writing, HP!StatusOf, HP!Refusal,
       HP!Fail, HP!PeerGone, HP!AtEof, HP!ReadSize, HP!Read, HP!ReadEof,
       HP!DESCRIPTOR_LEG_HEADERS, HP!ClientHeaders, HP!BodyRead, HP!BodyNone,
       HP!TooLong, HP!BodyLengthTooLarge, HP!LengthPending, HP!ReadLength,
       HP!LengthEof, HP!LengthRead

\* read_body with chunks, once the decoder has an outcome.
LEMMA SameChunks ==
  /\ ChunkedRead => H!ChunkedRead /\ HP!ChunkedRead
  /\ ChunkedRejected => H!ChunkedRejected /\ HP!ChunkedRejected
BY DEF Chunked, AllChunks, DecodesTo, DecodedTooLarge, BadChunk, Octets,
       REFUSED, DENIED_CLIENT_HEADERS, permits, HeadersDenied, socket, reading,
       request, origin, StatusOf, Refusal, Fail, DESCRIPTOR_LEG_HEADERS,
       ClientHeaders, BodyRead, ChunkedBody, ChunkedRead, ChunkedRejected,
       H!Chunked, H!AllChunks, H!DecodesTo, H!DecodedTooLarge, H!BadChunk,
       H!Octets, H!REFUSED, H!DENIED_CLIENT_HEADERS, H!permits,
       H!HeadersDenied, H!socket, H!reading, H!request, H!origin, H!StatusOf,
       H!Refusal, H!Fail, H!DESCRIPTOR_LEG_HEADERS, H!ClientHeaders,
       H!BodyRead, H!ChunkedBody, H!ChunkedRead, H!ChunkedRejected, HP!Chunked,
       HP!AllChunks, HP!DecodesTo, HP!DecodedTooLarge, HP!BadChunk, HP!Octets,
       HP!REFUSED, HP!DENIED_CLIENT_HEADERS, HP!permits, HP!HeadersDenied,
       HP!socket, HP!reading, HP!request, HP!origin, HP!StatusOf, HP!Refusal,
       HP!Fail, HP!DESCRIPTOR_LEG_HEADERS, HP!ClientHeaders, HP!BodyRead,
       HP!ChunkedBody, HP!ChunkedRead, HP!ChunkedRejected

\* The decoder has no outcome yet.
LEMMA SameNeed ==
  ASSUME NEW b, NEW limit
  PROVE  /\ NeedMore(b, limit) <=> H!NeedMore(b, limit)
         /\ NeedMore(b, limit) <=> HP!NeedMore(b, limit)
BY DEF AllChunks, DecodesTo, DecodedTooLarge, BadChunk, NeedMore, H!AllChunks,
       H!DecodesTo, H!DecodedTooLarge, H!BadChunk, H!NeedMore, HP!AllChunks,
       HP!DecodesTo, HP!DecodedTooLarge, HP!BadChunk, HP!NeedMore

\* read_body with chunks, as long as more is needed, and a read that fails.
LEMMA SamePending ==
  /\ ReadChunked => H!ReadChunked /\ HP!ReadChunked
  /\ ChunkedEof => H!ChunkedEof /\ HP!ChunkedEof
  /\ ChunkedTooLarge => H!ChunkedTooLarge /\ HP!ChunkedTooLarge
  /\ ReadFails => H!ReadFails /\ HP!ReadFails
<1>1. ChunkedPending => H!ChunkedPending /\ HP!ChunkedPending
  BY SameNeed
     DEF Chunked, ChunkedBody, ChunkedPending, H!Chunked, H!ChunkedBody,
         H!ChunkedPending, HP!Chunked, HP!ChunkedBody, HP!ChunkedPending
<1>2. /\ ChunkedOverrun <=> H!ChunkedOverrun
      /\ ChunkedOverrun <=> HP!ChunkedOverrun
  <2>1. RawLen(buf) = H!RawLen(buf) /\ RawLen(buf) = HP!RawLen(buf)
    BY DEF Cardinality, H!Cardinality, HP!Cardinality, RawLen, H!RawLen,
           HP!RawLen
  <2>2. QED
    BY <2>1, Zenon DEF ChunkedOverrun, H!ChunkedOverrun, HP!ChunkedOverrun
<1>3. QED
  BY <1>1, <1>2
     DEF HasLength, EndsHead, REFUSED, socket, reading, request, origin,
         writing, StatusOf, Refusal, Fail, PeerGone, AtEof, ReadSize, Read,
         ReadEof, HeadPending, HeadOverrun, TooLong, LengthPending,
         ReadChunked, ChunkedEof, ChunkedTooLarge, ReadFails, H!HasLength,
         H!EndsHead, H!REFUSED, H!socket, H!reading, H!request, H!origin,
         H!writing, H!StatusOf, H!Refusal, H!Fail, H!PeerGone, H!AtEof,
         H!ReadSize, H!Read, H!ReadEof, H!HeadPending, H!HeadOverrun,
         H!TooLong, H!LengthPending, H!ReadChunked, H!ChunkedEof,
         H!ChunkedTooLarge, H!ReadFails, HP!HasLength, HP!EndsHead, HP!REFUSED,
         HP!socket, HP!reading, HP!request, HP!origin, HP!writing, HP!StatusOf,
         HP!Refusal, HP!Fail, HP!PeerGone, HP!AtEof, HP!ReadSize, HP!Read,
         HP!ReadEof, HP!HeadPending, HP!HeadOverrun, HP!TooLong,
         HP!LengthPending, HP!ReadChunked, HP!ChunkedEof, HP!ChunkedTooLarge,
         HP!ReadFails

\* The origin leg.
LEMMA SameFetch ==
  /\ Send => H!Send /\ HP!Send
  /\ FetchFails => H!FetchFails /\ HP!FetchFails
  /\ ReadCapped => H!ReadCapped /\ HP!ReadCapped
  /\ ReplyRead => H!ReplyRead /\ HP!ReplyRead
BY DEF REFUSED, HOP_BY_HOP, is_hop_by_hop, apply_headers, socket, reading,
       request, origin, writing, StatusOf, Refusal, Fail,
       DESCRIPTOR_LEG_HEADERS, ClientHeaders, OriginRequest, Send, FetchFails,
       PassesResponseLimit, ReadCapped, Relayed, ReplyRead, H!REFUSED,
       H!HOP_BY_HOP, H!is_hop_by_hop, H!apply_headers, H!socket, H!reading,
       H!request, H!origin, H!writing, H!StatusOf, H!Refusal, H!Fail,
       H!DESCRIPTOR_LEG_HEADERS, H!ClientHeaders, H!OriginRequest, H!Send,
       H!FetchFails, H!PassesResponseLimit, H!ReadCapped, H!Relayed,
       H!ReplyRead, HP!REFUSED, HP!HOP_BY_HOP, HP!is_hop_by_hop,
       HP!apply_headers, HP!socket, HP!reading, HP!request, HP!origin,
       HP!writing, HP!StatusOf, HP!Refusal, HP!Fail, HP!DESCRIPTOR_LEG_HEADERS,
       HP!ClientHeaders, HP!OriginRequest, HP!Send, HP!FetchFails,
       HP!PassesResponseLimit, HP!ReadCapped, HP!Relayed, HP!ReplyRead

LEMMA SameOrigin ==
  ASSUME NEW r
  PROVE  OriginAnswers(r) => H!OriginAnswers(r) /\ HP!OriginAnswers(r)
BY DEF REFUSED, socket, reading, request, StatusOf, Refusal, Fail,
       PassesResponseLimit, OriginAnswers, H!REFUSED, H!socket, H!reading,
       H!request, H!StatusOf, H!Refusal, H!Fail, H!PassesResponseLimit,
       H!OriginAnswers, HP!REFUSED, HP!socket, HP!reading, HP!request,
       HP!StatusOf, HP!Refusal, HP!Fail, HP!PassesResponseLimit,
       HP!OriginAnswers

\* write_response.
LEMMA SameWrite ==
  /\ Write => H!Write /\ HP!Write
  /\ WriteFails => H!WriteFails /\ HP!WriteFails
BY DEF REFUSED, socket, reading, request, origin, StatusOf, Refusal, Fail,
       PeerGone, Answering, Unwritten, HasRoom, Write, WriteFails, H!REFUSED,
       H!socket, H!reading, H!request, H!origin, H!StatusOf, H!Refusal, H!Fail,
       H!PeerGone, H!Answering, H!Unwritten, H!HasRoom, H!Write, H!WriteFails,
       HP!REFUSED, HP!socket, HP!reading, HP!request, HP!origin, HP!StatusOf,
       HP!Refusal, HP!Fail, HP!PeerGone, HP!Answering, HP!Unwritten,
       HP!HasRoom, HP!Write, HP!WriteFails

LEMMA SameInit == DaemonInit => H!DaemonInit /\ HP!DaemonInit
BY DEF DaemonInit, H!DaemonInit, HP!DaemonInit

\* The serving task as a whole.
LEMMA SameServe == Serve => H!Serve /\ HP!Serve
<1>1. ServeHead => H!ServeHead /\ HP!ServeHead
  BY SameHead DEF ServeHead, H!ServeHead, HP!ServeHead
<1>2. ServeBody => H!ServeBody /\ HP!ServeBody
  BY SameLength, SameChunks, SamePending
     DEF ServeBody, H!ServeBody, HP!ServeBody
<1>3. Fetch => H!Fetch /\ HP!Fetch
  BY SameFetch, SameOrigin DEF Fetch, H!Fetch, HP!Fetch
<1>4. Answer => H!Answer /\ HP!Answer
  BY SameMoves, SameWrite DEF Answer, H!Answer, HP!Answer
<1>5. QED
  BY <1>1, <1>2, <1>3, <1>4, SameMoves, SamePending
     DEF Serve, H!Serve, HP!Serve

-----------------------------------------------------------------------------
(***************************************************************************)
(* The request on the wire, and the assumptions of module Holders.         *)
(***************************************************************************)
LEMMA HeadTypes ==
  ASSUME NEW h \in ClientHead, NEW n \in Nat
  PROVE  /\ WithLength(h, n) \in RequestHead \union {NULL}
         /\ WithLength(h, n) # NULL => n \in WithLength(h, n).lengths
<1>1. CASE h = NULL
  BY <1>1 DEF WithLength
<1>2. CASE h # NULL
  <2>1. h \in RequestHead /\ "host" \in Header
    BY <1>2, ExchangeAssumption
  <2>2. WithLength(h, n) = [h EXCEPT !.headers = @ \union {"host"},
                                     !.lengths = @ \union {n}]
    BY <1>2 DEF WithLength
  <2>3. /\ h.headers \union {"host"} \subseteq Header
        /\ h.lengths \union {n} \subseteq Nat
    BY <2>1 DEF RequestHead
  <2>4. WithLength(h, n) =
          [method |-> h.method, target |-> h.target, codings |-> h.codings,
           headers |-> h.headers \union {"host"},
           lengths |-> h.lengths \union {n}]
    BY <2>1, <2>2 DEF RequestHead
  <2>5. QED
    BY <2>1, <2>3, <2>4 DEF RequestHead
<1>3. QED
  BY <1>1, <1>2

LEMMA AskTypes ==
  ASSUME AskInv
  PROVE  /\ ask \in RequestHead \union {NULL}
         /\ ask # NULL => Len(load) \in ask.lengths
         /\ Wire("end", 0, ask) \in ClientUnit
<1>1. PICK h \in ClientHead : ask = WithLength(h, Len(load))
  BY DEF AskInv
<1>2. Len(load) \in Nat /\ grant.max_request_body \in Nat
  BY DaemonAssumption, LenProperties DEF AskInv, Grants
<1>3. Len(load) \in 0 .. grant.max_request_body + 1
  BY <1>2 DEF AskInv
<1>4. QED
  BY <1>1, <1>2, <1>3, HeadTypes DEF ClientUnit

LEMMA ClientUnits == ClientUnit \subseteq Unit
<1> SUFFICES ASSUME NEW u \in ClientUnit PROVE u \in Unit
  OBVIOUS
<1>1. CASE u = Wire("line", 0, NULL)
  BY <1>1, ExchangeAssumption DEF Wire, Unit, UnitKind
<1>2. CASE \E o \in Octet : u = Wire("octet", o, NULL)
  BY <1>2 DEF Wire, Unit, UnitKind
<1>3. CASE \E h \in ClientHead, n \in 0 .. grant.max_request_body + 1 :
             u = Wire("end", 0, WithLength(h, n))
  <2>1. PICK h \in ClientHead, n \in 0 .. grant.max_request_body + 1 :
               u = Wire("end", 0, WithLength(h, n))
    BY <1>3
  <2>2. n \in Nat
    OBVIOUS
  <2>3. QED
    BY <2>1, <2>2, HeadTypes, ExchangeAssumption DEF Wire, Unit, UnitKind
<1>4. QED
  BY <1>1, <1>2, <1>3 DEF ClientUnit

\* Unit i of the request.
LEMMA RequestShape ==
  ASSUME AskInv
  PROVE  /\ Len(load) \in Nat /\ Len(RequestUnits) = Len(load) + 2
         /\ RequestUnits[1] = Wire("line", 0, NULL)
         /\ RequestUnits[2] = Wire("end", 0, ask)
         /\ \A i \in 1 .. Len(load) :
              RequestUnits[2 + i] = Wire("octet", load[i], NULL)
         /\ \A i \in 1 .. Len(RequestUnits) : RequestUnits[i] \in ClientUnit
<1> DEFINE first == <<Wire("line", 0, NULL), Wire("end", 0, ask)>>
           rest == [i \in 1 .. Len(load) |-> Wire("octet", load[i], NULL)]
<1>1. Len(load) \in Nat /\ \A i \in 1 .. Len(load) : load[i] \in Octet
  BY LenProperties, ElementOfSeq DEF AskInv
<1>2. first \in Seq(ClientUnit) /\ Len(first) = 2
      /\ first[1] = Wire("line", 0, NULL) /\ first[2] = Wire("end", 0, ask)
  <2>1. Wire("line", 0, NULL) \in ClientUnit
    BY DEF ClientUnit
  <2>2. QED
    BY <2>1, AskTypes
<1>3. /\ rest \in Seq(ClientUnit) /\ Len(rest) = Len(load)
      /\ \A i \in 1 .. Len(load) : rest[i] = Wire("octet", load[i], NULL)
  <2>1. \A i \in 1 .. Len(load) : Wire("octet", load[i], NULL) \in ClientUnit
    BY <1>1 DEF ClientUnit
  <2>2. QED
    BY <1>1, <2>1
<1>4. RequestUnits = first \o rest
  BY DEF RequestUnits
<1> HIDE DEF first, rest
<1>5. /\ first \o rest \in Seq(ClientUnit)
      /\ Len(first \o rest) = 2 + Len(load)
      /\ \A i \in 1 .. 2 + Len(load) :
           (first \o rest)[i] = IF i <= 2 THEN first[i] ELSE rest[i - 2]
  <2>1. /\ first \o rest \in Seq(ClientUnit)
        /\ Len(first \o rest) = Len(first) + Len(rest)
        /\ \A i \in 1 .. Len(first) + Len(rest) :
             (first \o rest)[i] =
               IF i <= Len(first) THEN first[i] ELSE rest[i - Len(first)]
    <3>1. first \in Seq(ClientUnit) /\ rest \in Seq(ClientUnit)
      BY <1>2, <1>3
    <3>2. QED
      BY <3>1, ConcatProperties, Zenon
  <2>2. Len(first) = 2 /\ Len(rest) = Len(load)
    BY <1>2, <1>3
  <2>3. QED
    BY <2>1, <2>2
<1>6. \A i \in 1 .. Len(load) :
        (first \o rest)[2 + i] = Wire("octet", load[i], NULL)
  BY <1>1, <1>3, <1>5
<1>7. (first \o rest)[1] = first[1] /\ (first \o rest)[2] = first[2]
  BY <1>1, <1>5
<1>8. \A i \in 1 .. Len(first \o rest) : (first \o rest)[i] \in ClientUnit
  BY <1>5, ElementOfSeq
<1>9. QED
  BY <1>1, <1>2, <1>4, <1>5, <1>6, <1>7, <1>8

\* The assumptions the theorems about any holders rest on.
LEMMA HoldersAssumptions ==
  HP!HttpAssumption /\ HP!DaemonAssumption /\ HP!HoldersAssumption
<1>1. HP!HttpAssumption
  BY HttpAssumption DEF HP!HttpAssumption
<1>2. HP!DaemonAssumption
  BY DaemonAssumption
     DEF REFUSED, Grants, RequestHead, Response, HP!REFUSED, HP!Grants,
         HP!RequestHead, HP!Response, HP!DaemonAssumption
<1>3. HP!HoldersAssumption
  <2>1. grant.max_request_body + 3 \in Nat
    BY DaemonAssumption DEF Grants
  <2>2. QED
    BY <2>1, ClientUnits
       DEF RequestHead, UnitKind, Unit, HP!RequestHead, HP!UnitKind, HP!Unit,
           HP!HoldersAssumption
<1>4. QED
  BY <1>1, <1>2, <1>3

-----------------------------------------------------------------------------
(***************************************************************************)
(* The client is a holder: each of its steps is one a holder can take, or  *)
(* none that a daemon could notice.                                        *)
(***************************************************************************)
\* Whatever ends the client closes the descriptor.
ClientEnds ==
  ClientWriteFails \/ ClientRejects \/ ClientEof \/ ClientDone \/ ClientDies

LEMMA EndsCloses ==
  ASSUME HolderInv, ClientEnds
  PROVE  /\ ~ ClientOver /\ cpc' \in {"ok", "err", "dead"} /\ holders' = {}
         /\ holders = {Client}
         /\ UNCHANGED <<theirs, half, ours, reading, request, origin, writing,
                        pc, bound, ask, load, put, taken>>
BY DEF HolderInv, ClientEnds, ClientWriteFails, ClientRejects, ClientEof,
       ClientDone, ClientDies, ClientOver, TooBulky, Waiting

LEMMA EndsIsClose ==
  ASSUME HolderInv, ClientEnds
  PROVE  H!Close(Client) /\ HP!Close(Client)
<1>1. holders = {Client} /\ holders' = {} /\ holders \ {Client} = {}
  BY EndsCloses
<1>2. QED
  BY <1>1, EndsCloses
     DEF reading, request, origin, writing, H!reading, H!request, H!origin,
         H!writing, H!Close, HP!reading, HP!request, HP!origin, HP!writing,
         HP!Close

LEMMA WriteIsHolderWrites ==
  ASSUME TypeInv, ClientWrites
  PROVE  \E u \in ClientUnit : H!HolderWrites(u) /\ HP!HolderWrites(u)
<1>1. put + 1 \in 1 .. Len(RequestUnits)
  BY RequestShape DEF TypeInv, ClientInv, ClientWrites
<1>2. RequestUnits[put + 1] \in ClientUnit
  BY <1>1, RequestShape DEF TypeInv
<1>3. put < grant.max_request_body + 3
  <2>1. put \in Nat /\ Len(load) \in Nat /\ put < Len(load) + 2
        /\ Len(load) <= grant.max_request_body + 1
        /\ grant.max_request_body \in Nat
    BY RequestShape, DaemonAssumption
       DEF TypeInv, ClientInv, AskInv, ClientWrites, Grants
  <2>2. QED
    BY <2>1
<1>4. holders # {} /\ ~ half
  BY DEF TypeInv, HolderInv, ClientWrites, ClientOver
<1>5. QED
  BY <1>2, <1>3, <1>4
     DEF ClientWrites, socket, request, origin, writing, H!socket, H!request,
         H!origin, H!writing, H!HolderWrites, HP!socket, HP!request,
         HP!origin, HP!writing, HP!HolderWrites

LEMMA ReadIsHolderReads ==
  ASSUME HolderInv, ClientReads
  PROVE  H!HolderReads /\ HP!HolderReads
BY DEF HolderInv, ClientReads, Waiting, ClientOver, socket, reading, request,
       origin, H!socket, H!reading, H!request, H!origin, H!HolderReads,
       HP!socket, HP!reading, HP!request, HP!origin, HP!HolderReads

LEMMA StepIsHolders ==
  ASSUME TypeInv, [Next]_vars
  PROVE  [H!Next]_(H!vars) /\ [HP!Next]_(HP!vars)
<1>1. CASE DaemonStep
  BY <1>1, SameServe
     DEF DaemonStep, client, H!DaemonStep, H!Next, HP!DaemonStep, HP!Next
<1>2. CASE DaemonCrash
  BY <1>2, SameMoves
     DEF DaemonCrash, client, H!DaemonCrash, H!Next, HP!DaemonCrash, HP!Next
<1>3. CASE ClientWrites
  BY <1>3, WriteIsHolderWrites
     DEF H!HoldersStep, H!Next, HP!HoldersStep, HP!Next
<1>4. CASE ClientReads
  BY <1>4, ReadIsHolderReads
     DEF TypeInv, H!HoldersStep, H!Next, HP!HoldersStep, HP!Next
<1>5. CASE ClientEnds
  BY <1>5, EndsIsClose, ExchangeAssumption
     DEF TypeInv, H!HoldersStep, H!Next, HP!HoldersStep, HP!Next
<1>6. CASE ClientWritten \/ Finished \/ UNCHANGED vars
  <2>1. UNCHANGED <<daemonVars, put>>
    BY <1>6 DEF ClientWritten, Finished, vars, client
  <2>2. UNCHANGED H!vars /\ UNCHANGED HP!vars
    BY <2>1
       DEF daemonVars, socket, reading, request, origin, writing, H!vars,
           H!daemonVars, H!socket, H!reading, H!request, H!origin, H!writing,
           HP!vars, HP!daemonVars, HP!socket, HP!reading, HP!request,
           HP!origin, HP!writing
  <2>3. QED
    BY <2>2
<1>7. QED
  BY <1>1, <1>2, <1>3, <1>4, <1>5, <1>6 DEF Next, ClientStep, ClientEnds

LEMMA InitIsHolders == Init => H!Init /\ HP!Init
BY SameInit DEF Init, H!Init, HP!Init

-----------------------------------------------------------------------------
(***************************************************************************)
(* Type correctness.                                                       *)
(***************************************************************************)
\* What is known of the daemon, in the words of this module.
LEMMA DaemonTypes ==
  ASSUME HP!TypeInv
  PROVE  /\ up \in Seq(Unit) /\ buf \in Seq(Unit)
         /\ down \in Seq(Piece) /\ sent \in Seq(Piece)
         /\ head \in RequestHead \union {NULL}
         /\ reply \in OriginResponse \union {NULL}
         /\ answer \in Response \union {NULL}
         /\ got \in Nat /\ wrote \in Nat
         /\ pc \in {"delivered", "read_head", "read_body", "send", "await",
                    "read_capped", "write_response", "refuse", "shutdown",
                    "drop", "returned", "crashed"}
         /\ ours \in {"open", "shut", "closed"}
         /\ Answering => answer \in Response
         /\ pc \in {"read_body", "send"} => head \in RequestHead
         /\ pc = "read_capped" => reply \in OriginResponse
<1>1. HP!TypeOK /\ HP!PcInv
  BY DEF HP!TypeInv
<1>2. HP!Unit = Unit /\ HP!Piece = Piece /\ HP!Response = Response
      /\ HP!RequestHead = RequestHead
  BY DEF UnitKind, Unit, Piece, Response, RequestHead, HP!UnitKind, HP!Unit,
         HP!Piece, HP!Response, HP!RequestHead
<1>3. wrote \in Nat
  <2>1. answer \in Response => answer.length \in Nat
    BY DEF Response
  <2>2. QED
    BY <1>1, <1>2, <2>1 DEF HP!TypeOK
<1>4. QED
  BY <1>1, <1>2, <1>3 DEF HP!TypeOK, HP!PcInv, Answering, HP!Answering

LEMMA TypeInit == Init => TypeInv
<1> SUFFICES ASSUME Init PROVE TypeInv
  OBVIOUS
<1>1. AskInv
  <2>1. PICK n \in 0 .. grant.max_request_body + 1 : load \in [1 .. n -> Octet]
    BY DEF Init
  <2>2. n \in Nat /\ n <= grant.max_request_body + 1
    BY DaemonAssumption DEF Grants
  <2>3. load \in Seq(Octet) /\ Len(load) = n
    BY <2>1, <2>2
  <2>4. QED
    BY <2>2, <2>3 DEF Init, AskInv
<1>2. HolderInv
  BY DEF Init, DaemonInit, HolderInv, ClientOver
<1>3. ClientInv
  <2>1. taken \in Seq(Piece)
    BY EmptySeq DEF Init
  <2>2. put \in 0 .. Len(RequestUnits)
    BY <1>1, RequestShape DEF Init
  <2>3. QED
    BY <2>1, <2>2 DEF Init, ClientInv
<1>4. QED
  BY <1>1, <1>2, <1>3 DEF TypeInv

LEMMA HolderStep ==
  ASSUME HolderInv, [Next]_vars
  PROVE  HolderInv'
<1> USE DEF HolderInv, ClientOver
<1>1. CASE DaemonStep
  BY <1>1
     DEF DaemonStep, client, Serve, DropTheirs, StreamFails, ServeHead,
         ReadHead, HeadEof, HeadTooLarge, HeadRead, ServeBody, BodyNone,
         BodyLengthTooLarge, ReadLength, LengthEof, LengthRead, ChunkedRead,
         ChunkedRejected, ReadChunked, ChunkedEof, ChunkedTooLarge, BodyRead,
         Read, ReadEof, ReadFails, Fetch, Send, FetchFails, ReadCapped,
         ReplyRead, OriginAnswers, Answer, Write, WriteFails, Written,
         Shutdown, Drop, socket
<1>2. CASE DaemonCrash
  BY <1>2 DEF DaemonCrash, Crash, client
<1>3. CASE ClientWrites \/ ClientReads \/ ClientWritten
  BY <1>3 DEF ClientWrites, ClientReads, ClientWritten, Waiting, daemonVars,
              socket
<1>4. CASE ClientEnds
  BY <1>4, EndsCloses
<1>5. CASE Finished \/ UNCHANGED vars
  BY <1>5 DEF Finished, vars, daemonVars, socket, client
<1>6. QED
  BY <1>1, <1>2, <1>3, <1>4, <1>5 DEF Next, ClientStep, ClientEnds

LEMMA AskStep ==
  ASSUME AskInv, [Next]_vars
  PROVE  AskInv' /\ UNCHANGED <<ask, load>> /\ RequestUnits' = RequestUnits
<1>1. UNCHANGED <<ask, load>>
  BY DEF Next, DaemonStep, DaemonCrash, ClientStep, ClientWrites,
         ClientWriteFails, ClientWritten, ClientReads, ClientRejects,
         ClientEof, ClientDone, ClientDies, Finished, vars, client
<1>2. QED
  BY <1>1 DEF AskInv, RequestUnits

LEMMA ClientInvStep ==
  ASSUME TypeInv, HP!TypeInv, [Next]_vars
  PROVE  ClientInv'
<1> USE DEF ClientInv
<1>1. ClientInv /\ HolderInv /\ AskInv
  BY DEF TypeInv
<1>2. RequestUnits' = RequestUnits
  BY <1>1, AskStep
<1>3. Len(RequestUnits) \in Nat
  BY <1>1, RequestShape
<1>4. CASE UNCHANGED client
  BY <1>1, <1>2, <1>4 DEF client, Response1
<1>5. CASE ClientWrites
  <2>1. put' = put + 1 /\ put < Len(RequestUnits) /\ cpc = "write"
        /\ UNCHANGED <<cpc, taken>>
    BY <1>5 DEF ClientWrites
  <2>2. QED
    BY <1>1, <1>2, <1>3, <2>1
<1>6. CASE ClientReads
  <2>1. /\ Waiting /\ down # <<>> /\ taken' = Append(taken, Head(down))
        /\ cpc' = "read_body" /\ put' = put
    BY <1>6 DEF ClientReads
  <2>2. Head(down) \in Piece
    BY <2>1, DaemonTypes, HeadTailProperties
  <2>3. taken' \in Seq(Piece) /\ taken' # <<>>
    BY <1>1, <2>1, <2>2, AppendProperties
  <2>4. QED
    BY <1>1, <1>2, <2>1, <2>3 DEF Waiting
<1>7. CASE ClientWritten
  BY <1>1, <1>2, <1>7 DEF ClientWritten
<1>8. CASE ClientDone
  BY <1>1, <1>2, <1>8 DEF ClientDone, Response1
<1>9. CASE ClientWriteFails \/ ClientRejects \/ ClientEof \/ ClientDies
  BY <1>1, <1>2, <1>9
     DEF ClientWriteFails, ClientRejects, ClientEof, ClientDies
<1>10. QED
  BY <1>4, <1>5, <1>6, <1>7, <1>8, <1>9
     DEF Next, DaemonStep, DaemonCrash, ClientStep, Finished, vars

LEMMA TypeStep ==
  ASSUME TypeInv, HP!TypeInv, [Next]_vars
  PROVE  TypeInv' /\ HP!TypeInv'
<1>1. TypeInv'
  BY HolderStep, AskStep, ClientInvStep DEF TypeInv
<1>2. HP!TypeInv'
  BY StepIsHolders, HoldersAssumptions, HP!TypeStep
<1>3. QED
  BY <1>1, <1>2

LEMMA TypesInit == Init => TypeInv /\ HP!TypeInv
BY TypeInit, InitIsHolders, HoldersAssumptions, HP!TypeInit

\* Every reachable state is well typed, and the client has let go of the
\* descriptor once it is over.
THEOREM TypeCorrect == Spec => []TypeOK
<1>1. TypeInv => TypeOK
  <2> SUFFICES ASSUME TypeInv PROVE TypeOK
    OBVIOUS
  <2>2. AskInv /\ ClientInv /\ HolderInv
    BY DEF TypeInv
  <2>3. QED
    BY <2>2, AskTypes DEF AskInv, ClientInv, HolderInv, TypeOK
<1>2. TypeInv /\ HP!TypeInv /\ [Next]_vars => TypeInv' /\ HP!TypeInv'
  BY TypeStep
<1>3. QED
  BY TypesInit, <1>1, <1>2, PTL DEF Spec

\* The client is one of the holders module Holders speaks of: whatever it is
\* asked to send, the two together do nothing that arbitrary holders do not.
THEOREM ImplementsHoldersCorrect == Spec => ImplementsHolders
<1>1. Init => H!Init
  BY InitIsHolders
<1>2. TypeInv /\ HP!TypeInv /\ [Next]_vars => [H!Next]_(H!vars)
  BY StepIsHolders
<1>3. TypeInv /\ HP!TypeInv /\ [Next]_vars => TypeInv' /\ HP!TypeInv'
  BY TypeStep
<1>4. QED
  BY TypesInit, <1>1, <1>2, <1>3, PTL DEF Spec, ImplementsHolders, H!Spec
==============================================================================
