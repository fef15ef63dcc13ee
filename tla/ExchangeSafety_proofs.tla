------------------------ MODULE ExchangeSafety_proofs ------------------------
(***************************************************************************)
(* What the daemon and the shipped client guarantee each other, for every  *)
(* request, every grant and every answer of the origin, however the stream *)
(* is segmented and with either side dying at any point.                   *)
(***************************************************************************)
EXTENDS Exchange_proofs

\* What is known of the client as a holder among any holders.
HoldersInv == TypeInv /\ HP!TypeInv /\ HP!ServedInv /\ HP!RefusalInv

-----------------------------------------------------------------------------
(***************************************************************************)
(* The two streams.                                                        *)
(***************************************************************************)
\* How much of the request the head the daemon has parsed took up.
Consumed == IF head = NULL THEN 0 ELSE 2

\* What the daemon has read and not consumed, and what it has not read, is
\* the rest of what the client has written.
StreamInv ==
  /\ Consumed + Len(buf) + Len(up) = put
  /\ \A i \in 1 .. Len(buf) : buf[i] = RequestUnits[Consumed + i]
  /\ \A i \in 1 .. Len(up) : up[i] = RequestUnits[Consumed + Len(buf) + i]

\* What the client has read, and what it has not, is what was sent.
TakenInv ==
  /\ Len(taken) + Len(down) = Len(sent)
  /\ \A i \in 1 .. Len(taken) : taken[i] = sent[i]
  /\ \A i \in 1 .. Len(down) : down[i] = sent[Len(taken) + i]

\* The client's head is one the daemon goes on with.
BadRequest ==
  ask = NULL \/ ConflictingFraming(ask) \/ "upgrade" \in ask.headers

HeadInv ==
  /\ head # NULL => head = ask /\ ~ BadRequest /\ MatchesBinding(ask)
  /\ pc \in {"delivered", "read_head"} => head = NULL

(***************************************************************************)
(* The request that reaches the origin is the client's own.                *)
(***************************************************************************)
AskedHeaders == ask.headers \ DESCRIPTOR_LEG_HEADERS

OwnRequest ==
  [method |-> bound.method, target |-> bound.target,
   headers |-> apply_headers(grant, AskedHeaders), body |-> load]

OriginInv ==
  /\ pc = "send" =>
       head # NULL /\ body = load /\ put = Len(RequestUnits)
  /\ served # <<>> =>
       head # NULL /\ served = <<OwnRequest>> /\ put = Len(RequestUnits)
  /\ pc \in {"await", "read_capped", "write_response"} => served # <<>>
  /\ pc = "read_capped" =>
       got <= reply.length /\ got <= grant.max_response_body

(***************************************************************************)
(* What is written is the origin's answer or a refusal for a cause that is *)
(* there.                                                                  *)
(***************************************************************************)
Forbidden ==
  /\ ask # NULL
  /\ ~ MatchesBinding(ask) \/ HeadersDenied(grant, AskedHeaders)

Oversized == Len(load) > grant.max_request_body

Explained ==
  {r \in Response :
     \/ /\ r.by = "origin" /\ served # <<>> /\ reply \in OriginResponse
        /\ r.headers = reply.headers \ (HOP_BY_HOP \union reply.nominated)
        /\ r.status = reply.status /\ r.length = reply.length
        /\ r.length <= grant.max_response_body
     \/ /\ r.by = "daemon" /\ r.headers = {"content-type", REFUSED}
        /\ \/ r.status = 400 /\ BadRequest
           \/ r.status = 403 /\ Forbidden
           \/ r.status = 413 /\ Oversized
           \/ r.status = 502
           \/ r.status = 500 /\ IoErrors}

CauseInv ==
  /\ Answering /\ ~ PeerGone => answer \in Explained
  /\ \A i \in 1 .. Len(sent) : sent[i].of \in Explained

(***************************************************************************)
(* How the client comes to an error, where no live socket fails.           *)
(***************************************************************************)
\* The daemon's end closes as the task ends.
ShutInv ==
  /\ pc \notin {"drop", "returned", "crashed"} => ours = "open"
  /\ ours = "closed" => Over

\* As long as the client is there, the daemon answers once it has seen the
\* whole of its head, and with one answer.
SeenInv ==
  /\ pc \notin {"delivered", "read_head", "crashed"} /\ ~ PeerGone => put >= 2
  /\ sent # <<>> /\ ~ PeerGone => answer = sent[1].of

LostInv ==
  cpc = "err" =>
    \/ pc = "crashed"
    \/ /\ pc = "returned" /\ load # <<>> /\ put < Len(RequestUnits)
       /\ answer.by = "daemon"
    \/ /\ sent # <<>> /\ put = Len(RequestUnits)
       /\ reply # NULL /\ reply.headers \cap Bulky # {}

-----------------------------------------------------------------------------
(***************************************************************************)
(* What any holders are known to do, in the words of this module.          *)
(***************************************************************************)
LEMMA HoldersInit == Init => HoldersInv
BY TypesInit, InitIsHolders, HoldersAssumptions, HP!ServedInit,
   HP!RefusalInit DEF HoldersInv

LEMMA HoldersInvStep ==
  ASSUME HoldersInv, [Next]_vars
  PROVE  HoldersInv'
<1>1. TypeInv /\ HP!TypeInv /\ HP!ServedInv /\ HP!RefusalInv
  BY DEF HoldersInv
<1>2. [HP!Next]_(HP!vars)
  BY <1>1, StepIsHolders
<1>3. TypeInv' /\ HP!TypeInv'
  BY <1>1, TypeStep
<1>4. HP!ServedInv'
  BY <1>1, <1>2, HoldersAssumptions, HP!ServedStep
<1>5. HP!RefusalInv'
  BY <1>1, <1>2, HoldersAssumptions, HP!RefusalStep
<1>6. QED
  BY <1>3, <1>4, <1>5 DEF HoldersInv

\* Nothing is written before there is an answer.
LEMMA NothingSaidYet ==
  ASSUME HoldersInv
  PROVE  /\ pc \in {"delivered", "read_head", "read_body", "send"}
              => served = <<>>
         /\ pc \in {"delivered", "read_head", "read_body", "send", "await",
                    "read_capped"} => sent = <<>>
BY DEF HoldersInv, HP!ServedInv, HP!RefusalInv, HP!Unanswered, HP!Unsent

LEMMA Types ==
  ASSUME HoldersInv
  PROVE  /\ HolderInv /\ AskInv /\ ClientInv /\ HP!TypeInv
         /\ Len(buf) \in Nat /\ Len(up) \in Nat /\ Len(sent) \in Nat
         /\ Len(down) \in Nat /\ Len(taken) \in Nat /\ put \in Nat
<1>1. HolderInv /\ AskInv /\ ClientInv /\ HP!TypeInv
  BY DEF HoldersInv, TypeInv
<1>2. put \in Nat
  BY <1>1, RequestShape DEF ClientInv
<1>3. QED
  BY <1>1, <1>2, DaemonTypes, LenProperties DEF ClientInv

\* What the client leaves alone.
LEMMA ClientKeeps ==
  ASSUME ClientStep \/ ClientDies
  PROVE  UNCHANGED <<theirs, half, ours, buf, request, origin, answer, wrote,
                     sent, pc, bound, ask, load>>
BY DEF ClientStep, ClientWrites, ClientWriteFails, ClientWritten, ClientReads,
       ClientRejects, ClientEof, ClientDone, ClientDies, daemonVars, socket,
       reading, writing

-----------------------------------------------------------------------------
(***************************************************************************)
(* The stream to the daemon.                                               *)
(***************************************************************************)
\* A read moves the first units of the stream to the end of the buffer.
LEMMA ReadMoves ==
  ASSUME up \in Seq(Unit), buf \in Seq(Unit), Read
  PROVE  \E k \in 1 .. Len(up) :
           /\ Len(buf') = Len(buf) + k /\ Len(up') = Len(up) - k
           /\ \A i \in 1 .. Len(buf) : buf'[i] = buf[i]
           /\ \A i \in 1 .. k : buf'[Len(buf) + i] = up[i]
           /\ \A i \in 1 .. Len(up') : up'[i] = up[k + i]
<1> DEFINE k == ReadSize
<1>1. Len(up) \in Nat \ {0} /\ Len(buf) \in Nat
  BY EmptySeq, LenProperties DEF Read
<1>2. k \in 1 .. Len(up)
  BY <1>1, DaemonAssumption DEF ReadSize
<1>3. /\ buf' = buf \o SubSeq(up, 1, k)
      /\ up' = SubSeq(up, k + 1, Len(up))
  BY DEF Read
<1> HIDE DEF k
<1>4. \A i \in 1 .. Len(up) : up[i] \in Unit
  BY ElementOfSeq
<1>5. /\ SubSeq(up, 1, k) \in Seq(Unit) /\ Len(SubSeq(up, 1, k)) = k
      /\ \A i \in 1 .. k : SubSeq(up, 1, k)[i] = up[i]
  <2>1. \A i \in 1 .. k : up[i] \in Unit
    BY <1>1, <1>2, <1>4
  <2>2. QED
    BY <1>1, <1>2, <2>1, SubSeqProperties
<1>6. /\ Len(up') = Len(up) - k
      /\ \A i \in 1 .. Len(up') : up'[i] = up[k + i]
  <2>1. \A i \in k + 1 .. Len(up) : up[i] \in Unit
    BY <1>1, <1>2, <1>4
  <2>2. QED
    BY <1>1, <1>2, <1>3, <2>1, SubSeqProperties
<1>7. /\ Len(buf') = Len(buf) + k
      /\ \A i \in 1 .. Len(buf) + k :
           buf'[i] = IF i <= Len(buf) THEN buf[i]
                     ELSE SubSeq(up, 1, k)[i - Len(buf)]
  <2>1. /\ Len(buf') = Len(buf) + Len(SubSeq(up, 1, k))
        /\ \A i \in 1 .. Len(buf) + Len(SubSeq(up, 1, k)) :
             buf'[i] = IF i <= Len(buf) THEN buf[i]
                       ELSE SubSeq(up, 1, k)[i - Len(buf)]
    BY <1>3, <1>5, ConcatProperties, Zenon
  <2>2. QED
    BY <1>5, <2>1
<1>8. /\ \A i \in 1 .. Len(buf) : buf'[i] = buf[i]
      /\ \A i \in 1 .. k : buf'[Len(buf) + i] = up[i]
  <2>1. ASSUME NEW i \in 1 .. Len(buf) PROVE buf'[i] = buf[i]
    BY <1>1, <1>2, <1>7
  <2>2. ASSUME NEW i \in 1 .. k PROVE buf'[Len(buf) + i] = up[i]
    <3>1. /\ Len(buf) + i \in 1 .. Len(buf) + k
          /\ ~ (Len(buf) + i <= Len(buf)) /\ (Len(buf) + i) - Len(buf) = i
      BY <1>1, <1>2
    <3>2. buf'[Len(buf) + i] = SubSeq(up, 1, k)[i]
      BY <1>7, <3>1
    <3>3. QED
      BY <1>5, <3>2
  <2>3. QED
    BY <2>1, <2>2
<1>9. QED
  BY <1>2, <1>6, <1>7, <1>8

\* What follows a head of e units.
LEMMA AfterHead ==
  ASSUME NEW s \in Seq(Unit), NEW e \in 1 .. Len(s)
  PROVE  /\ Len(SubSeq(s, e + 1, Len(s))) = Len(s) - e
         /\ \A i \in 1 .. Len(s) - e : SubSeq(s, e + 1, Len(s))[i] = s[e + i]
<1>1. Len(s) \in Nat /\ \A i \in e + 1 .. Len(s) : s[i] \in Unit
  BY LenProperties, ElementOfSeq
<1>2. /\ Len(SubSeq(s, e + 1, Len(s))) =
           IF e + 1 <= Len(s) THEN Len(s) - (e + 1) + 1 ELSE 0
      /\ \A i \in 1 .. Len(s) - (e + 1) + 1 :
           SubSeq(s, e + 1, Len(s))[i] = s[(e + 1) + i - 1]
  BY <1>1, SubSeqProperties
<1>3. QED
  BY <1>1, <1>2

\* The head ends with the second unit of the request, and it is the client's.
LEMMA HeadIsAsk ==
  ASSUME HoldersInv, StreamInv, head = NULL,
         NEW e \in 1 .. Len(buf), HeadEndsAt(buf, e)
  PROVE  /\ e = 2 /\ Len(buf) >= 2 /\ put >= 2
         /\ buf[1] = Wire("line", 0, NULL) /\ buf[2] = Wire("end", 0, ask)
<1>1. /\ Len(buf) \in Nat /\ Len(up) \in Nat /\ AskInv
      /\ Len(buf) + Len(up) = put
      /\ \A i \in 1 .. Len(buf) : buf[i] = RequestUnits[i]
  BY Types DEF StreamInv, Consumed
<1>2. buf[1] = Wire("line", 0, NULL) /\ ~ EndsHead(buf[1])
  BY <1>1, RequestShape DEF EndsHead, Wire
<1>3. EndsHead(buf[e])
  BY DEF HeadEndsAt
<1>4. e # 1 /\ Len(buf) >= 2
  BY <1>1, <1>2, <1>3
<1>5. buf[2] = Wire("end", 0, ask) /\ EndsHead(buf[2])
  BY <1>1, <1>4, RequestShape DEF EndsHead, Wire
<1>6. ~ (2 < e)
  BY <1>5 DEF HeadEndsAt
<1>7. QED
  BY <1>1, <1>2, <1>4, <1>5, <1>6

\* serve_request goes on with a head, or does not.
Accepts ==
  /\ pc = "read_head" /\ pc' = "read_body"
  /\ ~ BadRequest /\ MatchesBinding(ask)
  /\ head' = ask /\ buf' = SubSeq(buf, 2 + 1, Len(buf))
  /\ UNCHANGED <<socket, up, body, origin, writing, bound>>

Declines ==
  /\ pc = "read_head"
  /\ \/ BadRequest /\ Fail("Http")
     \/ ask # NULL /\ ~ MatchesBinding(ask) /\ Fail("NotFixedRequest")
  /\ UNCHANGED <<socket, reading, request, origin, down, sent, bound>>

LEMMA HeadReadStep ==
  ASSUME HoldersInv, StreamInv, HeadInv, HeadRead
  PROVE  /\ Accepts \/ Declines
         /\ head = NULL /\ Len(buf) >= 2 /\ put >= 2
<1>1. head = NULL /\ pc = "read_head"
  BY DEF HeadInv, HeadRead
<1>2. PICK e \in 1 .. Len(buf) :
        /\ HeadEndsAt(buf, e)
        /\ \/ ~ Parses(buf, e) /\ Fail("Http") /\ UNCHANGED <<buf, head>>
           \/ /\ Parses(buf, e) /\ ~ MatchesBinding(buf[e].head)
              /\ Fail("NotFixedRequest") /\ UNCHANGED <<buf, head>>
           \/ /\ Parses(buf, e) /\ MatchesBinding(buf[e].head)
              /\ head' = buf[e].head /\ buf' = SubSeq(buf, e + 1, Len(buf))
              /\ pc' = "read_body" /\ UNCHANGED <<answer, wrote>>
  BY DEF HeadRead
<1>3. /\ e = 2 /\ Len(buf) >= 2 /\ put >= 2
      /\ buf[1] = Wire("line", 0, NULL) /\ buf[2] = Wire("end", 0, ask)
  BY <1>1, <1>2, HeadIsAsk
<1>4. Parses(buf, 2) <=> ~ BadRequest
  BY <1>3, HttpAssumption, ExchangeAssumption DEF Parses, BadRequest, Wire
<1>5. buf[2].head = ask
  BY <1>3 DEF Wire
<1>6. UNCHANGED <<socket, up, body, origin, down, sent, bound>>
  BY DEF HeadRead
<1>7. CASE ~ Parses(buf, 2) /\ Fail("Http") /\ UNCHANGED <<buf, head>>
  BY <1>1, <1>3, <1>4, <1>6, <1>7 DEF Declines, reading, request
<1>8. CASE /\ Parses(buf, 2) /\ ~ MatchesBinding(ask)
           /\ Fail("NotFixedRequest") /\ UNCHANGED <<buf, head>>
  BY <1>1, <1>3, <1>4, <1>6, <1>8 DEF Declines, BadRequest, reading, request
<1>9. CASE /\ Parses(buf, 2) /\ MatchesBinding(ask)
           /\ head' = ask /\ buf' = SubSeq(buf, 2 + 1, Len(buf))
           /\ pc' = "read_body" /\ UNCHANGED <<answer, wrote>>
  BY <1>1, <1>3, <1>4, <1>6, <1>9 DEF Accepts, writing
<1>10. QED
  BY <1>1, <1>2, <1>3, <1>5, <1>7, <1>8, <1>9

\* Only a read and a head that is accepted touch the buffer.
LEMMA BufferKept ==
  ASSUME Serve
  PROVE  \/ Read /\ pc \in {"read_head", "read_body"}
         \/ HeadRead
         \/ UNCHANGED <<reading, head>>
BY DEF Serve, DropTheirs, StreamFails, ServeHead, ReadHead, HeadPending,
       HeadEof, HeadTooLarge, ServeBody, BodyNone, BodyLengthTooLarge,
       ReadLength, LengthPending, LengthEof, LengthRead, ChunkedRead,
       ChunkedRejected, ReadChunked, ChunkedPending, ChunkedBody, ChunkedEof,
       ChunkedTooLarge, BodyRead, ReadEof, ReadFails, Fetch, Send, FetchFails,
       ReadCapped, ReplyRead, OriginAnswers, Answer, Write, WriteFails,
       Written, Shutdown, Drop, request

LEMMA StreamStep ==
  ASSUME HoldersInv, StreamInv, HeadInv, [Next]_vars
  PROVE  StreamInv'
<1>0. /\ HolderInv /\ AskInv /\ ClientInv /\ HP!TypeInv
      /\ Len(buf) \in Nat /\ Len(up) \in Nat /\ put \in Nat
      /\ up \in Seq(Unit) /\ buf \in Seq(Unit)
      /\ Consumed \in Nat /\ RequestUnits' = RequestUnits
  BY Types, DaemonTypes, AskStep DEF Consumed
<1>1. CASE UNCHANGED <<up, buf, head, put>>
  BY <1>0, <1>1 DEF StreamInv, Consumed
<1>2. ASSUME Read, put' = put PROVE StreamInv'
  <2>1. PICK k \in 1 .. Len(up) :
          /\ Len(buf') = Len(buf) + k /\ Len(up') = Len(up) - k
          /\ \A i \in 1 .. Len(buf) : buf'[i] = buf[i]
          /\ \A i \in 1 .. k : buf'[Len(buf) + i] = up[i]
          /\ \A i \in 1 .. Len(up') : up'[i] = up[k + i]
    BY <1>0, <1>2, ReadMoves
  <2>2. Consumed' = Consumed
    BY <1>2 DEF Read, request, Consumed
  <2>3. Consumed + Len(buf') + Len(up') = put
    BY <1>0, <2>1 DEF StreamInv
  <2>4. ASSUME NEW i \in 1 .. Len(buf')
        PROVE  buf'[i] = RequestUnits[Consumed + i]
    <3>1. CASE i \in 1 .. Len(buf)
      BY <2>1, <3>1 DEF StreamInv
    <3>2. CASE i \notin 1 .. Len(buf)
      <4>1. PICK j \in 1 .. k : i = Len(buf) + j
        <5>1. i - Len(buf) \in 1 .. k /\ i = Len(buf) + (i - Len(buf))
          BY <1>0, <2>1, <2>4, <3>2
        <5>2. QED
          BY <5>1
      <4>2. buf'[i] = up[j] /\ j \in 1 .. Len(up)
        BY <1>0, <2>1, <4>1
      <4>3. up[j] = RequestUnits[Consumed + Len(buf) + j]
        BY <4>2 DEF StreamInv
      <4>4. Consumed + Len(buf) + j = Consumed + i
        BY <1>0, <4>1
      <4>5. QED
        BY <4>2, <4>3, <4>4
    <3>3. QED
      BY <3>1, <3>2
  <2>5. ASSUME NEW i \in 1 .. Len(up')
        PROVE  up'[i] = RequestUnits[Consumed + Len(buf') + i]
    <3>1. k + i \in 1 .. Len(up) /\ up'[i] = up[k + i]
      BY <1>0, <2>1, <2>5
    <3>2. up[k + i] = RequestUnits[Consumed + Len(buf) + (k + i)]
      BY <3>1 DEF StreamInv
    <3>3. Consumed + Len(buf) + (k + i) = Consumed + Len(buf') + i
      BY <1>0, <2>1
    <3>4. QED
      BY <3>1, <3>2, <3>3
  <2>6. QED
    BY <1>0, <1>2, <2>2, <2>3, <2>4, <2>5 DEF StreamInv
<1>3. ASSUME Accepts, head = NULL, Len(buf) >= 2, put' = put PROVE StreamInv'
  <2>1. buf' = SubSeq(buf, 2 + 1, Len(buf)) /\ up' = up /\ head' # NULL
    BY <1>3 DEF Accepts, BadRequest
  <2>2. Consumed = 0 /\ Consumed' = 2
    BY <1>3, <2>1 DEF Consumed
  <2>3. /\ Len(buf') = Len(buf) - 2
        /\ \A i \in 1 .. Len(buf') : buf'[i] = buf[2 + i]
    <3>1. 2 \in 1 .. Len(buf)
      BY <1>0, <1>3
    <3>2. QED
      BY <1>0, <2>1, <3>1, AfterHead
  <2>4. ASSUME NEW i \in 1 .. Len(buf') PROVE buf'[i] = RequestUnits[2 + i]
    <3>1. 2 + i \in 1 .. Len(buf) /\ buf'[i] = buf[2 + i]
      BY <1>0, <1>3, <2>3, <2>4
    <3>2. buf[2 + i] = RequestUnits[0 + (2 + i)]
      BY <2>2, <3>1 DEF StreamInv
    <3>3. QED
      BY <3>1, <3>2
  <2>5. ASSUME NEW i \in 1 .. Len(up)
        PROVE  up[i] = RequestUnits[2 + Len(buf') + i]
    <3>1. up[i] = RequestUnits[0 + Len(buf) + i]
      BY <2>2 DEF StreamInv
    <3>2. 0 + Len(buf) + i = 2 + Len(buf') + i
      BY <1>0, <1>3, <2>3
    <3>3. QED
      BY <3>1, <3>2
  <2>6. 2 + Len(buf') + Len(up) = put
    BY <1>0, <1>3, <2>2, <2>3 DEF StreamInv
  <2>7. QED
    BY <1>0, <1>3, <2>1, <2>2, <2>4, <2>5, <2>6 DEF StreamInv
<1>4. CASE DaemonStep
  <2>1. Serve /\ put' = put
    BY <1>4 DEF DaemonStep, client
  <2>2. CASE HeadRead
    <3>1. /\ head = NULL /\ Len(buf) >= 2
          /\ Accepts \/ UNCHANGED <<up, buf, head>>
      BY <2>2, HeadReadStep DEF Declines, reading, request
    <3>2. QED
      BY <1>1, <1>3, <2>1, <3>1
  <2>3. QED
    BY <1>1, <1>2, <2>1, <2>2, BufferKept DEF reading
<1>5. CASE ClientWrites
  <2>1. /\ up' = Append(up, RequestUnits[put + 1]) /\ put' = put + 1
        /\ UNCHANGED <<buf, head>>
    BY <1>5 DEF ClientWrites, request
  <2>2. RequestUnits[put + 1] \in Unit
    <3>1. put + 1 \in 1 .. Len(RequestUnits)
      BY <1>0, <1>5, RequestShape DEF ClientWrites, ClientInv
    <3>2. QED
      BY <1>0, <3>1, RequestShape, ClientUnits
  <2>3. /\ Len(up') = Len(up) + 1
        /\ \A i \in 1 .. Len(up) : up'[i] = up[i]
        /\ up'[Len(up) + 1] = RequestUnits[put + 1]
    BY <1>0, <2>1, <2>2, AppendProperties
  <2>4. Consumed + Len(buf) + (Len(up) + 1) = put + 1
    BY <1>0 DEF StreamInv
  <2>5. ASSUME NEW i \in 1 .. Len(up')
        PROVE  up'[i] = RequestUnits[Consumed + Len(buf) + i]
    <3>1. CASE i \in 1 .. Len(up)
      BY <2>3, <3>1 DEF StreamInv
    <3>2. CASE i = Len(up) + 1
      BY <2>3, <2>4, <3>2
    <3>3. QED
      BY <1>0, <2>3, <3>1, <3>2
  <2>6. Consumed' = Consumed
    BY <2>1 DEF Consumed
  <2>7. QED
    BY <1>0, <2>1, <2>3, <2>4, <2>5, <2>6 DEF StreamInv
<1>6. CASE \/ DaemonCrash \/ ClientWriteFails \/ ClientWritten \/ ClientReads
           \/ ClientRejects \/ ClientEof \/ ClientDone \/ ClientDies
           \/ Finished \/ UNCHANGED vars
  BY <1>1, <1>6
     DEF DaemonCrash, Crash, ClientWriteFails, ClientWritten, ClientReads,
         ClientRejects, ClientEof, ClientDone, ClientDies, Finished, vars,
         client, daemonVars, reading, request
<1>7. QED
  BY <1>4, <1>5, <1>6 DEF Next, ClientStep

-----------------------------------------------------------------------------
(***************************************************************************)
(* The stream to the client.                                               *)
(***************************************************************************)
\* Only a write adds to it.
LEMMA SentKept ==
  ASSUME Serve
  PROVE  Write \/ UNCHANGED <<down, sent>>
BY DEF Serve, DropTheirs, StreamFails, ServeHead, ReadHead, HeadEof,
       HeadTooLarge, HeadRead, ServeBody, BodyNone, BodyLengthTooLarge,
       ReadLength, LengthEof, LengthRead, ChunkedRead, ChunkedRejected,
       ReadChunked, ChunkedEof, ChunkedTooLarge, BodyRead, Read, ReadEof,
       ReadFails, Fetch, Send, FetchFails, ReadCapped, ReplyRead,
       OriginAnswers, Answer, WriteFails, Written, Shutdown, Drop, writing

LEMMA TakenStep ==
  ASSUME HoldersInv, TakenInv, [Next]_vars
  PROVE  TakenInv'
<1>0. /\ Len(taken) \in Nat /\ Len(down) \in Nat /\ Len(sent) \in Nat
      /\ down \in Seq(Piece) /\ sent \in Seq(Piece) /\ taken \in Seq(Piece)
  BY Types, DaemonTypes DEF ClientInv
<1>1. CASE UNCHANGED <<taken, down, sent>>
  BY <1>1 DEF TakenInv
<1>2. ASSUME Write, taken' = taken PROVE TakenInv'
  <2>1. PICK p \in Piece : down' = Append(down, p) /\ sent' = Append(sent, p)
    <3>1. answer \in Response /\ wrote \in Nat
      BY <1>2, Types, DaemonTypes DEF Write, Unwritten
    <3>2. [of |-> answer, n |-> wrote] \in Piece
      BY <3>1 DEF Piece
    <3>3. QED
      BY <1>2, <3>2 DEF Write
  <2>2. /\ Len(down') = Len(down) + 1 /\ Len(sent') = Len(sent) + 1
        /\ \A i \in 1 .. Len(down) : down'[i] = down[i]
        /\ \A i \in 1 .. Len(sent) : sent'[i] = sent[i]
        /\ down'[Len(down) + 1] = p /\ sent'[Len(sent) + 1] = p
    BY <1>0, <2>1, AppendProperties
  <2>3. Len(taken) + Len(down) = Len(sent)
    BY DEF TakenInv
  <2>4. ASSUME NEW i \in 1 .. Len(taken) PROVE taken[i] = sent'[i]
    <3>1. i \in 1 .. Len(sent)
      BY <1>0, <2>3
    <3>2. QED
      BY <2>2, <3>1 DEF TakenInv
  <2>5. ASSUME NEW i \in 1 .. Len(down') PROVE down'[i] = sent'[Len(taken) + i]
    <3>1. CASE i \in 1 .. Len(down)
      <4>1. Len(taken) + i \in 1 .. Len(sent)
        BY <1>0, <2>3, <3>1
      <4>2. QED
        BY <2>2, <3>1, <4>1 DEF TakenInv
    <3>2. CASE i = Len(down) + 1
      <4>1. Len(taken) + i = Len(sent) + 1
        <5>1. Len(taken) \in Nat /\ Len(down) \in Nat /\ Len(sent) \in Nat
          BY <1>0
        <5>2. QED
          BY <2>3, <3>2, <5>1
      <4>2. down'[i] = p
        BY <2>2, <3>2
      <4>3. sent'[Len(sent) + 1] = p
        BY <2>2
      <4>4. QED
        BY <4>1, <4>2, <4>3
    <3>3. QED
      BY <1>0, <2>2, <3>1, <3>2
  <2>6. Len(taken) + Len(down') = Len(sent')
    <3>1. Len(down') = Len(down) + 1 /\ Len(sent') = Len(sent) + 1
      BY <2>2
    <3>2. Len(taken) \in Nat /\ Len(down) \in Nat /\ Len(sent) \in Nat
      BY <1>0
    <3>3. QED
      BY <2>3, <3>1, <3>2
  <2>7. QED
    BY <1>2, <2>4, <2>5, <2>6 DEF TakenInv
<1>3. CASE ClientReads
  <2>1. /\ down # <<>> /\ taken' = Append(taken, Head(down))
        /\ down' = Tail(down) /\ sent' = sent
    BY <1>3 DEF ClientReads
  <2>2. /\ Head(down) \in Piece /\ Head(down) = down[1]
        /\ Len(down') = Len(down) - 1 /\ Len(down) # 0
        /\ \A i \in 1 .. Len(down') : down'[i] = down[i + 1]
    BY <1>0, <2>1, HeadTailProperties, EmptySeq
  <2>3. /\ Len(taken') = Len(taken) + 1
        /\ \A i \in 1 .. Len(taken) : taken'[i] = taken[i]
        /\ taken'[Len(taken) + 1] = down[1]
    BY <1>0, <2>1, <2>2, AppendProperties
  <2>4. Len(taken) + Len(down) = Len(sent)
    BY DEF TakenInv
  <2>5. ASSUME NEW i \in 1 .. Len(taken') PROVE taken'[i] = sent[i]
    <3>1. CASE i \in 1 .. Len(taken)
      BY <2>3, <3>1 DEF TakenInv
    <3>2. CASE i = Len(taken) + 1
      <4>1. 1 \in 1 .. Len(down)
        BY <1>0, <2>2
      <4>2. QED
        BY <2>3, <3>2, <4>1 DEF TakenInv
    <3>3. QED
      BY <1>0, <2>3, <3>1, <3>2
  <2>6. ASSUME NEW i \in 1 .. Len(down')
        PROVE  down'[i] = sent[Len(taken') + i]
    <3>1. i + 1 \in 1 .. Len(down)
      BY <1>0, <2>2
    <3>2. down'[i] = sent[Len(taken) + (i + 1)]
      BY <2>2, <3>1 DEF TakenInv
    <3>3. Len(taken) + (i + 1) = Len(taken') + i
      BY <1>0, <2>3
    <3>4. QED
      BY <3>2, <3>3
  <2>7. Len(taken') + Len(down') = Len(sent)
    <3>1. Len(down') = Len(down) - 1 /\ Len(taken') = Len(taken) + 1
      BY <2>2, <2>3
    <3>2. QED
      BY <1>0, <2>4, <3>1
  <2>8. QED
    BY <2>1, <2>5, <2>6, <2>7 DEF TakenInv
<1>4. CASE DaemonStep
  BY <1>1, <1>2, <1>4, SentKept DEF DaemonStep, client
<1>5. CASE \/ DaemonCrash \/ ClientWrites \/ ClientWriteFails
           \/ ClientWritten \/ ClientRejects \/ ClientEof \/ ClientDone
           \/ ClientDies \/ Finished \/ UNCHANGED vars
  BY <1>1, <1>5
     DEF DaemonCrash, Crash, ClientWrites, ClientWriteFails, ClientWritten,
         ClientRejects, ClientEof, ClientDone, ClientDies, Finished, vars,
         client, daemonVars, writing
<1>6. QED
  BY <1>3, <1>4, <1>5 DEF Next, ClientStep

-----------------------------------------------------------------------------
(***************************************************************************)
(* The head and the body.                                                  *)
(***************************************************************************)
\* What was asked for and what the descriptor was minted for do not change.
LEMMA AskKept ==
  ASSUME HoldersInv, [Next]_vars
  PROVE  /\ UNCHANGED <<ask, load, bound>> /\ RequestUnits' = RequestUnits
         /\ BadRequest' = BadRequest /\ Forbidden' = Forbidden
         /\ MatchesBinding(ask)' = MatchesBinding(ask)
         /\ OwnRequest' = OwnRequest
<1>1. UNCHANGED <<ask, load>> /\ RequestUnits' = RequestUnits
  BY Types, AskStep
<1>2. UNCHANGED bound
  <2>1. CASE Serve
    BY <2>1
       DEF Serve, DropTheirs, StreamFails, ServeHead, ReadHead, HeadEof,
           HeadTooLarge, HeadRead, ServeBody, BodyNone, BodyLengthTooLarge,
           ReadLength, LengthEof, LengthRead, ChunkedRead, ChunkedRejected,
           ReadChunked, ChunkedEof, ChunkedTooLarge, BodyRead, Read, ReadEof,
           ReadFails, Fetch, Send, FetchFails, ReadCapped, ReplyRead,
           OriginAnswers, Answer, Write, WriteFails, Written, Shutdown, Drop
  <2>2. CASE \/ Crash \/ ClientStep \/ ClientDies \/ UNCHANGED vars
    BY <2>2, ClientKeeps DEF Crash, vars, daemonVars
  <2>3. QED
    BY <2>1, <2>2 DEF Next, DaemonStep, DaemonCrash, Finished
<1>3. QED
  BY <1>1, <1>2 DEF BadRequest, ConflictingFraming, Forbidden, MatchesBinding,
                    AskedHeaders, OwnRequest

\* Past the head, no step goes back to it.
LEMMA PcForward ==
  ASSUME Serve, pc \notin {"delivered", "read_head"}
  PROVE  pc' \notin {"delivered", "read_head"}
BY DEF Serve, DropTheirs, StreamFails, ServeHead, ReadHead, HeadEof,
       HeadTooLarge, HeadPending, HeadRead, ServeBody, BodyNone,
       BodyLengthTooLarge, ReadLength, LengthEof, LengthRead, ChunkedRead,
       ChunkedRejected, ReadChunked, ChunkedEof, ChunkedTooLarge, BodyRead,
       Read, ReadEof, ReadFails, Fetch, Send, FetchFails, ReadCapped,
       ReplyRead, OriginAnswers, Answer, Write, WriteFails, Written,
       Shutdown, Drop, AfterAnswer, Fail

LEMMA HeadStep ==
  ASSUME HoldersInv, StreamInv, HeadInv, [Next]_vars
  PROVE  HeadInv'
<1>0. /\ UNCHANGED ask /\ BadRequest' = BadRequest
      /\ MatchesBinding(ask)' = MatchesBinding(ask)
  BY AskKept
<1>1. ASSUME UNCHANGED head,
             pc \notin {"delivered", "read_head"}
               => pc' \notin {"delivered", "read_head"}
      PROVE  HeadInv'
  BY <1>0, <1>1 DEF HeadInv
<1>2. CASE Serve
  <2>1. CASE HeadRead
    <3>1. CASE Accepts
      BY <1>0, <3>1 DEF Accepts, HeadInv
    <3>2. CASE Declines
      BY <1>1, <3>2 DEF Declines, request
    <3>3. QED
      BY <2>1, <3>1, <3>2, HeadReadStep
  <2>2. CASE UNCHANGED head
    BY <1>1, <1>2, <2>2, PcForward
  <2>3. QED
    BY <1>2, <2>1, <2>2, BufferKept DEF Read, request
<1>3. CASE Crash \/ ClientStep \/ ClientDies \/ UNCHANGED vars
  BY <1>1, <1>3, ClientKeeps DEF Crash, vars, daemonVars, request
<1>4. QED
  BY <1>2, <1>3 DEF Next, DaemonStep, DaemonCrash, Finished

\* While a body is read, the head is the client's and states its length.
LEMMA HeadAtBody ==
  ASSUME HoldersInv, HeadInv, pc = "read_body"
  PROVE  /\ head = ask /\ ask # NULL /\ ask \in RequestHead
         /\ ~ ConflictingFraming(ask) /\ Len(load) \in ask.lengths
         /\ \A n \in ask.lengths : n = Len(load)
         /\ ~ Chunked(head)
         /\ ClientHeaders = AskedHeaders /\ Consumed = 2
<1>1. head \in RequestHead /\ AskInv
  BY Types, DaemonTypes
<1>2. head # NULL /\ head = ask /\ ~ ConflictingFraming(ask)
  BY <1>1, DaemonAssumption DEF HeadInv, BadRequest
<1>3. Len(load) \in ask.lengths
  BY <1>1, <1>2, AskTypes
<1>4. \A n \in ask.lengths : n = Len(load)
  BY <1>2, <1>3 DEF ConflictingFraming
<1>5. ~ Chunked(head)
  BY <1>2, <1>3 DEF ConflictingFraming, Chunked
<1>6. QED
  BY <1>1, <1>2, <1>3, <1>4, <1>5 DEF ClientHeaders, AskedHeaders, Consumed

\* The body read_body hands on is the client's, and the whole of it.
LEMMA BodyIsLoad ==
  ASSUME HoldersInv, StreamInv, HeadInv, BodyNone \/ LengthRead \/ ChunkedRead
  PROVE  /\ BodyRead(load) /\ put = Len(RequestUnits) /\ head = ask
         /\ pc = "read_body" /\ head # NULL
<1>1. pc = "read_body"
  BY DEF BodyNone, LengthRead, ChunkedRead, ChunkedBody
<1>2. /\ head = ask /\ ask # NULL /\ ask \in RequestHead
      /\ Len(load) \in ask.lengths /\ \A n \in ask.lengths : n = Len(load)
      /\ ~ Chunked(head) /\ Consumed = 2
  BY <1>1, HeadAtBody
<1>3. /\ AskInv /\ ClientInv /\ load \in Seq(Octet)
      /\ Len(buf) \in Nat /\ Len(up) \in Nat /\ put \in Nat
      /\ Len(load) \in Nat /\ Len(RequestUnits) = Len(load) + 2
      /\ put <= Len(load) + 2
  BY Types, RequestShape DEF AskInv, ClientInv
<1>4. 2 + Len(buf) + Len(up) = put
  BY <1>2 DEF StreamInv
<1>5. CASE BodyNone
  <2>1. BodyRead(<<>>) /\ Len(load) = 0
    BY <1>2, <1>5 DEF BodyNone, NoBody
  <2>2. load = <<>>
    BY <1>3, <2>1, EmptySeq
  <2>3. put = Len(RequestUnits)
    BY <1>3, <1>4, <2>1
  <2>4. QED
    BY <1>1, <1>2, <2>1, <2>2, <2>3
<1>6. CASE LengthRead
  <2>1. PICK n \in head.lengths : Len(buf) >= n /\ BodyRead(Octets(buf, n))
    BY <1>6 DEF LengthRead
  <2>2. n = Len(load)
    BY <1>2, <2>1
  <2>3. Len(buf) = Len(load) /\ put = Len(RequestUnits)
    BY <1>3, <1>4, <2>1, <2>2
  <2>4. \A i \in 1 .. Len(load) : buf[i].octet = load[i]
    <3>1. SUFFICES ASSUME NEW i \in 1 .. Len(load)
                   PROVE  buf[i].octet = load[i]
      OBVIOUS
    <3>2. buf[i] = RequestUnits[2 + i]
      BY <1>2, <2>3 DEF StreamInv
    <3>3. RequestUnits[2 + i] = Wire("octet", load[i], NULL)
      BY <1>3, RequestShape
    <3>4. QED
      BY <3>2, <3>3 DEF Wire
  <2>5. Octets(buf, n) = load
    <3>1. load = [i \in 1 .. Len(load) |-> load[i]]
      BY <1>3, LenProperties
    <3>2. QED
      BY <2>2, <2>4, <3>1 DEF Octets
  <2>6. QED
    BY <1>1, <1>2, <2>1, <2>3, <2>5
<1>7. CASE ChunkedRead
  BY <1>2, <1>7 DEF ChunkedRead, ChunkedBody
<1>8. QED
  BY <1>5, <1>6, <1>7

-----------------------------------------------------------------------------
(***************************************************************************)
(* The origin.                                                             *)
(***************************************************************************)
\* A body is in: the headers decide.
LEMMA BodyReadEnds ==
  ASSUME BodyRead(load)
  PROVE  /\ UNCHANGED <<socket, reading, head, origin, down, sent, bound>>
         /\ \/ HeadersDenied(grant, ClientHeaders) /\ Fail("Header")
            \/ pc' = "send" /\ body' = load
         /\ UNCHANGED <<served, reply>>
<1>1. /\ UNCHANGED <<socket, reading, head, origin, down, sent, bound>>
      /\ UNCHANGED <<served, reply>>
  BY DEF BodyRead, origin
<1>2. CASE HeadersDenied(grant, ClientHeaders)
  BY <1>1, <1>2 DEF BodyRead, Fail
<1>3. CASE ~ HeadersDenied(grant, ClientHeaders)
  BY <1>1, <1>3 DEF BodyRead
<1>4. QED
  BY <1>2, <1>3

\* Outside the origin leg nothing of it moves.
LEMMA OriginKept ==
  ASSUME Serve
  PROVE  \/ BodyNone \/ LengthRead \/ ChunkedRead
         \/ Send \/ ReadCapped \/ ReplyRead
         \/ \E r \in OriginResponse : OriginAnswers(r)
         \/ /\ UNCHANGED <<origin, body>>
            /\ head' = head \/ HeadRead
            /\ pc' = pc \/ pc' \in {"read_head", "read_body", "refuse",
                                    "shutdown", "drop", "returned"}
BY DEF Serve, DropTheirs, StreamFails, ServeHead, ReadHead, HeadEof,
       HeadTooLarge, HeadRead, ServeBody, BodyLengthTooLarge, ReadLength,
       LengthEof, ChunkedRejected, ReadChunked, ChunkedEof, ChunkedTooLarge,
       Read, ReadEof, ReadFails, Fetch, FetchFails, Answer, Write, WriteFails,
       Written, Shutdown, Drop, AfterAnswer, Fail, request, origin

LEMMA OriginStep ==
  ASSUME HoldersInv, StreamInv, HeadInv, OriginInv, [Next]_vars
  PROVE  OriginInv'
<1>0. /\ UNCHANGED <<ask, load>> /\ RequestUnits' = RequestUnits
      /\ OwnRequest' = OwnRequest
      /\ pc \in {"delivered", "read_head", "read_body", "send"}
           => served = <<>>
      /\ ClientInv /\ HP!TypeInv
  BY AskKept, NothingSaidYet, Types
\* A step that is no part of the origin leg.
<1>1. ASSUME UNCHANGED <<served, reply, got, body>>,
             head' = head \/ head = NULL,
             put' = put \/ put # Len(RequestUnits),
             pc' = pc \/ pc' \notin {"send", "await", "read_capped",
                                     "write_response"}
      PROVE  OriginInv'
  BY <1>0, <1>1 DEF OriginInv
<1>2. CASE DaemonStep
  <2>1. Serve /\ put' = put
    BY <1>2 DEF DaemonStep, client
  <2>2. CASE BodyNone \/ LengthRead \/ ChunkedRead
    <3>1. /\ BodyRead(load) /\ put = Len(RequestUnits)
          /\ pc = "read_body" /\ head # NULL
      BY <2>2, BodyIsLoad
    <3>2. /\ UNCHANGED <<head, served>>
          /\ \/ pc' = "refuse"
             \/ pc' = "send" /\ body' = load
      BY <3>1, BodyReadEnds DEF Fail
    <3>3. served = <<>>
      BY <1>0, <3>1
    <3>4. QED
      BY <1>0, <2>1, <3>1, <3>2, <3>3 DEF OriginInv
  <2>3. CASE Send
    <3>1. /\ head # NULL /\ body = load /\ put = Len(RequestUnits)
          /\ served = <<>> /\ pc' = "await" /\ UNCHANGED <<head, body>>
          /\ served' = Append(served, OriginRequest)
      BY <1>0, <2>3 DEF Send, OriginInv, request
    <3>2. OriginRequest = OwnRequest
      BY <3>1 DEF OriginRequest, OwnRequest, ClientHeaders, AskedHeaders,
                  HeadInv
    <3>3. served' = <<OwnRequest>>
      BY <3>1, <3>2
    <3>4. served' # <<>>
      BY <3>3
    <3>5. QED
      BY <1>0, <2>1, <3>1, <3>3, <3>4 DEF OriginInv
  <2>4. CASE \E r \in OriginResponse : OriginAnswers(r)
    <3>1. PICK r \in OriginResponse : OriginAnswers(r)
      BY <2>4
    <3>2. /\ pc = "await" /\ UNCHANGED <<served, head, body>>
          /\ \/ pc' = "refuse"
             \/ pc' = "read_capped" /\ reply' = r /\ got' = 0
      BY <3>1 DEF OriginAnswers, Fail, request
    <3>3. r.length \in Nat /\ grant.max_response_body \in Nat
      BY <3>1, DaemonAssumption DEF Grants
    <3>4. QED
      BY <1>0, <2>1, <3>2, <3>3 DEF OriginInv
  <2>5. CASE ReadCapped
    <3>1. /\ pc = "read_capped" /\ UNCHANGED <<served, reply, head, body>>
          /\ \/ pc' = "refuse"
             \/ /\ pc' = "read_capped" /\ got' = got + 1 /\ got < reply.length
                /\ ~ (got + 1 > grant.max_response_body)
      BY <2>5 DEF ReadCapped, PassesResponseLimit, Fail, request
    <3>2. /\ got \in Nat /\ reply.length \in Nat
          /\ grant.max_response_body \in Nat
      BY <1>0, <3>1, DaemonTypes, DaemonAssumption DEF Grants
    <3>3. QED
      BY <1>0, <2>1, <3>1, <3>2 DEF OriginInv
  <2>6. CASE ReplyRead
    BY <1>0, <2>1, <2>6 DEF ReplyRead, origin, request, OriginInv
  <2>7. CASE /\ UNCHANGED <<origin, body>>
             /\ head' = head \/ HeadRead
             /\ pc' = pc \/ pc' \in {"read_head", "read_body", "refuse",
                                     "shutdown", "drop", "returned"}
    <3>1. HeadRead => head = NULL
      BY HeadReadStep
    <3>2. QED
      BY <1>1, <2>1, <2>7, <3>1 DEF origin
  <2>8. QED
    BY <2>1, <2>2, <2>3, <2>4, <2>5, <2>6, <2>7, OriginKept
<1>3. CASE DaemonCrash
  BY <1>1, <1>3 DEF DaemonCrash, Crash, client, origin, request
<1>4. CASE ClientStep \/ ClientDies
  <2>1. put' = put \/ put # Len(RequestUnits)
    BY <1>0, <1>4, RequestShape
       DEF ClientStep, ClientWrites, ClientWriteFails, ClientWritten,
           ClientReads, ClientRejects, ClientEof, ClientDone, ClientDies
  <2>2. QED
    BY <1>1, <1>4, <2>1, ClientKeeps DEF origin, request
<1>5. CASE Finished \/ UNCHANGED vars
  BY <1>1, <1>5 DEF Finished, vars, daemonVars, client, origin, request
<1>6. QED
  BY <1>2, <1>3, <1>4, <1>5 DEF Next

-----------------------------------------------------------------------------
(***************************************************************************)
(* The answer.  Every error has its cause in what the client asked for, in *)
(* the origin or in a socket that fails; the others need the client gone.  *)
(***************************************************************************)
Deserved(e) ==
  \/ e = "Http" /\ BadRequest
  \/ e = "NotFixedRequest" /\ ask # NULL /\ ~ MatchesBinding(ask)
  \/ e = "Header" /\ ask # NULL /\ HeadersDenied(grant, AskedHeaders)
  \/ e = "RequestTooLarge" /\ Oversized
  \/ e \in {"Upstream", "ResponseTooLarge"}
  \/ e = "Io" /\ IoErrors

\* A step that refuses the request.
Refuses ==
  /\ \E e \in Errors : Fail(e) /\ (Deserved(e) \/ PeerGone')
  /\ UNCHANGED <<served, reply, sent>>

\* A step that neither chooses an answer nor writes any of it.
Quiet ==
  /\ UNCHANGED <<answer, sent>>
  /\ \/ UNCHANGED <<served, reply>> /\ (pc' = pc \/ ~ Answering')
     \/ sent = <<>> /\ ~ Answering'

LEMMA RefusalAnswers ==
  ASSUME HoldersInv, [Next]_vars, NEW e \in Errors, Fail(e), Deserved(e)
  PROVE  answer' \in Explained'
<1>1. /\ BadRequest' = BadRequest /\ Forbidden' = Forbidden
      /\ Oversized' = Oversized
  BY AskKept DEF Oversized
<1>2. /\ answer' \in Response /\ answer'.by = "daemon"
      /\ answer'.headers = {"content-type", REFUSED}
      /\ answer'.status = StatusOf(e)
  <2>1. StatusOf(e) \in Nat
    BY DEF StatusOf, Errors
  <2>2. QED
    BY <2>1, DaemonAssumption DEF Fail, Refusal, Response
<1>3. \/ StatusOf(e) = 400 /\ BadRequest
      \/ StatusOf(e) = 403 /\ Forbidden
      \/ StatusOf(e) = 413 /\ Oversized
      \/ StatusOf(e) = 502
      \/ StatusOf(e) = 500 /\ IoErrors
  BY DEF Deserved, StatusOf, Forbidden
<1>4. QED
  BY <1>1, <1>2, <1>3 DEF Explained

LEMMA ExplainedKept ==
  ASSUME HoldersInv, [Next]_vars, UNCHANGED <<served, reply>>
  PROVE  Explained' = Explained
<1>1. /\ BadRequest' = BadRequest /\ Forbidden' = Forbidden
      /\ Oversized' = Oversized
  BY AskKept DEF Oversized
<1>2. QED
  BY <1>1 DEF Explained

\* read_head.
LEMMA HeadCauses ==
  ASSUME HoldersInv, StreamInv, HeadInv, ServeHead
  PROVE  Refuses \/ Quiet
<1> USE DEF Refuses, Errors, origin, writing
<1>1. CASE ReadHead
  BY <1>1 DEF ReadHead, HeadPending, Read, Quiet, Answering
<1>2. CASE HeadEof
  <2>1. AtEof /\ Fail("Handshake") /\ UNCHANGED <<socket, origin, sent>>
    BY <1>2 DEF HeadEof, ReadEof
  <2>2. PeerGone'
    BY <2>1, Types DEF HolderInv, AtEof, PeerGone, socket
  <2>3. QED
    BY <2>1, <2>2
<1>3. CASE HeadTooLarge
  <2>1. Len(buf) > MAX_HEAD_LEN /\ head = NULL
        /\ \A i \in 1 .. Len(buf) : ~ EndsHead(buf[i])
    BY <1>3 DEF HeadTooLarge, HeadPending, HeadOverrun, HeadInv
  <2>2. 2 \in 1 .. Len(buf)
    BY <2>1, Types, HttpAssumption, ExchangeAssumption
  <2>3. buf[2] = RequestUnits[0 + 2]
    BY <2>1, <2>2 DEF StreamInv, Consumed
  <2>4. EndsHead(buf[2])
    BY <2>3, Types, RequestShape DEF EndsHead, Wire
  <2>5. QED
    BY <2>1, <2>2, <2>4
<1>4. CASE HeadRead
  <2>1. CASE Accepts
    BY <2>1 DEF Accepts, Quiet, Answering
  <2>2. CASE Declines
    BY <2>2 DEF Declines, Deserved
  <2>3. QED
    BY <1>4, <2>1, <2>2, HeadReadStep
<1>5. QED
  BY <1>1, <1>2, <1>3, <1>4 DEF ServeHead

\* read_body.
LEMMA BodyCauses ==
  ASSUME HoldersInv, StreamInv, HeadInv, ServeBody
  PROVE  Refuses \/ Quiet
<1> USE DEF Refuses, Errors, origin, writing
<1>1. /\ pc = "read_body" /\ ask # NULL /\ ~ Chunked(head)
      /\ \A n \in head.lengths : n = Len(load)
      /\ ClientHeaders = AskedHeaders
  <2>1. pc = "read_body"
    BY DEF ServeBody, BodyNone, BodyLengthTooLarge, ReadLength, LengthPending,
           LengthEof, LengthRead, ChunkedRead, ChunkedRejected, ReadChunked,
           ChunkedPending, ChunkedBody, ChunkedEof, ChunkedTooLarge
  <2>2. QED
    BY <2>1, HeadAtBody
<1>2. CASE BodyNone \/ LengthRead \/ ChunkedRead
  <2>1. BodyRead(load)
    BY <1>2, BodyIsLoad
  <2>2. /\ UNCHANGED <<origin, sent>>
        /\ \/ HeadersDenied(grant, ClientHeaders) /\ Fail("Header")
           \/ pc' = "send" /\ UNCHANGED answer
    BY <2>1, BodyReadEnds DEF BodyRead
  <2>3. CASE HeadersDenied(grant, ClientHeaders) /\ Fail("Header")
    BY <1>1, <2>2, <2>3 DEF Deserved
  <2>4. CASE pc' = "send" /\ UNCHANGED answer
    BY <2>2, <2>4 DEF Quiet, Answering
  <2>5. QED
    BY <2>2, <2>3, <2>4
<1>3. CASE BodyLengthTooLarge
  <2>1. /\ Fail("RequestTooLarge") /\ UNCHANGED <<origin, sent>>
        /\ \E n \in head.lengths : TooLong(n)
    BY <1>3 DEF BodyLengthTooLarge
  <2>2. Oversized
    BY <1>1, <2>1 DEF Oversized, TooLong
  <2>3. QED
    BY <2>1, <2>2 DEF Deserved
<1>4. CASE ReadLength
  BY <1>4 DEF ReadLength, LengthPending, Read, Quiet, Answering
<1>5. CASE LengthEof
  <2>1. AtEof /\ Fail("Handshake") /\ UNCHANGED <<socket, origin, sent>>
    BY <1>5 DEF LengthEof, ReadEof
  <2>2. PeerGone'
    BY <2>1, Types DEF HolderInv, AtEof, PeerGone, socket
  <2>3. QED
    BY <2>1, <2>2
<1>6. CASE ChunkedRejected \/ ReadChunked \/ ChunkedEof \/ ChunkedTooLarge
  BY <1>1, <1>6 DEF ChunkedRejected, ReadChunked, ChunkedPending, ChunkedBody,
                    ChunkedEof, ChunkedTooLarge
<1>7. QED
  BY <1>2, <1>3, <1>4, <1>5, <1>6 DEF ServeBody

\* The origin leg, and the end of the answer.
LEMMA OtherCauses ==
  ASSUME HoldersInv, \/ DropTheirs \/ StreamFails \/ ReadFails \/ Fetch
                     \/ WriteFails \/ Written \/ Shutdown \/ Drop
  PROVE  Refuses \/ Quiet \/ ReplyRead
<1> USE DEF Refuses, Errors, origin, writing
<1>0. pc \in {"send", "await"} => sent = <<>>
  BY NothingSaidYet
<1>1. CASE DropTheirs \/ StreamFails \/ Written \/ Shutdown \/ Drop
  BY <1>1 DEF DropTheirs, StreamFails, Written, Shutdown, Drop, AfterAnswer,
              Quiet, Answering
<1>2. CASE ReadFails
  BY <1>2 DEF ReadFails, Deserved
<1>3. CASE Send
  BY <1>0, <1>3 DEF Send, Quiet, Answering
<1>4. CASE FetchFails
  BY <1>4 DEF FetchFails, Deserved
<1>5. CASE ReadCapped
  <2>1. CASE Fail("ResponseTooLarge")
    BY <1>5, <2>1 DEF ReadCapped, Deserved
  <2>2. CASE UNCHANGED <<pc, answer>>
    BY <1>5, <2>2 DEF ReadCapped, Quiet
  <2>3. QED
    BY <1>5, <2>1, <2>2 DEF ReadCapped
<1>6. CASE \E r \in OriginResponse : OriginAnswers(r)
  <2>1. PICK r \in OriginResponse : OriginAnswers(r)
    BY <1>6
  <2>2. CASE Fail("ResponseTooLarge") /\ UNCHANGED reply
    BY <2>1, <2>2 DEF OriginAnswers, Deserved
  <2>3. CASE pc' = "read_capped" /\ UNCHANGED answer
    BY <1>0, <2>1, <2>3 DEF OriginAnswers, Quiet, Answering
  <2>4. QED
    BY <2>1, <2>2, <2>3 DEF OriginAnswers
<1>7. CASE WriteFails
  <2>1. /\ PeerGone \/ IoErrors
        /\ UNCHANGED <<socket, served, reply, sent>>
        /\ \/ Fail("Io")
           \/ pc' = "shutdown" /\ UNCHANGED answer
    BY <1>7 DEF WriteFails
  <2>2. PeerGone' \/ IoErrors
    BY <2>1 DEF PeerGone, socket
  <2>3. CASE Fail("Io")
    BY <2>1, <2>2, <2>3 DEF Deserved
  <2>4. CASE pc' = "shutdown" /\ UNCHANGED answer
    BY <2>1, <2>4 DEF Quiet, Answering
  <2>5. QED
    BY <2>1, <2>3, <2>4
<1>8. QED
  BY <1>1, <1>2, <1>3, <1>4, <1>5, <1>6, <1>7 DEF Fetch

\* Every step of the task refuses, relays, writes or leaves the answer alone.
LEMMA Causes ==
  ASSUME HoldersInv, StreamInv, HeadInv, Serve
  PROVE  Refuses \/ Quiet \/ ReplyRead \/ Write
BY HeadCauses, BodyCauses, OtherCauses DEF Serve, Answer

LEMMA CauseStep ==
  ASSUME HoldersInv, StreamInv, HeadInv, OriginInv, CauseInv, [Next]_vars
  PROVE  CauseInv'
<1>1. PeerGone => PeerGone'
  <2>1. [HP!Next]_(HP!vars)
    BY StepIsHolders DEF HoldersInv
  <2>2. HP!PeerGone <=> PeerGone
    BY DEF PeerGone, HP!PeerGone
  <2>3. HP!PeerGone => HP!PeerGone'
    BY <2>1, HoldersAssumptions, HP!PeerGoneStable
  <2>4. QED
    BY <2>3 DEF PeerGone, HP!PeerGone
<1>2. CASE Quiet
  <2>1. CASE UNCHANGED <<served, reply>> /\ (pc' = pc \/ ~ Answering')
    BY <1>1, <1>2, <2>1, ExplainedKept DEF Quiet, CauseInv, Answering
  <2>2. CASE sent = <<>> /\ ~ Answering'
    <3>1. Len(<<>>) = 0
      OBVIOUS
    <3>2. QED
      BY <1>2, <2>2, <3>1 DEF Quiet, CauseInv
  <2>3. QED
    BY <1>2, <2>1, <2>2 DEF Quiet
<1>3. CASE Refuses
  <2>1. PICK e \in Errors : Fail(e) /\ (Deserved(e) \/ PeerGone')
    BY <1>3 DEF Refuses
  <2>2. UNCHANGED <<served, reply, sent>>
    BY <1>3 DEF Refuses
  <2>3. ~ PeerGone' => answer' \in Explained'
    BY <2>1, RefusalAnswers
  <2>4. QED
    BY <2>2, <2>3, ExplainedKept DEF CauseInv
<1>4. CASE ReplyRead
  <2>1. /\ pc = "read_capped" /\ got = reply.length /\ answer' = Relayed
        /\ UNCHANGED <<served, reply, sent>>
    BY <1>4 DEF ReplyRead, origin
  <2>2. /\ reply \in OriginResponse /\ served # <<>> /\ got \in Nat
        /\ got <= grant.max_response_body
    BY <2>1, Types, DaemonTypes DEF OriginInv
  <2>3. {h \in reply.headers : ~ is_hop_by_hop(h, reply.nominated)}
          = reply.headers \ (HOP_BY_HOP \union reply.nominated)
    BY DEF is_hop_by_hop
  <2>4. Relayed \in Explained
    BY <2>1, <2>2, <2>3, DaemonAssumption DEF Relayed, Explained, Response
  <2>5. QED
    BY <2>1, <2>4, ExplainedKept DEF CauseInv
<1>5. CASE Write
  <2>1. /\ Answering /\ ~ PeerGone /\ answer \in Explained
        /\ sent' = Append(sent, [of |-> answer, n |-> wrote])
        /\ UNCHANGED <<served, reply, answer, pc>>
    BY <1>5 DEF Write, Unwritten, CauseInv, origin
  <2>2. sent \in Seq(Piece) /\ [of |-> answer, n |-> wrote] \in Piece
    BY <2>1, Types, DaemonTypes DEF Piece
  <2>3. /\ Len(sent) \in Nat /\ Len(sent') = Len(sent) + 1
        /\ \A i \in 1 .. Len(sent) : sent'[i] = sent[i]
        /\ sent'[Len(sent) + 1] = [of |-> answer, n |-> wrote]
    BY <2>1, <2>2, AppendProperties, LenProperties
  <2>4. \A i \in 1 .. Len(sent') : sent'[i].of \in Explained
    <3>1. SUFFICES ASSUME NEW i \in 1 .. Len(sent')
                   PROVE  sent'[i].of \in Explained
      OBVIOUS
    <3>2. CASE i \in 1 .. Len(sent)
      BY <2>3, <3>2 DEF CauseInv
    <3>3. CASE i = Len(sent) + 1
      BY <2>1, <2>3, <3>3
    <3>4. QED
      BY <2>3, <3>1, <3>2, <3>3
  <2>5. QED
    BY <2>1, <2>4, ExplainedKept DEF CauseInv
<1>6. CASE Crash \/ ClientStep \/ ClientDies \/ UNCHANGED vars
  <2>1. /\ UNCHANGED <<served, reply, answer, sent>>
        /\ pc' = pc \/ ~ Answering'
    BY <1>6, ClientKeeps
       DEF Crash, vars, daemonVars, origin, writing, Answering
  <2>2. QED
    BY <1>2, <2>1 DEF Quiet
<1>7. QED
  BY <1>2, <1>3, <1>4, <1>5, <1>6, Causes
     DEF Next, DaemonStep, DaemonCrash, Finished

(***************************************************************************)
(* What holds whether or not sockets fail.                                 *)
(***************************************************************************)
AnyInv ==
  /\ HoldersInv /\ StreamInv /\ TakenInv /\ HeadInv /\ OriginInv /\ CauseInv

LEMMA AnyInit == Init => AnyInv
<1> SUFFICES ASSUME Init PROVE AnyInv
  OBVIOUS
<1>1. HoldersInv
  BY HoldersInit
<1>2. /\ up = <<>> /\ buf = <<>> /\ head = NULL /\ put = 0 /\ down = <<>>
      /\ sent = <<>> /\ taken = <<>> /\ served = <<>> /\ pc = "delivered"
      /\ Len(<<>>) = 0
  BY DEF Init, DaemonInit
<1>3. StreamInv
  BY <1>2 DEF StreamInv, Consumed
<1>4. TakenInv
  BY <1>2 DEF TakenInv
<1>5. HeadInv /\ OriginInv
  BY <1>2 DEF HeadInv, OriginInv
<1>6. CauseInv
  BY <1>2 DEF CauseInv, Answering
<1>7. QED
  BY <1>1, <1>3, <1>4, <1>5, <1>6 DEF AnyInv

LEMMA AnyStep == AnyInv /\ [Next]_vars => AnyInv'
BY HoldersInvStep, StreamStep, TakenStep, HeadStep, OriginStep, CauseStep
   DEF AnyInv

\* What the client has read begins with an answer that is explained.
LEMMA ReadIsExplained ==
  ASSUME AnyInv, cpc \in {"read_body", "ok"}
  PROVE  /\ Response1 \in Explained /\ sent # <<>>
         /\ taken[1] = sent[1]
<1>1. /\ taken \in Seq(Piece) /\ taken # <<>> /\ sent \in Seq(Piece)
      /\ Len(taken) \in Nat /\ Len(down) \in Nat
  BY Types, DaemonTypes DEF AnyInv, ClientInv
<1>2. 1 \in 1 .. Len(taken)
  BY <1>1, EmptySeq
<1>3. taken[1] = sent[1] /\ Len(taken) + Len(down) = Len(sent)
  BY <1>2 DEF AnyInv, TakenInv
<1>4. 1 \in 1 .. Len(sent)
  BY <1>1, <1>2, <1>3
<1>5. sent # <<>>
  BY <1>1, <1>4, EmptySeq
<1>6. sent[1].of \in Explained
  BY <1>4 DEF AnyInv, CauseInv
<1>7. QED
  BY <1>3, <1>5, <1>6 DEF Response1

\* An answer in the origin's name is the origin's to the client's request.
LEMMA RelayedIsReply ==
  ASSUME AnyInv, cpc = "ok", Response1.by = "origin"
  PROVE  /\ Response1.status = reply.status
         /\ Response1.headers =
              reply.headers \ (HOP_BY_HOP \union reply.nominated)
         /\ Response1.length = reply.length
         /\ reply.length <= grant.max_response_body
         /\ served = <<OwnRequest>> /\ MatchesBinding(ask) /\ ask # NULL
<1>1. Response1 \in Explained
  BY ReadIsExplained
<1>2. /\ served # <<>> /\ Response1.status = reply.status
      /\ Response1.headers =
           reply.headers \ (HOP_BY_HOP \union reply.nominated)
      /\ Response1.length = reply.length
      /\ reply.length <= grant.max_response_body
  BY <1>1 DEF Explained
<1>3. QED
  BY <1>2 DEF AnyInv, OriginInv, HeadInv, BadRequest

\* An answer the client returns in the origin's name is the origin's answer
\* to the client's own request, which the origin saw byte for byte, and came
\* back within the cap and without the headers of the origin's connection;
\* however the stream was segmented and whether or not sockets fail.
THEOREM RoundTripCorrect == Spec => []RoundTrip
<1>1. AnyInv => RoundTrip
  <2> SUFFICES ASSUME AnyInv, cpc = "ok", Response1.by = "origin"
               PROVE  RoundTrip
    BY DEF RoundTrip
  <2>1. /\ Response1.status = reply.status
        /\ Response1.headers =
             reply.headers \ (HOP_BY_HOP \union reply.nominated)
        /\ Response1.length = reply.length
        /\ reply.length <= grant.max_response_body
        /\ served = <<OwnRequest>> /\ MatchesBinding(ask)
    BY RelayedIsReply
  <2>2. Len(served) = 1 /\ served[1] = OwnRequest
    BY <2>1
  <2>3. QED
    BY <2>1, <2>2 DEF RoundTrip, OwnRequest, MatchesBinding, apply_headers,
                      AskedHeaders
<1>2. QED
  BY AnyInit, AnyStep, <1>1, PTL DEF Spec

\* Exit status 0 means the whole of what the origin answered to the one
\* request, and never that the daemon refused it.
THEOREM ZeroIsAnAnswerCorrect == Spec => []ZeroIsAnAnswer
<1>1. AnyInv => ZeroIsAnAnswer
  <2> SUFFICES ASSUME AnyInv, cpc \in {"ok", "err"},
                      NEW fail_on_error \in BOOLEAN, Exit(fail_on_error) = 0
               PROVE  /\ Response1.by = "origin" /\ Len(served) = 1
                      /\ Len(taken) = reply.length + 1
                      /\ Response1.status = reply.status
                      /\ fail_on_error => reply.status < 400
    BY DEF ZeroIsAnAnswer
  <2>1. cpc = "ok" /\ REFUSED \notin Response1.headers
        /\ ~ (fail_on_error /\ Response1.status >= 400)
    BY DEF Exit
  <2>2. Response1 \in Explained
    BY <2>1, ReadIsExplained
  <2>3. Response1.by = "origin"
    BY <2>1, <2>2 DEF Explained
  <2>4. /\ Response1.status = reply.status
        /\ Response1.length = reply.length /\ served = <<OwnRequest>>
    BY <2>1, <2>3, RelayedIsReply
  <2>5. Len(served) = 1
    BY <2>4
  <2>6. Len(taken) = Response1.length + 1
    BY <2>1, Types DEF AnyInv, ClientInv
  <2>7. Response1.status \in Nat
    BY <2>2 DEF Explained, Response
  <2>8. QED
    BY <2>1, <2>3, <2>4, <2>5, <2>6, <2>7
<1>2. QED
  BY AnyInit, AnyStep, <1>1, PTL DEF Spec

-----------------------------------------------------------------------------
(***************************************************************************)
(* Where no live socket fails.                                             *)
(***************************************************************************)
SafeInv == AnyInv /\ HP!AnswerInv /\ ShutInv /\ SeenInv /\ LostInv

\* One answer is written, from its beginning, and to its end.
LEMMA AnswerFacts ==
  ASSUME HP!AnswerInv
  PROVE  /\ \A i \in 1 .. Len(sent) :
              sent[i] = [of |-> sent[1].of, n |-> i - 1]
         /\ Answering /\ ~ PeerGone =>
              /\ Len(sent) = wrote
              /\ \A i \in 1 .. Len(sent) :
                   sent[i] = [of |-> answer, n |-> i - 1]
         /\ pc \in {"shutdown", "drop", "returned"} /\ ~ PeerGone =>
              sent # <<>> /\ sent[Len(sent)].n = sent[1].of.length
BY DEF HP!AnswerInv, HP!OneAnswer, HP!Whole, HP!SentOf, HP!Answering,
       HP!PeerGone, Answering, PeerGone

LEMMA AnswerStep ==
  ASSUME ~ IoErrors, AnyInv, HP!AnswerInv, [Next]_vars
  PROVE  HP!AnswerInv'
<1>1. TypeInv /\ HP!TypeInv /\ HP!RefusalInv
  BY DEF AnyInv, HoldersInv
<1>2. [HP!Next]_(HP!vars)
  BY <1>1, StepIsHolders
<1>3. QED
  BY <1>1, <1>2, HoldersAssumptions, HP!AnswerStep

LEMMA ShutStep ==
  ASSUME ShutInv, [Next]_vars
  PROVE  ShutInv'
<1> USE DEF ShutInv, Over
<1>1. CASE Crash \/ ClientStep \/ ClientDies \/ UNCHANGED vars
  BY <1>1, ClientKeeps DEF Crash, vars, daemonVars, socket
<1>2. CASE DropTheirs \/ StreamFails \/ ReadFails \/ ServeHead
  BY <1>2
     DEF DropTheirs, StreamFails, ReadFails, HeadPending, LengthPending,
         ChunkedPending, ChunkedBody, ServeHead, ReadHead, HeadEof,
         HeadTooLarge, HeadRead, Read, ReadEof, Fail, socket
<1>3. CASE ServeBody
  BY <1>3
     DEF ServeBody, BodyNone, BodyLengthTooLarge, ReadLength, LengthPending,
         LengthEof, LengthRead, ChunkedRead, ChunkedRejected, ReadChunked,
         ChunkedPending, ChunkedBody, ChunkedEof, ChunkedTooLarge, BodyRead,
         Read, ReadEof, Fail, socket
<1>4. CASE Fetch \/ Answer
  BY <1>4
     DEF Fetch, Send, FetchFails, ReadCapped, ReplyRead, OriginAnswers,
         Answer, Write, WriteFails, Written, Shutdown, Drop, AfterAnswer,
         Unwritten, Answering, Fail, socket
<1>5. QED
  BY <1>1, <1>2, <1>3, <1>4
     DEF Next, DaemonStep, DaemonCrash, Serve, Finished

\* Once over, the task takes no step.
LEMMA OverStops ==
  ASSUME Serve
  PROVE  ~ Over
BY DEF Serve, Over, DropTheirs, StreamFails, ServeHead, ReadHead, HeadEof,
       HeadTooLarge, HeadPending, HeadRead, ServeBody, BodyNone,
       BodyLengthTooLarge, ReadLength, LengthEof, LengthPending, LengthRead,
       ChunkedRead, ChunkedRejected, ReadChunked, ChunkedEof, ChunkedTooLarge,
       ChunkedPending, ChunkedBody, ReadFails, Fetch, Send, FetchFails,
       ReadCapped, ReplyRead, OriginAnswers, Answer, Write, WriteFails,
       Unwritten, Answering, Written, Shutdown, Drop

\* The task leaves the head behind only once it has seen the whole of it.
LEMMA HeadSeen ==
  ASSUME ~ IoErrors, HoldersInv, StreamInv, HeadInv, Serve,
         pc \in {"delivered", "read_head"}
  PROVE  pc' = "read_head" \/ PeerGone' \/ put >= 2
<1>1. CASE DropTheirs \/ StreamFails \/ ReadFails
  BY <1>1 DEF DropTheirs, StreamFails, ReadFails
<1>2. CASE ReadHead
  BY <1>2 DEF ReadHead, HeadPending, Read
<1>3. CASE HeadEof
  <2>1. AtEof /\ UNCHANGED socket
    BY <1>3 DEF HeadEof, ReadEof
  <2>2. QED
    BY <2>1, Types DEF HolderInv, AtEof, PeerGone, socket
<1>4. CASE HeadTooLarge
  <2>1. Len(buf) > MAX_HEAD_LEN /\ head = NULL
    BY <1>4 DEF HeadTooLarge, HeadPending, HeadOverrun, HeadInv
  <2>2. Len(buf) + Len(up) = put
    BY <2>1, Types DEF StreamInv, Consumed
  <2>3. QED
    BY <2>1, <2>2, Types, HttpAssumption, ExchangeAssumption
<1>5. CASE HeadRead
  BY <1>5, HeadReadStep
<1>6. CASE ServeBody \/ Fetch \/ Answer
  BY <1>6
     DEF ServeBody, BodyNone, BodyLengthTooLarge, ReadLength, LengthPending,
         LengthEof, LengthRead, ChunkedRead, ChunkedRejected, ReadChunked,
         ChunkedPending, ChunkedBody, ChunkedEof, ChunkedTooLarge, Fetch,
         Send, FetchFails, ReadCapped, ReplyRead, OriginAnswers, Answer,
         Write, WriteFails, Unwritten, Answering, Written, Shutdown, Drop
<1>7. QED
  BY <1>1, <1>2, <1>3, <1>4, <1>5, <1>6 DEF Serve, ServeHead

LEMMA SeenStep ==
  ASSUME ~ IoErrors, AnyInv, HP!AnswerInv, SeenInv, [Next]_vars
  PROVE  SeenInv'
<1>0. /\ HoldersInv /\ StreamInv /\ HeadInv /\ OriginInv /\ CauseInv
      /\ put \in Nat
  BY Types DEF AnyInv
<1>1. PeerGone => PeerGone'
  <2>1. [HP!Next]_(HP!vars)
    BY <1>0, StepIsHolders DEF HoldersInv
  <2>2. HP!PeerGone => HP!PeerGone'
    BY <2>1, HoldersAssumptions, HP!PeerGoneStable
  <2>3. QED
    BY <2>2 DEF PeerGone, HP!PeerGone
<1>2. pc' \notin {"delivered", "read_head", "crashed"} /\ ~ PeerGone'
        => put' >= 2
  <2>1. CASE DaemonStep
    <3>1. Serve /\ put' = put
      BY <2>1 DEF DaemonStep, client
    <3>2. pc # "crashed"
      BY <3>1, OverStops DEF Over
    <3>3. QED
      BY <1>0, <1>1, <3>1, <3>2, HeadSeen DEF SeenInv
  <2>2. CASE ClientStep \/ ClientDies
    <3>1. put' = put \/ put' = put + 1
      BY <2>2 DEF ClientStep, ClientWrites, ClientWriteFails, ClientWritten,
                  ClientReads, ClientRejects, ClientEof, ClientDone,
                  ClientDies
    <3>2. QED
      BY <1>0, <1>1, <2>2, <3>1, ClientKeeps DEF SeenInv
  <2>3. CASE DaemonCrash \/ UNCHANGED vars
    BY <1>1, <2>3 DEF DaemonCrash, Crash, vars, daemonVars, client, SeenInv
  <2>4. QED
    BY <2>1, <2>2, <2>3 DEF Next, Finished
<1>3. sent' # <<>> /\ ~ PeerGone' => answer' = sent'[1].of
  <2> SUFFICES ASSUME sent' # <<>>, ~ PeerGone'
               PROVE  answer' = sent'[1].of
    OBVIOUS
  <2>1. CASE Answering'
    <3>1. HP!AnswerInv' /\ HoldersInv'
      BY <1>0, AnswerStep, HoldersInvStep
    <3>2. \A i \in 1 .. Len(sent') : sent'[i] = [of |-> answer', n |-> i - 1]
      BY <2>1, <3>1
         DEF HP!AnswerInv, HP!SentOf, HP!Answering, HP!PeerGone, Answering,
             PeerGone
    <3>3. 1 \in 1 .. Len(sent')
      <4>1. sent' \in Seq(Piece)
        BY <3>1
           DEF HoldersInv, HP!TypeInv, HP!TypeOK, HP!Piece, HP!Response, Piece,
               Response
      <4>2. QED
        BY <4>1, EmptySeq
    <3>4. sent'[1] = [of |-> answer', n |-> 1 - 1]
      BY <3>2, <3>3
    <3>5. QED
      BY <3>4
  <2>2. CASE ~ Answering'
    <3>1. UNCHANGED <<answer, sent>>
      <4>1. CASE Serve
        BY <1>0, <2>2, <4>1, Causes
           DEF Quiet, Refuses, Fail, ReplyRead, Write, Unwritten, Answering
      <4>2. CASE Crash \/ ClientStep \/ ClientDies \/ UNCHANGED vars
        BY <4>2, ClientKeeps DEF Crash, vars, daemonVars, writing
      <4>3. QED
        BY <4>1, <4>2 DEF Next, DaemonStep, DaemonCrash, Finished
    <3>2. QED
      BY <1>1, <3>1 DEF SeenInv
  <2>3. QED
    BY <2>1, <2>2
<1>4. QED
  BY <1>2, <1>3 DEF SeenInv

\* A client that fails to write its request was refused while it wrote.
LEMMA LostWriting ==
  ASSUME AnyInv, HP!AnswerInv, ShutInv, SeenInv, ClientWriteFails,
         pc # "crashed"
  PROVE  /\ pc = "returned" /\ load # <<>> /\ put < Len(RequestUnits)
         /\ answer.by = "daemon"
<1>1. /\ HolderInv /\ AskInv /\ ClientInv /\ HP!TypeInv /\ OriginInv
      /\ CauseInv /\ put \in Nat
  BY Types DEF AnyInv
<1>2. /\ pc = "returned" /\ put < Len(RequestUnits) /\ ~ PeerGone
  BY <1>1
     DEF ClientWriteFails, ShutInv, Over, HolderInv, ClientOver, PeerGone
<1>3. load # <<>>
  <2>1. put >= 2 /\ Len(<<>>) = 0
    BY <1>2 DEF SeenInv
  <2>2. Len(RequestUnits) = Len(load) + 2 /\ Len(load) \in Nat
    BY <1>1, RequestShape
  <2>3. Len(load) # 0
    BY <1>1, <1>2, <2>1, <2>2
  <2>4. QED
    BY <2>1, <2>3
<1>4. sent # <<>> /\ answer = sent[1].of
  BY <1>2, AnswerFacts DEF SeenInv
<1>5. sent[1].of \in Explained
  <2>1. 1 \in 1 .. Len(sent)
    BY <1>1, <1>4, DaemonTypes, EmptySeq
  <2>2. QED
    BY <1>1, <2>1 DEF CauseInv
<1>6. served = <<>>
  BY <1>1, <1>2 DEF OriginInv
<1>7. QED
  BY <1>2, <1>3, <1>4, <1>5, <1>6 DEF Explained

\* A client that does not take a head was answered with one the origin gave.
LEMMA LostToBulk ==
  ASSUME AnyInv, ClientRejects
  PROVE  /\ sent # <<>> /\ put = Len(RequestUnits)
         /\ reply # NULL /\ reply.headers \cap Bulky # {}
<1>1. /\ ClientInv /\ HP!TypeInv /\ TakenInv /\ CauseInv
      /\ Len(taken) \in Nat /\ Len(down) \in Nat
      /\ down \in Seq(Piece) /\ sent \in Seq(Piece)
  BY Types, DaemonTypes DEF AnyInv
<1>2. /\ cpc = "read_head" /\ down # <<>>
      /\ Head(down).of.headers \cap Bulky # {}
  BY DEF ClientRejects, TooBulky
<1>3. put = Len(RequestUnits) /\ Len(taken) = 0
  BY <1>1, <1>2 DEF ClientInv
<1>4. 1 \in 1 .. Len(down) /\ Head(down) = down[1]
  BY <1>1, <1>2, EmptySeq
<1>5. down[1] = sent[1] /\ 1 \in 1 .. Len(sent)
  BY <1>1, <1>3, <1>4 DEF TakenInv
<1>6. sent # <<>>
  BY <1>1, <1>5, EmptySeq
<1>7. sent[1].of \in Explained /\ sent[1].of.headers \cap Bulky # {}
  BY <1>1, <1>2, <1>4, <1>5 DEF CauseInv
<1>8. reply # NULL /\ reply.headers \cap Bulky # {}
  BY <1>7, DaemonAssumption, ExchangeAssumption DEF Explained
<1>9. QED
  BY <1>3, <1>6, <1>8

\* The stream ends early only where the daemon died: a task that returns has
\* written the length it announced.
LEMMA LostToCrash ==
  ASSUME AnyInv, HP!AnswerInv, ShutInv, ClientEof
  PROVE  pc = "crashed"
<1> SUFFICES ASSUME pc # "crashed" PROVE FALSE
  OBVIOUS
<1>1. /\ HolderInv /\ ClientInv /\ HP!TypeInv /\ TakenInv
      /\ Len(taken) \in Nat /\ Len(sent) \in Nat /\ sent \in Seq(Piece)
  BY Types, DaemonTypes DEF AnyInv
<1>2. /\ pc \in {"drop", "returned"} /\ ~ PeerGone
      /\ down = <<>> /\ Waiting
  BY <1>1
     DEF ClientEof, ShutInv, Waiting, HolderInv, ClientOver, PeerGone
<1>3. sent # <<>> /\ sent[Len(sent)].n = sent[1].of.length
  BY <1>2, AnswerFacts
<1>4. Len(sent) \in 1 .. Len(sent) /\ 1 \in 1 .. Len(sent)
  BY <1>1, <1>3, EmptySeq
<1>5. sent[1].of.length = Len(sent) - 1
  <2>1. sent[Len(sent)] = [of |-> sent[1].of, n |-> Len(sent) - 1]
    BY <1>4, AnswerFacts
  <2>2. QED
    BY <1>3, <2>1
<1>6. Len(taken) = Len(sent)
  <2>1. Len(down) = 0
    BY <1>2
  <2>2. QED
    BY <1>1, <2>1 DEF TakenInv
<1>7. CASE cpc = "read_head"
  BY <1>1, <1>4, <1>6, <1>7 DEF ClientInv
<1>8. CASE cpc = "read_body" /\ Len(taken) <= Response1.length
  <2>1. taken[1] = sent[1]
    BY <1>8, ReadIsExplained
  <2>2. Response1.length = sent[1].of.length
    BY <2>1 DEF Response1
  <2>3. Len(sent) <= Len(sent) - 1
    BY <1>5, <1>6, <1>8, <2>2
  <2>4. QED
    BY <1>1, <2>3
<1>9. QED
  BY <1>2, <1>7, <1>8 DEF Waiting

LEMMA LostStep ==
  ASSUME ~ IoErrors, SafeInv, [Next]_vars
  PROVE  LostInv'
<1>0. /\ AnyInv /\ HP!AnswerInv /\ ShutInv /\ SeenInv /\ LostInv
      /\ HoldersInv /\ StreamInv /\ HeadInv
  BY DEF SafeInv, AnyInv
<1>1. UNCHANGED load /\ RequestUnits' = RequestUnits
  BY <1>0, AskKept
<1>2. CASE DaemonStep
  <2>1. Serve /\ UNCHANGED <<cpc, put>> /\ ~ Over
    BY <1>2, OverStops DEF DaemonStep, client
  <2>2. sent # <<>> => sent' # <<>> /\ reply' = reply
    <3>1. CASE Refuses \/ Quiet
      BY <3>1 DEF Refuses, Quiet
    <3>2. CASE ReplyRead
      BY <3>2 DEF ReplyRead, origin
    <3>3. CASE Write
      <4>1. sent \in Seq(Piece) /\ [of |-> answer, n |-> wrote] \in Piece
        BY <1>0, <3>3, Types, DaemonTypes DEF Write, Unwritten, Piece
      <4>2. sent' # <<>>
        BY <3>3, <4>1, AppendProperties DEF Write
      <4>3. QED
        BY <3>3, <4>2 DEF Write, origin
    <3>4. QED
      BY <1>0, <2>1, <3>1, <3>2, <3>3, Causes
  <2>3. QED
    BY <1>0, <1>1, <2>1, <2>2 DEF LostInv, Over
<1>3. CASE DaemonCrash
  BY <1>3 DEF DaemonCrash, Crash, LostInv
<1>4. CASE ClientWriteFails
  <2>1. UNCHANGED <<pc, answer, put>>
    BY <1>4 DEF ClientWriteFails, writing
  <2>2. QED
    BY <1>0, <1>1, <1>4, <2>1, LostWriting DEF LostInv
<1>5. CASE ClientRejects
  <2>1. UNCHANGED <<pc, sent, reply, put>>
    BY <1>5 DEF ClientRejects, writing, origin
  <2>2. QED
    BY <1>0, <1>1, <1>5, <2>1, LostToBulk DEF LostInv
<1>6. CASE ClientEof
  BY <1>0, <1>6, LostToCrash DEF ClientEof, LostInv
<1>7. CASE \/ ClientWrites \/ ClientWritten \/ ClientReads \/ ClientDone
           \/ ClientDies
  BY <1>7 DEF ClientWrites, ClientWritten, ClientReads, ClientDone,
              ClientDies, Waiting, LostInv
<1>8. CASE Finished \/ UNCHANGED vars
  BY <1>0, <1>1, <1>8
     DEF Finished, vars, daemonVars, client, origin, writing, LostInv
<1>9. QED
  BY <1>2, <1>3, <1>4, <1>5, <1>6, <1>7, <1>8 DEF Next, ClientStep

LEMMA SafeInit == Init => SafeInv
<1>1. Init => HP!AnswerInv
  BY InitIsHolders, HoldersAssumptions, HP!AnswerInit
<1>2. Init => ShutInv /\ SeenInv /\ LostInv
  BY DEF Init, DaemonInit, ShutInv, SeenInv, LostInv
<1>3. QED
  BY <1>1, <1>2, AnyInit DEF SafeInv

LEMMA SafeStep ==
  ASSUME ~ IoErrors, SafeInv, [Next]_vars
  PROVE  SafeInv'
BY AnyStep, AnswerStep, ShutStep, SeenStep, LostStep DEF SafeInv

\* A response request_over_fd returns is one that was written, whole, from
\* the first byte of its head to the last of its body, and nothing else.
THEOREM WholeAnswerCorrect == ASSUME ~ IoErrors PROVE Spec => []WholeAnswer
<1>1. SafeInv => WholeAnswer
  <2> SUFFICES ASSUME SafeInv, cpc = "ok" PROVE taken = Encode(Response1)
    BY DEF WholeAnswer
  <2>1. /\ AnyInv /\ HP!AnswerInv /\ ClientInv /\ TakenInv
        /\ Len(taken) \in Nat /\ Len(down) \in Nat
    BY Types DEF SafeInv, AnyInv
  <2>2. Len(taken) = Response1.length + 1 /\ taken \in Seq(Piece)
    BY <2>1 DEF ClientInv
  <2>3. Response1 = sent[1].of
    BY <2>1, ReadIsExplained DEF Response1
  <2>4. \A i \in 1 .. Len(taken) : taken[i] = [of |-> Response1, n |-> i - 1]
    <3>1. SUFFICES ASSUME NEW i \in 1 .. Len(taken)
                   PROVE  taken[i] = [of |-> Response1, n |-> i - 1]
      OBVIOUS
    <3>2. i \in 1 .. Len(sent) /\ taken[i] = sent[i]
      BY <2>1 DEF TakenInv
    <3>3. QED
      BY <2>1, <2>3, <3>2, AnswerFacts
  <2>5. taken = [i \in 1 .. Len(taken) |-> taken[i]]
    BY <2>2, LenProperties
  <2>6. QED
    BY <2>2, <2>4, <2>5 DEF Encode
<1>2. SafeInv /\ [Next]_vars => SafeInv'
  BY SafeStep
<1>3. QED
  BY SafeInit, <1>1, <1>2, PTL DEF Spec

\* The status of a refusal names a mistake the client did make.
THEOREM RefusalIsJustCorrect == ASSUME ~ IoErrors PROVE Spec => []RefusalIsJust
<1>1. AnyInv => RefusalIsJust
  <2> SUFFICES ASSUME AnyInv, cpc = "ok", Response1.by = "daemon"
               PROVE  RefusalIsJust
    BY DEF RefusalIsJust
  <2>1. Response1 \in Explained
    BY ReadIsExplained
  <2>2. \/ Response1.status = 400 /\ BadRequest
        \/ Response1.status = 403 /\ Forbidden
        \/ Response1.status = 413 /\ Oversized
        \/ Response1.status = 502
    BY <2>1 DEF Explained
  <2>3. QED
    BY <2>2
       DEF RefusalIsJust, BadRequest, Forbidden, Oversized, AskedHeaders
<1>2. QED
  BY AnyInit, AnyStep, <1>1, PTL DEF Spec

\* Apart from the daemon's death, a client is left with an error only where
\* it was refused while it wrote its body, or the origin answered with a
\* head it does not take.
THEOREM OnlyRacedRefusalsAreLostCorrect ==
  ASSUME ~ IoErrors PROVE Spec => []OnlyRacedRefusalsAreLost
<1>1. SafeInv => OnlyRacedRefusalsAreLost
  BY DEF SafeInv, LostInv, OnlyRacedRefusalsAreLost
<1>2. SafeInv /\ [Next]_vars => SafeInv'
  BY SafeStep
<1>3. QED
  BY SafeInit, <1>1, <1>2, PTL DEF Spec

\* What a descriptor promises whoever holds it, it promises the shipped
\* client: one request at most, which is within the grant and the binding,
\* and one answer at most, which tells, unless it is a failure, whether the
\* origin was involved.
THEOREM ImplementsCapabilityCorrect == Spec => H!ImplementsCapability
<1> DEFINE told == IF sent = <<>> THEN "none" ELSE H!Verdict(sent[1].of)
<1>1. Init => H!C!Init
  BY DEF Init, DaemonInit, H!C!Init, H!Verdict
<1>2. HoldersInv /\ HoldersInv' /\ [Next]_vars
        => [H!C!Next]_<<bound, served, told>>
  <2>1. SUFFICES ASSUME HoldersInv, HoldersInv', [Next]_vars
                 PROVE  [H!C!Next]_<<bound, served, told>>
    OBVIOUS
  <2>2. /\ HP!TypeInv /\ HP!TypeInv' /\ HP!ServedInv /\ HP!ServedInv'
        /\ HP!RefusalInv /\ [HP!Next]_(HP!vars)
    BY <2>1, StepIsHolders DEF HoldersInv
  <2>3. [HP!C!Next]_<<bound, served, HP!Told>>
    BY <2>2, HoldersAssumptions, HP!CapabilityStep
  <2>4. HP!Told = told /\ HP!Told' = told'
    BY DEF HP!Told, HP!Verdict, H!Verdict
  <2>5. HP!C!Next => H!C!Next
    <3>1. HP!C!Use => H!C!Use
      BY DEF HP!C!Use, HP!C!Request, HP!C!Conveyed, HP!C!permits,
             HP!C!DENIED_CLIENT_HEADERS, HP!Verdict,
             H!C!Use, H!C!Request, H!C!Conveyed, H!C!permits,
             H!C!DENIED_CLIENT_HEADERS, H!Verdict
    <3>2. ASSUME NEW v, HP!C!Tell(v) PROVE H!C!Tell(v)
      BY <3>2 DEF HP!C!Tell, HP!Verdict, H!C!Tell, H!Verdict
    <3>3. QED
      BY <3>1, <3>2 DEF HP!C!Next, H!C!Next
  <2> HIDE DEF told
  <2>6. QED
    BY <2>3, <2>4, <2>5
<1>3. HoldersInv /\ [Next]_vars => HoldersInv'
  BY HoldersInvStep
<1>4. QED
  BY HoldersInit, <1>1, <1>2, <1>3, PTL
     DEF Spec, H!ImplementsCapability, H!C!Spec
==============================================================================
