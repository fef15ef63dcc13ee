------------------------ MODULE HoldersSafety_proofs ------------------------
(***************************************************************************)
(* What a descriptor guarantees whoever holds it, for every grant, every   *)
(* binding, every capacity and every number of holders: the safety         *)
(* properties of module Holders, and that it implements Capability.        *)
(***************************************************************************)
EXTENDS Holders_proofs

(***************************************************************************)
(* One request.  Up to the one await that sends it the origin has seen     *)
(* nothing, and what is about to be sent is within the grant.              *)
(***************************************************************************)
Unsent == pc \in {"delivered", "read_head", "read_body", "send"}

ServedInv ==
  /\ Unsent => served = <<>>
  /\ pc = "send" => /\ Len(body) <= grant.max_request_body
                    /\ ~ HeadersDenied(grant, ClientHeaders)
  /\ OneRequestConveyed

\* A body is handed on only within the cap, and with headers the grant lets
\* a client set.
LEMMA BodyReadStep ==
  ASSUME NEW b \in Seq(Octet), BodyRead(b), Len(b) <= grant.max_request_body
  PROVE  /\ UNCHANGED <<served, bound, sent, socket, head, buf, up>>
         /\ \/ pc' = "refuse"
            \/ /\ pc' = "send" /\ Len(body') <= grant.max_request_body
               /\ ~ HeadersDenied(grant, ClientHeaders)
               /\ ClientHeaders' = ClientHeaders
BY DEF BodyRead, Fail, ClientHeaders, socket, reading, origin

LEMMA ServedStep ==
  TypeInv /\ ServedInv /\ [Next]_vars => ServedInv'
<1> SUFFICES ASSUME TypeInv, ServedInv, [Next]_vars PROVE ServedInv'
  OBVIOUS
<1> USE DEF ServedInv, OneRequestConveyed, Unsent
<1>1. CASE DropTheirs \/ StreamFails \/ Crash \/ ReadFails
  BY <1>1 DEF DropTheirs, StreamFails, Crash, ReadFails, Fail, origin
<1>2. CASE ServeHead
  BY <1>2 DEF ServeHead, ReadHead, HeadEof, HeadTooLarge, HeadRead, HeadPending,
              Read, ReadEof, Fail, origin
<1>3. CASE BodyNone
  <2>1. <<>> \in Seq(Octet) /\ Len(<<>>) = 0
    BY EmptySeq
  <2>2. BodyRead(<<>>) /\ pc = "read_body"
    BY <1>3 DEF BodyNone
  <2>3. Len(<<>>) <= grant.max_request_body
    BY <2>1, DaemonAssumption DEF Grants
  <2>4. QED
    BY <2>1, <2>2, <2>3, BodyReadStep
<1>4. CASE LengthRead
  <2>1. PICK n \in head.lengths :
          ~ TooLong(n) /\ Len(buf) >= n /\ BodyRead(Octets(buf, n))
    BY <1>4 DEF LengthRead
  <2>2. n \in Nat /\ buf \in Seq(Unit) /\ pc = "read_body"
    BY <1>4, <2>1 DEF LengthRead, RequestHead, TypeInv, TypeOK, PcInv
  <2>3. Octets(buf, n) \in Seq(Octet) /\ Len(Octets(buf, n)) = n
    BY <2>1, <2>2, OctetsType, LenProperties
  <2>4. n <= grant.max_request_body
    BY <2>1, <2>2, DaemonAssumption DEF TooLong, Grants
  <2>5. QED
    BY <2>1, <2>2, <2>3, <2>4, BodyReadStep
<1>5. CASE ChunkedRead
  <2>1. PICK n \in 0 .. Len(buf) :
          n <= grant.max_request_body /\ BodyRead(Octets(buf, n))
    BY <1>5 DEF ChunkedRead, DecodesTo
  <2>2. buf \in Seq(Unit) /\ pc = "read_body"
    BY <1>5 DEF ChunkedRead, ChunkedBody, TypeInv, TypeOK
  <2>3. Octets(buf, n) \in Seq(Octet) /\ Len(Octets(buf, n)) = n
    BY <2>1, <2>2, OctetsType, LenProperties
  <2>4. QED
    BY <2>1, <2>2, <2>3, BodyReadStep
<1>6. CASE \/ BodyLengthTooLarge \/ ReadLength \/ LengthEof
           \/ ChunkedRejected \/ ReadChunked \/ ChunkedEof \/ ChunkedTooLarge
  BY <1>6 DEF BodyLengthTooLarge, ReadLength, LengthEof, ChunkedRejected,
              ReadChunked, ChunkedEof, ChunkedTooLarge, LengthPending,
              ChunkedPending, ChunkedBody, Read, ReadEof, Fail, origin
<1>7. CASE Send
  <2>1. /\ pc = "send" /\ served = <<>> /\ pc' = "await"
        /\ served' = Append(served, OriginRequest) /\ UNCHANGED bound
    BY <1>7 DEF Send
  <2>2. served' = <<OriginRequest>>
    BY <2>1
  <2>3. /\ OriginRequest.method = bound.method
        /\ OriginRequest.target = bound.target
        /\ grant.injected \subseteq OriginRequest.headers
        /\ \A h \in OriginRequest.headers \ grant.injected : permits(grant, h)
        /\ Len(OriginRequest.body) <= grant.max_request_body
    BY <2>1 DEF OriginRequest, apply_headers, HeadersDenied
  <2>4. QED
    BY <2>1, <2>2, <2>3
<1>8. CASE \/ FetchFails \/ ReadCapped \/ ReplyRead
           \/ \E r \in OriginResponse : OriginAnswers(r)
  BY <1>8 DEF FetchFails, ReadCapped, ReplyRead, OriginAnswers, Fail, origin
<1>9. CASE Answer
  BY <1>9 DEF Answer, Write, WriteFails, Written, Shutdown, Drop, Fail, origin,
              AfterAnswer, Unwritten, Answering
<1>10. CASE HoldersStep
  <2>1. UNCHANGED <<origin, request, pc, bound>>
    BY <1>10 DEF HoldersStep, HolderWrites, HolderReads, HalfClose, Delegate,
                 Close
  <2>2. QED
    BY <2>1 DEF origin, request, ClientHeaders
<1>11. CASE UNCHANGED vars
  BY <1>11 DEF vars, daemonVars, origin, request, ClientHeaders
<1>12. QED
  BY <1>1, <1>2, <1>3, <1>4, <1>5, <1>6, <1>7, <1>8, <1>9, <1>10, <1>11
     DEF Next, DaemonStep, DaemonCrash, Serve, ServeBody, Fetch, Finished

\* "Authority to make exactly one request".
THEOREM OneRequestConveyedCorrect == Spec => []OneRequestConveyed
<1>1. Init => ServedInv
  BY DEF Init, DaemonInit, ServedInv, OneRequestConveyed, Unsent
<1>2. ServedInv => OneRequestConveyed
  BY DEF ServedInv
<1>3. QED
  BY TypeInit, TypeStep, ServedStep, <1>1, <1>2, PTL DEF Spec

-----------------------------------------------------------------------------
(***************************************************************************)
(* The buffer.  A loop reads once more only while what it holds is within  *)
(* its limit, and one read adds READ units at most.                        *)
(***************************************************************************)
BufferInv ==
  /\ pc = "delivered" => buf = <<>>
  /\ pc = "read_head" => Len(buf) <= MAX_HEAD_LEN + READ
  /\ BufferBounded

\* Framing only adds to the bytes on the wire.
LEMMA RawLenAtLeast ==
  ASSUME NEW s \in Seq(Unit)
  PROVE  RawLen(s) \in Nat /\ Len(s) <= RawLen(s)
<1> DEFINE chunks == {i \in 1 .. Len(s) : s[i].kind = "chunk"}
<1>1. Len(s) \in Nat
  BY LenProperties
<1>2. IsFiniteSet(1 .. Len(s))
  BY <1>1, FS_Interval
<1>3. IsFiniteSet(chunks)
  BY <1>2, FS_Subset
<1>4. Cardinality(chunks) \in Nat
  BY <1>3, FS_CardinalityType
<1>5. CHUNK_FRAMING * Cardinality(chunks) \in Nat
  BY <1>4, HttpAssumption
<1>6. RawLen(s) = Len(s) + CHUNK_FRAMING * Cardinality(chunks)
  BY DEF RawLen
<1>7. QED
  BY <1>1, <1>5, <1>6

LEMMA BufferStep ==
  TypeInv /\ BufferInv /\ [Next]_vars => BufferInv'
<1> SUFFICES ASSUME TypeInv, BufferInv, [Next]_vars PROVE BufferInv'
  OBVIOUS
<1> USE DEF BufferInv, BufferBounded
<1>1. /\ buf \in Seq(Unit) /\ Len(buf) \in Nat
      /\ MAX_HEAD_LEN \in Nat /\ READ \in Nat /\ CHUNKED_SLACK \in Nat
      /\ grant.max_request_body \in Nat
  BY HttpAssumption, DaemonAssumption, LenProperties
     DEF TypeInv, TypeOK, Grants
\* A step that reads nothing and parses no head keeps the bound.
<1>0. ASSUME UNCHANGED <<buf, head>>,
              pc' = pc \/ pc' \notin {"delivered", "read_head"}
       PROVE  BufferInv'
  BY <1>0 DEF Chunked
<1>2. CASE DropTheirs
  <2>1. Len(<<>>) = 0
    OBVIOUS
  <2>2. QED
    BY <1>1, <1>2, <2>1 DEF DropTheirs, reading
<1>3. CASE ReadHead
  <2>1. Len(buf) <= MAX_HEAD_LEN /\ Read /\ pc = "read_head"
    BY <1>1, <1>3 DEF ReadHead, HeadOverrun, HeadPending
  <2>2. buf' \in Seq(Unit) /\ Len(buf') <= Len(buf) + READ /\ pc' = "read_head"
    BY <2>1, ReadStep
  <2>3. Len(buf') \in Nat
    BY <2>2, LenProperties
  <2>4. QED
    BY <1>1, <2>1, <2>2, <2>3
<1>4. CASE ReadLength
  <2>1. PICK n \in head.lengths : ~ TooLong(n) /\ Len(buf) < n
    BY <1>4 DEF ReadLength, LengthPending
  <2>2. Read /\ pc = "read_body" /\ n \in Nat
    BY <1>4, <2>1
       DEF ReadLength, LengthPending, TypeInv, TypeOK, PcInv, RequestHead
  <2>3. buf' \in Seq(Unit) /\ Len(buf') <= Len(buf) + READ /\ pc' = "read_body"
    BY <2>2, ReadStep
  <2>4. Len(buf') \in Nat
    BY <2>3, LenProperties
  <2>5. Len(buf) <= grant.max_request_body
    BY <1>1, <2>1, <2>2 DEF TooLong
  <2>6. head' # NULL /\ ~ Chunked(head)'
    BY <1>4, <2>2, HttpAssumption, DaemonAssumption
       DEF ReadLength, LengthPending, HasLength, Chunked, Read, request,
           TypeInv, PcInv
  <2>7. QED
    BY <1>1, <2>3, <2>4, <2>5, <2>6
<1>5. CASE ReadChunked
  <2>1. RawLen(buf) <= grant.max_request_body * 2 + CHUNKED_SLACK
    BY <1>1, <1>5, RawLenAtLeast DEF ReadChunked, ChunkedOverrun
  <2>2. Len(buf) <= grant.max_request_body * 2 + CHUNKED_SLACK
    BY <1>1, <2>1, RawLenAtLeast
  <2>3. Read /\ pc = "read_body"
    BY <1>5 DEF ReadChunked, ChunkedPending, ChunkedBody
  <2>4. buf' \in Seq(Unit) /\ Len(buf') <= Len(buf) + READ /\ pc' = "read_body"
    BY <2>3, ReadStep
  <2>5. Len(buf') \in Nat
    BY <2>4, LenProperties
  <2>6. head' # NULL /\ Chunked(head)'
    BY <1>5, <2>3, DaemonAssumption
       DEF ReadChunked, ChunkedPending, ChunkedBody, Read, request,
           Chunked, TypeInv, PcInv
  <2>7. QED
    BY <1>1, <2>2, <2>4, <2>5, <2>6
<1>6. CASE HeadRead
  <2>1. CASE pc' = "refuse" /\ UNCHANGED <<buf, head>>
    BY <1>0, <2>1
  <2>2. CASE pc' = "read_body" /\ pc = "read_head" /\
             \E e \in 1 .. Len(buf) : buf' = SubSeq(buf, e + 1, Len(buf))
    <3>1. PICK e \in 1 .. Len(buf) : buf' = SubSeq(buf, e + 1, Len(buf))
      BY <2>2
    <3>2. Len(buf') = Len(buf) - e
      BY <1>1, <3>1, SuffixType
    <3>3. QED
      BY <1>1, <2>2, <3>1, <3>2
  <2>3. QED
    BY <1>6, <2>1, <2>2 DEF HeadRead, Fail
<1>7. CASE \/ StreamFails \/ Crash \/ ReadFails \/ HeadEof \/ HeadTooLarge
  BY <1>7, <1>0
     DEF StreamFails, Crash, ReadFails, HeadEof, HeadTooLarge, ReadEof, Fail,
         reading, request
<1>8. CASE \/ BodyNone \/ BodyLengthTooLarge \/ LengthEof \/ LengthRead
           \/ ChunkedRead \/ ChunkedRejected \/ ChunkedEof \/ ChunkedTooLarge
  BY <1>8, <1>0
     DEF BodyNone, BodyLengthTooLarge, LengthEof, LengthRead, ChunkedRead,
         ChunkedRejected, ChunkedEof, ChunkedTooLarge, BodyRead, ReadEof,
         Fail, reading, request
<1>9. CASE Fetch
  BY <1>9, <1>0
     DEF Fetch, Send, FetchFails, ReadCapped, ReplyRead, OriginAnswers, Fail,
         reading, request
<1>10. CASE Answer
  BY <1>10, <1>0
     DEF Answer, Write, WriteFails, Written, Shutdown, Drop, Fail, reading,
         request, AfterAnswer
<1>11. CASE HoldersStep
  <2>1. UNCHANGED <<buf, head, pc>>
    BY <1>11 DEF HoldersStep, HolderWrites, HolderReads, HalfClose, Delegate,
                 Close, reading, request
  <2>2. QED
    BY <1>0, <2>1
<1>12. CASE UNCHANGED vars
  BY <1>12, <1>0 DEF vars, daemonVars, reading, request
<1>13. QED
  BY <1>2, <1>3, <1>4, <1>5, <1>6, <1>7, <1>8, <1>9, <1>10, <1>11, <1>12
     DEF Next, DaemonStep, DaemonCrash, Serve, ServeHead, ServeBody, Finished

\* No holder can make the daemon hold more than a limit and one read.
THEOREM BufferBoundedCorrect == Spec => []BufferBounded
<1>1. Init => BufferInv
  <2>1. Len(<<>>) = 0
    OBVIOUS
  <2>2. QED
    BY <2>1, HttpAssumption, DaemonAssumption
       DEF Init, DaemonInit, BufferInv, BufferBounded
<1>2. BufferInv => BufferBounded
  BY DEF BufferInv
<1>3. QED
  BY TypeInit, TypeStep, BufferStep, <1>1, <1>2, PTL DEF Spec

-----------------------------------------------------------------------------
(***************************************************************************)
(* Refusals.  An answer that is being written was just when it was chosen  *)
(* and stays so, since the origin sees nothing after that.                 *)
(***************************************************************************)
Just(r) ==
  /\ r.by = "daemon" /\ r.status \in {400, 403, 413} => served = <<>>
  /\ r.by = "origin" => Len(served) = 1

Unanswered == Unsent \/ pc \in {"await", "read_capped"}

RefusalInv ==
  /\ Unanswered => sent = <<>>
  /\ pc \in {"await", "read_capped"} => Len(served) = 1
  /\ Answering => Just(answer)
  /\ \A i \in 1 .. Len(sent) : Just(sent[i].of)

\* Before the request is sent any refusal is just; after that only one that
\* leaves open what became of it.
LEMMA FailJust ==
  ASSUME NEW e \in Errors, Fail(e), UNCHANGED served,
         \/ served = <<>>
         \/ e \in {"ResponseTooLarge", "Upstream", "Handshake", "Io"}
  PROVE  Just(answer)' /\ pc' = "refuse"
<1>1. CASE served = <<>>
  BY <1>1 DEF Fail, Just, Refusal
<1>2. CASE e \in {"ResponseTooLarge", "Upstream", "Handshake", "Io"}
  <2>1. StatusOf(e) \in {502, 500}
    BY <1>2 DEF StatusOf
  <2>2. QED
    BY <2>1 DEF Fail, Just, Refusal
<1>3. QED
  BY <1>1, <1>2

\* A refusal that is justly chosen while nothing has been written.
LEMMA FailRefusal ==
  ASSUME RefusalInv, NEW e \in Errors, Fail(e), UNCHANGED <<served, sent>>,
         \/ served = <<>>
         \/ e \in {"ResponseTooLarge", "Upstream", "Handshake", "Io"}
  PROVE  RefusalInv'
<1>1. Just(answer)' /\ pc' = "refuse"
  BY FailJust
<1>2. \A i \in 1 .. Len(sent') : Just(sent[i].of)'
  BY DEF RefusalInv, Just
<1>3. QED
  BY <1>1, <1>2 DEF RefusalInv, Unanswered, Unsent

LEMMA RefusalStep ==
  TypeInv /\ ServedInv /\ RefusalInv /\ [Next]_vars => RefusalInv'
<1> SUFFICES ASSUME TypeInv, ServedInv, RefusalInv, [Next]_vars
             PROVE  RefusalInv'
  OBVIOUS
<1> USE DEF Errors, origin, writing
<1>1. Unsent => served = <<>>
  BY DEF ServedInv
<1>2. CASE DropTheirs \/ StreamFails \/ Crash
  BY <1>2 DEF DropTheirs, StreamFails, Crash, RefusalInv, Unanswered, Unsent,
              Answering, Just
<1>3. CASE HeadEof \/ HeadTooLarge
  BY <1>1, <1>3, FailRefusal
     DEF HeadEof, HeadTooLarge, HeadPending, ReadEof, Unsent
<1>4. CASE ReadFails
  <2>1. Unsent
    BY <1>4 DEF ReadFails, Unsent, HeadPending, LengthPending, ChunkedPending,
                ChunkedBody
  <2>2. QED
    BY <1>1, <1>4, <2>1, FailRefusal DEF ReadFails
<1>5. CASE ReadHead \/ ReadLength \/ ReadChunked
  BY <1>5 DEF ReadHead, ReadLength, ReadChunked, Read, RefusalInv, Unanswered,
              Unsent, Answering, Just
<1>6. CASE HeadRead
  <2>1. CASE pc' = "read_body"
    BY <1>6, <2>1 DEF HeadRead, RefusalInv, Unanswered, Unsent, Answering, Just
  <2>2. CASE Fail("Http") \/ Fail("NotFixedRequest")
    BY <1>1, <1>6, <2>2, FailRefusal DEF HeadRead, Unsent
  <2>3. QED
    BY <1>6, <2>1, <2>2 DEF HeadRead
<1>7. CASE BodyNone \/ LengthRead \/ ChunkedRead
  <2>1. /\ Unsent /\ UNCHANGED <<served, sent>>
        /\ Fail("Header") \/ pc' = "send"
    BY <1>7 DEF BodyNone, LengthRead, ChunkedRead, ChunkedBody, BodyRead, Unsent
  <2>2. CASE Fail("Header")
    BY <1>1, <2>1, <2>2, FailRefusal
  <2>3. CASE pc' = "send"
    BY <2>1, <2>3 DEF RefusalInv, Unanswered, Unsent, Answering, Just
  <2>4. QED
    BY <2>1, <2>2, <2>3
<1>8. CASE \/ BodyLengthTooLarge \/ LengthEof
           \/ ChunkedRejected \/ ChunkedEof \/ ChunkedTooLarge
  <2>1. PICK e \in Errors : Fail(e)
    BY <1>8 DEF BodyLengthTooLarge, LengthEof, ChunkedRejected, ChunkedEof,
                ChunkedTooLarge, ReadEof
  <2>2. Unsent /\ UNCHANGED <<served, sent>>
    BY <1>8 DEF BodyLengthTooLarge, LengthEof, LengthPending, ChunkedRejected,
                ChunkedEof, ChunkedPending, ChunkedBody, ChunkedTooLarge,
                ReadEof, Unsent
  <2>3. QED
    BY <1>1, <2>1, <2>2, FailRefusal
<1>9. CASE Send
  <2>1. /\ served = <<>> /\ sent = <<>> /\ pc' = "await"
        /\ served' = Append(served, OriginRequest) /\ sent' = sent
    BY <1>1, <1>9 DEF Send, Unsent, Unanswered, RefusalInv
  <2>2. Len(served') = 1
    BY <2>1
  <2>3. QED
    BY <2>1, <2>2 DEF RefusalInv, Unanswered, Unsent, Answering
<1>10. CASE FetchFails
  BY <1>10, FailRefusal DEF FetchFails
<1>11. CASE ReadCapped
  <2>1. CASE Fail("ResponseTooLarge")
    BY <1>11, <2>1, FailRefusal DEF ReadCapped
  <2>2. CASE pc' = pc
    BY <1>11, <2>2
       DEF ReadCapped, RefusalInv, Unanswered, Unsent, Answering, Just
  <2>3. QED
    BY <1>11, <2>1, <2>2 DEF ReadCapped
<1>12. CASE ReplyRead
  BY <1>12 DEF ReplyRead, Relayed, RefusalInv, Unanswered, Unsent, Answering,
               Just
<1>13. CASE \E r \in OriginResponse : OriginAnswers(r)
  <2>1. PICK r \in OriginResponse : OriginAnswers(r)
    BY <1>13
  <2>2. CASE Fail("ResponseTooLarge")
    BY <2>1, <2>2, FailRefusal DEF OriginAnswers
  <2>3. CASE pc' = "read_capped"
    BY <2>1, <2>3
       DEF OriginAnswers, RefusalInv, Unanswered, Unsent, Answering, Just
  <2>4. QED
    BY <2>1, <2>2, <2>3 DEF OriginAnswers
<1>14. CASE Write
  <2>1. /\ Answering /\ Just(answer) /\ sent \in Seq(Piece)
        /\ \A i \in 1 .. Len(sent) : Just(sent[i].of)
    BY <1>14 DEF Write, Unwritten, RefusalInv, TypeInv, TypeOK
  <2>2. /\ sent' = Append(sent, [of |-> answer, n |-> wrote])
        /\ UNCHANGED <<served, answer, pc>>
    BY <1>14 DEF Write
  <2>3. Just(answer)'
    BY <2>1, <2>2 DEF Just
  <2>4. \A i \in 1 .. Len(sent') : Just(sent'[i].of)
    <3>1. SUFFICES ASSUME NEW i \in 1 .. Len(sent') PROVE Just(sent'[i].of)
      OBVIOUS
    <3>2. Len(sent) \in Nat /\ Len(sent') = Len(sent) + 1
      BY <2>1, <2>2, LenProperties
    <3>3. CASE i \in 1 .. Len(sent)
      <4>1. sent'[i] = sent[i]
        BY <2>1, <2>2, <3>3
      <4>2. QED
        BY <2>1, <3>3, <4>1
    <3>4. CASE i = Len(sent) + 1
      <4>1. sent'[i].of = answer
        BY <2>1, <2>2, <3>2, <3>4
      <4>2. QED
        BY <2>1, <4>1
    <3>5. QED
      BY <3>1, <3>2, <3>3, <3>4
  <2>5. \A i \in 1 .. Len(sent') : Just(sent[i].of)'
    BY <2>2, <2>4 DEF Just
  <2>6. QED
    BY <2>1, <2>2, <2>3, <2>5 DEF RefusalInv, Unanswered, Unsent, Answering
<1>15. CASE WriteFails
  <2>1. CASE Fail("Io")
    BY <1>15, <2>1, FailRefusal DEF WriteFails
  <2>2. CASE pc' = "shutdown"
    BY <1>15, <2>2
       DEF WriteFails, RefusalInv, Unanswered, Unsent, Answering, Just
  <2>3. QED
    BY <1>15, <2>1, <2>2 DEF WriteFails
<1>16. CASE Written \/ Shutdown \/ Drop
  BY <1>16 DEF Written, Shutdown, Drop, AfterAnswer, RefusalInv, Unanswered,
               Unsent, Answering, Just
<1>17. CASE HoldersStep \/ UNCHANGED vars
  <2>1. UNCHANGED <<served, sent, answer, pc>>
    BY <1>17 DEF HoldersStep, HolderWrites, HolderReads, HalfClose, Delegate,
                 Close, vars, daemonVars
  <2>2. QED
    BY <2>1 DEF RefusalInv, Unanswered, Unsent, Answering, Just
<1>18. QED
  BY <1>2, <1>3, <1>4, <1>5, <1>6, <1>7, <1>8, <1>9, <1>10, <1>11, <1>12,
     <1>13, <1>14, <1>15, <1>16, <1>17
     DEF Next, DaemonStep, DaemonCrash, Serve, ServeHead, ServeBody, Fetch,
         Answer, Finished

LEMMA RefusalInit == Init => RefusalInv
<1>1. Len(<<>>) = 0
  OBVIOUS
<1>2. QED
  BY <1>1 DEF Init, DaemonInit, RefusalInv, Answering

LEMMA ServedInit == Init => ServedInv
BY DEF Init, DaemonInit, ServedInv, OneRequestConveyed, Unsent

\* A refusal that says the request was bad, forbidden or too large means
\* that the origin has not seen it.
THEOREM RefusalLeavesOriginAloneCorrect == Spec => []RefusalLeavesOriginAlone
<1>1. RefusalInv => RefusalLeavesOriginAlone
  BY DEF RefusalInv, RefusalLeavesOriginAlone, Just
<1>2. QED
  BY TypeInit, TypeStep, ServedInit, ServedStep, RefusalInit, RefusalStep,
     <1>1, PTL DEF Spec

-----------------------------------------------------------------------------
(***************************************************************************)
(* One answer.  As long as somebody can listen and no socket fails, what   *)
(* has been sent is exactly what is written of the current answer, and a   *)
(* task that has stopped writing has written all of it.                    *)
(***************************************************************************)
SentOf(r, k) ==
  Len(sent) = k /\ \A i \in 1 .. k : sent[i] = [of |-> r, n |-> i - 1]

Whole == sent # <<>> /\ sent[Len(sent)].n = sent[1].of.length

AnswerInv ==
  /\ Answering /\ ~ PeerGone => SentOf(answer, wrote)
  /\ pc \in {"shutdown", "drop", "returned"} /\ ~ PeerGone => Whole
  /\ OneAnswer

\* Steps that write nothing leave what was written as it is.
LEMMA SentKept ==
  ASSUME AnswerInv, UNCHANGED sent, PeerGone => PeerGone'
  PROVE  /\ OneAnswer'
         /\ ~ PeerGone' /\ Answering => SentOf(answer, wrote)
         /\ ~ PeerGone' /\ pc \in {"shutdown", "drop", "returned"} => Whole'
BY DEF AnswerInv, OneAnswer, Whole

\* Nobody takes up a descriptor that everybody has let go of.
LEMMA PeerGoneStable ==
  ASSUME [Next]_vars, PeerGone
  PROVE  PeerGone'
<1>1. CASE DropTheirs \/ StreamFails \/ Crash
  BY <1>1 DEF DropTheirs, StreamFails, Crash, PeerGone
<1>2. CASE ReadFails \/ ServeHead
  BY <1>2 DEF ReadFails, ServeHead, ReadHead, HeadEof, HeadTooLarge, HeadRead,
              Read, ReadEof, socket, PeerGone
<1>3. CASE ServeBody
  BY <1>3 DEF ServeBody, BodyNone, BodyLengthTooLarge, ReadLength, LengthEof,
              LengthRead, ChunkedRead, ChunkedRejected, ReadChunked,
              ChunkedEof, ChunkedTooLarge, BodyRead, Read, ReadEof, socket,
              PeerGone
<1>4. CASE Fetch
  BY <1>4 DEF Fetch, Send, FetchFails, ReadCapped, ReplyRead, OriginAnswers,
              socket, PeerGone
<1>5. CASE Answer
  BY <1>5 DEF Answer, Write, WriteFails, Written, Shutdown, Drop, socket,
              PeerGone
<1>6. CASE HoldersStep
  BY <1>6 DEF HoldersStep, HolderWrites, HolderReads, HalfClose, Delegate,
              Close, socket, PeerGone
<1>7. CASE UNCHANGED vars
  BY <1>7 DEF vars, daemonVars, socket, PeerGone
<1>8. QED
  BY <1>1, <1>2, <1>3, <1>4, <1>5, <1>6, <1>7
     DEF Next, DaemonStep, DaemonCrash, Serve, Finished

\* An answer that is about to be written, with nothing written before it.
LEMMA AnswerFromTheStart ==
  ASSUME AnswerInv, RefusalInv, Unanswered, UNCHANGED sent,
         wrote' = 0, pc' \in {"refuse", "write_response"}
  PROVE  AnswerInv'
<1>1. sent' = <<>> /\ Len(sent') = 0
  BY DEF RefusalInv
<1>2. QED
  BY <1>1 DEF AnswerInv, OneAnswer, SentOf, Answering

LEMMA AnswerStep ==
  ASSUME ~ IoErrors, TypeInv, RefusalInv, AnswerInv, [Next]_vars
  PROVE  AnswerInv'
<1> USE DEF Errors, origin, writing
<1>1. PeerGone => PeerGone'
  BY PeerGoneStable
<1>2. CASE \/ HeadEof \/ HeadTooLarge \/ ReadFails \/ BodyLengthTooLarge
           \/ LengthEof \/ ChunkedRejected \/ ChunkedEof \/ ChunkedTooLarge
           \/ FetchFails \/ ReplyRead
  <2>1. Unanswered
    BY <1>2 DEF HeadEof, HeadTooLarge, HeadPending, ReadFails,
                BodyLengthTooLarge, LengthEof, LengthPending, ChunkedRejected,
                ChunkedEof, ChunkedTooLarge, ChunkedPending, ChunkedBody,
                FetchFails, ReplyRead, Unanswered, Unsent
  <2>2. UNCHANGED sent /\ wrote' = 0 /\ pc' \in {"refuse", "write_response"}
    BY <1>2 DEF HeadEof, HeadTooLarge, ReadFails, BodyLengthTooLarge,
                LengthEof, ChunkedRejected, ChunkedEof, ChunkedTooLarge,
                ReadEof, FetchFails, ReplyRead, Fail
  <2>3. QED
    BY <2>1, <2>2, AnswerFromTheStart
<1>3. CASE \/ HeadRead \/ BodyNone \/ LengthRead \/ ChunkedRead
           \/ ReadCapped \/ \E r \in OriginResponse : OriginAnswers(r)
  <2>1. /\ Unanswered /\ UNCHANGED sent
        /\ \/ wrote' = 0 /\ pc' = "refuse"
           \/ pc' \in {"read_body", "send", "read_capped"}
    BY <1>3 DEF HeadRead, BodyNone, LengthRead, ChunkedRead, ChunkedBody,
                BodyRead, ReadCapped, OriginAnswers, Fail, Unanswered, Unsent
  <2>2. CASE wrote' = 0 /\ pc' = "refuse"
    BY <2>1, <2>2, AnswerFromTheStart
  <2>3. CASE pc' \in {"read_body", "send", "read_capped"}
    BY <1>1, <2>1, <2>3, SentKept DEF AnswerInv, Answering
  <2>4. QED
    BY <2>1, <2>2, <2>3
<1>4. CASE \/ DropTheirs \/ Crash \/ ReadHead \/ ReadLength \/ ReadChunked
           \/ Send
  <2>1. /\ UNCHANGED sent
        /\ pc' \in {"read_head", "read_body", "crashed", "await"}
    BY <1>4 DEF DropTheirs, Crash, ReadHead, HeadPending, ReadLength,
                LengthPending, ReadChunked, ChunkedPending, ChunkedBody, Read,
                Send
  <2>2. QED
    BY <1>1, <2>1, SentKept DEF AnswerInv, Answering
<1>5. CASE StreamFails
  BY <1>5 DEF StreamFails
<1>6. CASE Write
  <2>1. /\ Answering /\ SentOf(answer, wrote) /\ ~ PeerGone
        /\ wrote <= answer.length
    BY <1>6 DEF Write, Unwritten, AnswerInv
  <2>2. /\ sent' = Append(sent, [of |-> answer, n |-> wrote])
        /\ wrote' = wrote + 1 /\ UNCHANGED <<answer, pc, holders, theirs>>
    BY <1>6 DEF Write, socket
  <2>3. /\ sent \in Seq(Piece) /\ Len(sent) = wrote /\ wrote \in Nat
        /\ answer.length \in Nat
    BY <2>1 DEF SentOf, TypeInv, TypeOK, PcInv, Answering, Response
  <2>4. Len(sent') = wrote + 1
    BY <2>2, <2>3
  <2>5. \A i \in 1 .. wrote + 1 : sent'[i] = [of |-> answer, n |-> i - 1]
    <3>1. \A i \in 1 .. wrote : sent'[i] = sent[i]
      BY <2>2, <2>3
    <3>2. sent'[wrote + 1] = [of |-> answer, n |-> wrote]
      BY <2>2, <2>3
    <3>3. QED
      BY <2>1, <2>3, <3>1, <3>2 DEF SentOf
  <2>6. SentOf(answer, wrote)'
    BY <2>2, <2>4, <2>5 DEF SentOf
  <2>7. OneAnswer'
    <3>1. sent'[1].of = answer
      <4>1. 1 \in 1 .. wrote + 1
        BY <2>3
      <4>2. sent'[1] = [of |-> answer, n |-> 1 - 1]
        BY <2>5, <4>1
      <4>3. QED
        BY <4>2
    <3>2. QED
      BY <2>1, <2>3, <2>4, <2>5, <3>1 DEF OneAnswer
  <2>8. QED
    BY <2>1, <2>2, <2>6, <2>7 DEF AnswerInv, Answering
<1>7. CASE WriteFails
  <2>1. PeerGone' /\ UNCHANGED sent
    BY <1>1, <1>7 DEF WriteFails
  <2>2. QED
    BY <1>1, <2>1, SentKept DEF AnswerInv
<1>8. CASE Written
  <2>1. /\ Answering /\ wrote = answer.length + 1 /\ pc' = "shutdown"
        /\ UNCHANGED <<sent, holders, theirs>>
    BY <1>8 DEF Written, AfterAnswer, socket
  <2>2. CASE PeerGone
    BY <1>1, <2>1, <2>2, SentKept DEF AnswerInv
  <2>3. CASE ~ PeerGone
    <3>1. SentOf(answer, wrote)
      BY <2>1, <2>3 DEF AnswerInv
    <3>2. wrote \in Nat \ {0} /\ answer.length \in Nat
      BY <2>1 DEF TypeInv, TypeOK, PcInv, Answering, Response
    <3>3. /\ Len(sent) = wrote
          /\ sent[wrote] = [of |-> answer, n |-> wrote - 1]
          /\ sent[1] = [of |-> answer, n |-> 0]
      BY <3>1, <3>2 DEF SentOf
    <3>4. Whole'
      BY <2>1, <3>2, <3>3 DEF Whole
    <3>5. QED
      BY <1>1, <2>1, <3>4, SentKept DEF AnswerInv, Answering
  <2>4. QED
    BY <2>2, <2>3
<1>9. CASE Shutdown \/ Drop
  BY <1>1, <1>9, SentKept DEF Shutdown, Drop, AnswerInv, Answering
<1>10. CASE HoldersStep \/ UNCHANGED vars
  <2>1. UNCHANGED <<sent, answer, wrote, pc>>
    BY <1>10 DEF HoldersStep, HolderWrites, HolderReads, HalfClose, Delegate,
                 Close, vars, daemonVars
  <2>2. QED
    BY <1>1, <2>1, SentKept DEF AnswerInv, Answering, SentOf
<1>11. QED
  BY <1>2, <1>3, <1>4, <1>5, <1>6, <1>7, <1>8, <1>9, <1>10
     DEF Next, DaemonStep, DaemonCrash, Serve, ServeHead, ServeBody, Fetch,
         Answer, Finished

LEMMA AnswerInit == Init => AnswerInv
<1>1. Len(<<>>) = 0
  OBVIOUS
<1>2. QED
  BY <1>1 DEF Init, DaemonInit, AnswerInv, OneAnswer, Answering

\* Where no live socket fails, one response is written and never two.
THEOREM OneAnswerCorrect == ASSUME ~ IoErrors PROVE Spec => []OneAnswer
<1>1. AnswerInv => OneAnswer
  BY DEF AnswerInv
<1>2. TypeInv /\ RefusalInv /\ AnswerInv /\ [Next]_vars => AnswerInv'
  BY AnswerStep
<1>3. QED
  BY TypeInit, TypeStep, ServedInit, ServedStep, RefusalInit, RefusalStep,
     AnswerInit, <1>1, <1>2, PTL DEF Spec

\* And a task never returns in silence while anybody could be listening.
THEOREM NeverSilentCorrect == ASSUME ~ IoErrors PROVE Spec => []NeverSilent
<1>1. AnswerInv => NeverSilent
  BY DEF AnswerInv, NeverSilent, Whole
<1>2. TypeInv /\ RefusalInv /\ AnswerInv /\ [Next]_vars => AnswerInv'
  BY AnswerStep
<1>3. QED
  BY TypeInit, TypeStep, ServedInit, ServedStep, RefusalInit, RefusalStep,
     AnswerInit, <1>1, <1>2, PTL DEF Spec

-----------------------------------------------------------------------------
(***************************************************************************)
(* The abstract capability.  Sending the request is its Use, writing the   *)
(* first piece of an answer is its Tell, every other step a stutter.       *)
(***************************************************************************)
Told == IF sent = <<>> THEN "none" ELSE Verdict(sent[1].of)

LEMMA CapabilityStutters ==
  ASSUME UNCHANGED <<bound, served>>,
         \/ UNCHANGED sent
         \/ sent # <<>> /\ sent' # <<>> /\ sent'[1] = sent[1]
  PROVE  UNCHANGED <<bound, served, Told>>
BY DEF Told, Verdict

LEMMA CapabilityUse ==
  ASSUME TypeInv, TypeInv', ServedInv, ServedInv', RefusalInv, Send
  PROVE  C!Use
<1>1. /\ served = <<>> /\ sent = <<>>
      /\ served' = Append(served, OriginRequest) /\ UNCHANGED <<bound, sent>>
  BY DEF Send, ServedInv, RefusalInv, Unanswered, Unsent, writing
<1>2. served' \in Seq(C!Request) /\ Len(served') = 1
  BY <1>1 DEF TypeInv, TypeOK
<1>3. C!Conveyed(bound, served'[1])
  <2>1. 1 \in 1 .. Len(served')
    BY <1>2
  <2>2. OneRequestConveyed'
    BY DEF ServedInv
  <2>3. /\ served'[1].method = bound'.method
        /\ served'[1].target = bound'.target
        /\ grant.injected \subseteq served'[1].headers
        /\ \A h \in served'[1].headers \ grant.injected : permits(grant, h)
        /\ Len(served'[1].body) <= grant.max_request_body
    BY <2>1, <2>2 DEF OneRequestConveyed
  <2>4. QED
    BY <1>1, <2>3 DEF C!Conveyed, C!permits, C!DENIED_CLIENT_HEADERS, permits,
                      DENIED_CLIENT_HEADERS
<1>4. QED
  BY <1>1, <1>2, <1>3 DEF C!Use

LEMMA CapabilityTell ==
  ASSUME TypeInv, RefusalInv, Write
  PROVE  (\E v \in {"relayed", "denied", "failed"} : C!Tell(v))
           \/ UNCHANGED <<bound, served, Told>>
<1>1. /\ Answering /\ Just(answer) /\ answer \in Response
      /\ sent \in Seq(Piece)
      /\ sent' = Append(sent, [of |-> answer, n |-> wrote])
      /\ UNCHANGED <<bound, served>>
  BY DEF Write, Unwritten, RefusalInv, TypeInv, TypeOK, PcInv, origin
<1>2. sent' # <<>> /\ Len(sent') = Len(sent) + 1 /\ Len(sent) \in Nat
  BY <1>1, LenProperties
<1>3. CASE sent = <<>>
  <2>1. sent'[1].of = answer
    BY <1>1, <1>3
  <2>2. Told = "none" /\ Told' = Verdict(answer)
    BY <1>2, <1>3, <2>1 DEF Told, Verdict
  <2>3. answer.by \in {"origin", "daemon"}
    BY <1>1 DEF Response
  <2>4. /\ Verdict(answer) \in {"relayed", "denied", "failed"}
        /\ Verdict(answer) = "relayed" => served # <<>>
        /\ Verdict(answer) = "denied" => served = <<>>
    <3>1. CASE answer.by = "origin"
      <4>1. Verdict(answer) = "relayed"
        BY <3>1 DEF Verdict
      <4>2. served # <<>>
        <5>1. Len(served) = 1 /\ Len(<<>>) = 0
          BY <1>1, <3>1 DEF Just
        <5>2. QED
          BY <5>1
      <4>3. QED
        BY <4>1, <4>2
    <3>2. CASE answer.by = "daemon" /\ answer.status \in {400, 403, 413}
      BY <1>1, <3>2 DEF Verdict, Just
    <3>3. CASE answer.by = "daemon" /\ answer.status \notin {400, 403, 413}
      BY <3>3 DEF Verdict
    <3>4. QED
      BY <2>3, <3>1, <3>2, <3>3
  <2>5. C!Tell(Verdict(answer))
    BY <1>1, <2>2, <2>4 DEF C!Tell, Told
  <2>6. QED
    BY <2>4, <2>5
<1>4. CASE sent # <<>>
  <2>1. sent'[1] = sent[1]
    <3>1. 1 \in 1 .. Len(sent)
      BY <1>1, <1>2, <1>4, EmptySeq
    <3>2. QED
      BY <1>1, <3>1, AppendProperties
  <2>2. QED
    BY <1>1, <1>2, <1>4, <2>1, CapabilityStutters
<1>5. QED
  BY <1>3, <1>4

LEMMA CapabilityStep ==
  ASSUME TypeInv, TypeInv', ServedInv, ServedInv', RefusalInv, [Next]_vars
  PROVE  [C!Next]_<<bound, served, Told>>
<1>1. CASE Send
  BY <1>1, CapabilityUse DEF C!Next
<1>2. CASE Write
  BY <1>2, CapabilityTell DEF C!Next
<1>3. CASE DropTheirs \/ StreamFails \/ Crash \/ ReadFails \/ ServeHead
  <2>1. UNCHANGED <<bound, served, sent>>
    BY <1>3 DEF DropTheirs, StreamFails, Crash, ReadFails, ServeHead, ReadHead,
                HeadEof, HeadTooLarge, HeadRead, Read, ReadEof, origin, writing
  <2>2. QED
    BY <2>1, CapabilityStutters
<1>4. CASE ServeBody
  <2>1. UNCHANGED <<bound, served, sent>>
    BY <1>4 DEF ServeBody, BodyNone, BodyLengthTooLarge, ReadLength, LengthEof,
                LengthRead, ChunkedRead, ChunkedRejected, ReadChunked,
                ChunkedEof, ChunkedTooLarge, BodyRead, Read, ReadEof, origin,
                writing
  <2>2. QED
    BY <2>1, CapabilityStutters
<1>5. CASE \/ FetchFails \/ ReadCapped \/ ReplyRead
           \/ \E r \in OriginResponse : OriginAnswers(r)
  <2>1. UNCHANGED <<bound, served, sent>>
    BY <1>5 DEF FetchFails, ReadCapped, ReplyRead, OriginAnswers, origin,
                writing
  <2>2. QED
    BY <2>1, CapabilityStutters
<1>6. CASE WriteFails \/ Written \/ Shutdown \/ Drop
  <2>1. UNCHANGED <<bound, served, sent>>
    BY <1>6 DEF WriteFails, Written, Shutdown, Drop, origin, writing
  <2>2. QED
    BY <2>1, CapabilityStutters
<1>7. CASE HoldersStep \/ UNCHANGED vars
  <2>1. UNCHANGED <<bound, served, sent>>
    BY <1>7 DEF HoldersStep, HolderWrites, HolderReads, HalfClose, Delegate,
                Close, vars, daemonVars, origin, writing
  <2>2. QED
    BY <2>1, CapabilityStutters
<1>8. QED
  BY <1>1, <1>2, <1>3, <1>4, <1>5, <1>6, <1>7
     DEF Next, DaemonStep, DaemonCrash, Serve, Fetch, Answer, Finished

\* Whatever its holders do, the daemon implements module Capability.
THEOREM ImplementsCapabilityCorrect == Spec => ImplementsCapability
<1>1. Init => C!Init
  BY DEF Init, DaemonInit, C!Init
<1>2. TypeInv /\ TypeInv' /\ ServedInv /\ ServedInv' /\ RefusalInv
        /\ [Next]_vars
      => [C!Next]_<<bound, served, Told>>
  BY CapabilityStep
<1>3. QED
  BY TypeInit, TypeStep, ServedInit, ServedStep, RefusalInit, RefusalStep,
     <1>1, <1>2, PTL DEF Spec, ImplementsCapability, C!Spec, Told
=============================================================================
