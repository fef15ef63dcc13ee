--------------------------- MODULE Holders_proofs ---------------------------
(***************************************************************************)
(* Proofs about a descriptor in the hands of arbitrary holders.            *)
(***************************************************************************)
EXTENDS Holders, SequenceTheorems, FiniteSetTheorems, TLAPS

(***************************************************************************)
(* What each await of the task knows to be there.                          *)
(***************************************************************************)
PcInv ==
  /\ Answering => answer \in Response
  /\ pc \in {"read_body", "send"} => head \in RequestHead
  /\ pc = "read_capped" => reply \in OriginResponse

TypeInv == TypeOK /\ PcInv

-----------------------------------------------------------------------------
LEMMA RefusalType ==
  ASSUME NEW e \in Errors
  PROVE  Refusal(e) \in Response
BY DaemonAssumption DEF Errors, Refusal, StatusOf, Response

\* Reading moves units from the stream to the buffer.
LEMMA ReadType ==
  ASSUME up \in Seq(Unit), buf \in Seq(Unit), up # <<>>
  PROVE  /\ ReadSize \in 1 .. READ /\ ReadSize <= Len(up)
         /\ buf \o SubSeq(up, 1, ReadSize) \in Seq(Unit)
         /\ Len(buf \o SubSeq(up, 1, ReadSize)) = Len(buf) + ReadSize
         /\ SubSeq(up, ReadSize + 1, Len(up)) \in Seq(Unit)
         /\ Len(SubSeq(up, ReadSize + 1, Len(up))) <= Len(up)
<1>1. Len(up) \in Nat \ {0}
  BY EmptySeq
<1>2. ReadSize \in 1 .. READ /\ ReadSize <= Len(up)
  BY <1>1, DaemonAssumption DEF ReadSize
<1>3. \A i \in 1 .. Len(up) : up[i] \in Unit
  BY ElementOfSeq
<1>4. /\ SubSeq(up, 1, ReadSize) \in Seq(Unit)
      /\ Len(SubSeq(up, 1, ReadSize)) = ReadSize
  BY <1>1, <1>2, <1>3, DaemonAssumption, SubSeqProperties
<1>5. /\ SubSeq(up, ReadSize + 1, Len(up)) \in Seq(Unit)
      /\ Len(SubSeq(up, ReadSize + 1, Len(up))) <= Len(up)
  <2>1. \A i \in ReadSize + 1 .. Len(up) : up[i] \in Unit
    BY <1>1, <1>2, <1>3
  <2>2. QED
    BY <2>1, <1>1, <1>2, DaemonAssumption, SubSeqProperties
<1>6. QED
  BY <1>2, <1>4, <1>5, ConcatProperties

LEMMA ReadStep ==
  ASSUME TypeInv, Read
  PROVE  /\ up' \in Seq(Unit) /\ Len(up') <= Capacity
         /\ buf' \in Seq(Unit) /\ Len(buf') <= Len(buf) + READ
         /\ UNCHANGED <<socket, request, origin, writing, pc, bound>>
<1>1. up \in Seq(Unit) /\ buf \in Seq(Unit) /\ up # <<>> /\ Len(up) <= Capacity
  BY DEF TypeInv, TypeOK, Read
<1>2. /\ ReadSize \in 1 .. READ
      /\ buf' \in Seq(Unit) /\ Len(buf') = Len(buf) + ReadSize
      /\ up' \in Seq(Unit) /\ Len(up') <= Len(up)
      /\ UNCHANGED <<socket, request, origin, writing, pc, bound>>
  BY <1>1, ReadType DEF Read
<1>3. Len(up) \in Nat /\ Len(buf) \in Nat /\ Len(up') \in Nat
  BY <1>1, <1>2, LenProperties
<1>4. QED
  BY <1>1, <1>2, <1>3, DaemonAssumption

\* What follows the units a parser has consumed.
LEMMA SuffixType ==
  ASSUME NEW s \in Seq(Unit), NEW e \in 1 .. Len(s)
  PROVE  /\ SubSeq(s, e + 1, Len(s)) \in Seq(Unit)
         /\ Len(SubSeq(s, e + 1, Len(s))) = Len(s) - e
<1>1. Len(s) \in Nat
  BY LenProperties
<1>2. \A i \in e + 1 .. Len(s) : s[i] \in Unit
  BY <1>1, ElementOfSeq
<1>3. QED
  BY <1>1, <1>2, SubSeqProperties

LEMMA OctetsType ==
  ASSUME NEW s \in Seq(Unit), NEW n \in Nat, n <= Len(s)
  PROVE  Octets(s, n) \in Seq(Octet) /\ Len(Octets(s, n)) = n
<1>1. \A i \in 1 .. n : s[i].octet \in Octet
  <2>1. SUFFICES ASSUME NEW i \in 1 .. n PROVE s[i].octet \in Octet
    OBVIOUS
  <2>2. s[i] \in Unit
    BY ElementOfSeq, LenProperties
  <2>3. QED
    BY <2>2 DEF Unit
<1>2. QED
  BY <1>1 DEF Octets

\* Every way of failing leaves a refusal to be written from its beginning.
LEMMA FailType ==
  ASSUME NEW e \in Errors, Fail(e)
  PROVE  /\ answer' \in Response /\ wrote' = 0 /\ pc' = "refuse"
         /\ answer'.length \in Nat
         /\ answer' # NULL
BY RefusalType, DaemonAssumption DEF Fail, Response

\* Writing a piece never goes past the end of the answer.
LEMMA WroteType ==
  ASSUME Write, answer \in Response,
         wrote \in 0 .. (IF answer = NULL THEN 0 ELSE answer.length + 1)
  PROVE  /\ answer' = answer
         /\ wrote' \in 0 .. (IF answer' = NULL THEN 0 ELSE answer'.length + 1)
<1>1. answer' = answer /\ wrote' = wrote + 1 /\ wrote <= answer.length
  BY DEF Write, Unwritten
<1>2. answer.length \in Nat
  BY DEF Response
<1>3. answer # NULL
  BY DaemonAssumption
<1>4. wrote \in Nat
  BY <1>2, <1>3
<1>5. wrote + 1 \in 0 .. answer.length + 1
  BY <1>1, <1>2, <1>4
<1>6. QED
  BY <1>1, <1>3, <1>5

-----------------------------------------------------------------------------
(***************************************************************************)
(* Type correctness.                                                       *)
(***************************************************************************)
LEMMA TypeInit == Init => TypeInv
<1> SUFFICES ASSUME Init PROVE TypeInv
  OBVIOUS
<1> USE DEF Init, DaemonInit
<1>1. up \in Seq(Unit) /\ down \in Seq(Piece) /\ buf \in Seq(Unit)
      /\ body \in Seq(Octet) /\ served \in Seq(C!Request)
      /\ sent \in Seq(Piece) /\ Len(up) = 0 /\ Len(down) = 0
  BY EmptySeq
<1>2. holders \subseteq Holder /\ wrote \in 0 .. 0 /\ written \in 0 .. MaxWrites
      /\ got \in Nat
  BY HoldersAssumption
<1>3. TypeOK
  <2>1. /\ up \in Seq(Unit) /\ Len(up) <= Capacity
        /\ down \in Seq(Piece) /\ Len(down) <= Capacity
        /\ buf \in Seq(Unit) /\ body \in Seq(Octet)
        /\ served \in Seq(C!Request) /\ sent \in Seq(Piece)
    BY <1>1, DaemonAssumption
  <2>2. /\ theirs \in BOOLEAN /\ half \in BOOLEAN
        /\ ours \in {"open", "shut", "closed"}
        /\ pc \in {"delivered", "read_head", "read_body", "send", "await",
                   "read_capped", "write_response", "refuse", "shutdown",
                   "drop", "returned", "crashed"}
        /\ head \in RequestHead \union {NULL}
        /\ reply \in OriginResponse \union {NULL}
        /\ answer \in Response \union {NULL}
        /\ wrote \in 0 .. (IF answer = NULL THEN 0 ELSE answer.length + 1)
        /\ bound \in Bindings
    BY <1>2
  <2>3. QED
    BY <1>2, <2>1, <2>2 DEF TypeOK
<1>4. PcInv
  BY DEF PcInv, Answering
<1>5. QED
  BY <1>3, <1>4 DEF TypeInv

LEMMA TypeStep == TypeInv /\ [Next]_vars => TypeInv'
<1> SUFFICES ASSUME TypeInv, [Next]_vars PROVE TypeInv'
  OBVIOUS
<1> USE DEF TypeInv, TypeOK, PcInv, Answering, socket, reading, request,
            origin, writing, Errors
<1> USE DaemonAssumption, HoldersAssumption
<1>1. CASE DropTheirs /\ UNCHANGED written
  BY <1>1 DEF DropTheirs
<1>2. CASE StreamFails /\ UNCHANGED written
  BY <1>2 DEF StreamFails
<1>3. CASE ReadHead /\ UNCHANGED written
  BY <1>3, ReadStep DEF ReadHead, HeadPending
<1>4. CASE HeadEof /\ UNCHANGED written
  BY <1>4, FailType DEF HeadEof, ReadEof, HeadPending
<1>5. CASE HeadTooLarge /\ UNCHANGED written
  BY <1>5, FailType DEF HeadTooLarge
<1>6. CASE HeadRead /\ UNCHANGED written
  <2>1. PICK e \in 1 .. Len(buf) :
          \/ Fail("Http") /\ UNCHANGED <<buf, head>>
          \/ Fail("NotFixedRequest") /\ UNCHANGED <<buf, head>>
          \/ /\ Parses(buf, e)
             /\ head' = buf[e].head
             /\ buf' = SubSeq(buf, e + 1, Len(buf))
             /\ pc' = "read_body"
             /\ UNCHANGED <<answer, wrote>>
    BY <1>6 DEF HeadRead
  <2>2. UNCHANGED <<socket, up, body, origin, down, sent, bound>>
    BY <1>6 DEF HeadRead
  <2>3. CASE Fail("Http") /\ UNCHANGED <<buf, head>>
    BY <1>6, <2>2, <2>3, FailType
  <2>4. CASE Fail("NotFixedRequest") /\ UNCHANGED <<buf, head>>
    BY <1>6, <2>2, <2>4, FailType
  <2>5. CASE /\ Parses(buf, e)
             /\ head' = buf[e].head
             /\ buf' = SubSeq(buf, e + 1, Len(buf))
             /\ pc' = "read_body"
             /\ UNCHANGED <<answer, wrote>>
    <3>1. head' \in RequestHead
      <4>1. buf[e] \in Unit
        BY ElementOfSeq
      <4>2. QED
        BY <4>1, <2>5 DEF Unit, Parses
    <3>2. buf' \in Seq(Unit)
      BY <2>5, SuffixType
    <3>3. QED
      BY <1>6, <2>2, <2>5, <3>1, <3>2
  <2>6. QED
    BY <2>1, <2>3, <2>4, <2>5
<1>7. CASE BodyNone /\ UNCHANGED written
  <2>1. CASE Fail("Header") /\ UNCHANGED body
    BY <1>7, <2>1, FailType DEF BodyNone, BodyRead
  <2>2. CASE pc' = "send" /\ body' = <<>> /\ UNCHANGED <<answer, wrote>>
    <3>1. <<>> \in Seq(Octet)
      BY EmptySeq
    <3>2. QED
      BY <1>7, <2>2, <3>1 DEF BodyNone, BodyRead
  <2>3. QED
    BY <1>7, <2>1, <2>2 DEF BodyNone, BodyRead
<1>8. CASE BodyLengthTooLarge /\ UNCHANGED written
  BY <1>8, FailType DEF BodyLengthTooLarge
<1>9. CASE ReadLength /\ UNCHANGED written
  BY <1>9, ReadStep DEF ReadLength, LengthPending
<1>10. CASE LengthEof /\ UNCHANGED written
  BY <1>10, FailType DEF LengthEof, LengthPending, ReadEof
<1>11. CASE LengthRead /\ UNCHANGED written
  <2>1. PICK n \in head.lengths : Len(buf) >= n /\ BodyRead(Octets(buf, n))
    BY <1>11 DEF LengthRead
  <2>2. n \in Nat
    BY <1>11, <2>1 DEF LengthRead, RequestHead
  <2>3. Octets(buf, n) \in Seq(Octet)
    BY <2>1, <2>2, OctetsType, LenProperties
  <2>4. QED
    BY <1>11, <2>1, <2>3, FailType DEF LengthRead, BodyRead
<1>12. CASE ChunkedRead /\ UNCHANGED written
  <2>1. PICK n \in 0 .. Len(buf) : BodyRead(Octets(buf, n))
    BY <1>12 DEF ChunkedRead
  <2>2. Octets(buf, n) \in Seq(Octet)
    BY <2>1, OctetsType, LenProperties
  <2>3. QED
    BY <1>12, <2>1, <2>2, FailType DEF ChunkedRead, ChunkedBody, BodyRead
<1>13. CASE ChunkedRejected /\ UNCHANGED written
  BY <1>13, FailType DEF ChunkedRejected, ChunkedBody
<1>14. CASE ReadChunked /\ UNCHANGED written
  BY <1>14, ReadStep DEF ReadChunked, ChunkedPending, ChunkedBody
<1>15. CASE ChunkedEof /\ UNCHANGED written
  BY <1>15, FailType DEF ChunkedEof, ReadEof
<1>16. CASE ChunkedTooLarge /\ UNCHANGED written
  BY <1>16, FailType DEF ChunkedTooLarge
<1>17. CASE ReadFails /\ UNCHANGED written
  BY <1>17, FailType DEF ReadFails
<1>18. CASE Send /\ UNCHANGED written
  <2>1. OriginRequest \in C!Request
    BY <1>18 DEF Send, OriginRequest, ClientHeaders, apply_headers, C!Request,
                 RequestHead, Grants
  <2>2. served' \in Seq(C!Request)
    BY <1>18, <2>1, AppendProperties DEF Send
  <2>3. QED
    BY <1>18, <2>2 DEF Send
<1>19. CASE FetchFails /\ UNCHANGED written
  BY <1>19, FailType DEF FetchFails
<1>20. CASE ReadCapped /\ UNCHANGED written
  <2>1. CASE Fail("ResponseTooLarge") /\ UNCHANGED got
    BY <1>20, <2>1, FailType DEF ReadCapped
  <2>2. CASE got' = got + 1 /\ UNCHANGED <<pc, answer, wrote>>
    BY <1>20, <2>2 DEF ReadCapped
  <2>3. QED
    BY <1>20, <2>1, <2>2 DEF ReadCapped
<1>21. CASE ReplyRead /\ UNCHANGED written
  <2>1. Relayed \in Response
    BY <1>21 DEF ReplyRead, Relayed, Response
  <2>2. QED
    BY <1>21, <2>1 DEF ReplyRead, Relayed
<1>22. CASE (\E r \in OriginResponse : OriginAnswers(r)) /\ UNCHANGED written
  <2>1. PICK r \in OriginResponse : OriginAnswers(r)
    BY <1>22
  <2>2. CASE Fail("ResponseTooLarge") /\ UNCHANGED <<reply, got>>
    BY <1>22, <2>1, <2>2, FailType DEF OriginAnswers
  <2>3. CASE /\ pc' = "read_capped" /\ reply' = r /\ got' = 0
             /\ UNCHANGED <<answer, wrote>>
    BY <1>22, <2>1, <2>3 DEF OriginAnswers
  <2>4. QED
    BY <2>1, <2>2, <2>3 DEF OriginAnswers
<1>23. CASE Write /\ UNCHANGED written
  <2>1. answer \in Response /\ wrote <= answer.length
    BY <1>23 DEF Write, Unwritten
  <2>2. [of |-> answer, n |-> wrote] \in Piece /\ answer.length \in Nat
    BY <2>1 DEF Piece, Response
  <2>3. /\ down' \in Seq(Piece) /\ sent' \in Seq(Piece)
        /\ Len(down') = Len(down) + 1 /\ Len(down) \in Nat
    BY <1>23, <2>2, AppendProperties, LenProperties DEF Write
  <2>4. Len(down') <= Capacity
    BY <1>23, <2>3 DEF Write, HasRoom
  <2>5. /\ wrote' \in 0 .. (IF answer' = NULL THEN 0 ELSE answer'.length + 1)
        /\ answer' = answer
    BY <1>23, <2>1, WroteType
  <2>6. /\ UNCHANGED <<socket, reading, request, origin, pc, bound>>
        /\ UNCHANGED written
    BY <1>23 DEF Write
  <2>7. TypeOK'
    BY <2>3, <2>4, <2>5, <2>6
  <2>8. PcInv'
    BY <2>5, <2>6
  <2>9. QED
    BY <2>7, <2>8
<1>24. CASE WriteFails /\ UNCHANGED written
  BY <1>24, FailType DEF WriteFails, Unwritten
<1>25. CASE Written /\ UNCHANGED written
  BY <1>25 DEF Written, AfterAnswer
<1>26. CASE Shutdown /\ UNCHANGED written
  BY <1>26 DEF Shutdown
<1>27. CASE Drop /\ UNCHANGED written
  BY <1>27 DEF Drop
<1>28. CASE Crash /\ UNCHANGED written
  BY <1>28 DEF Crash
<1>29. CASE \E u \in HolderUnit : HolderWrites(u)
  <2>1. PICK u \in HolderUnit : HolderWrites(u)
    BY <1>29
  <2>2. up' \in Seq(Unit) /\ Len(up') = Len(up) + 1 /\ Len(up) \in Nat
    BY <2>1, AppendProperties, LenProperties DEF HolderWrites
  <2>3. QED
    BY <2>1, <2>2 DEF HolderWrites
<1>30. CASE HolderReads
  <2>1. down' \in Seq(Piece) /\ Len(down') = Len(down) - 1
        /\ Len(down) \in Nat
    BY <1>30, HeadTailProperties, LenProperties DEF HolderReads
  <2>2. QED
    BY <1>30, <2>1 DEF HolderReads
<1>31. CASE HalfClose \/ (\E h, g \in Holder : Delegate(h, g))
            \/ (\E h \in Holder : Close(h))
  <2>1. CASE HalfClose
    BY <2>1 DEF HalfClose
  <2>2. CASE \E h, g \in Holder : Delegate(h, g)
    BY <2>2 DEF Delegate
  <2>3. CASE \E h \in Holder : Close(h)
    BY <2>3 DEF Close
  <2>4. QED
    BY <1>31, <2>1, <2>2, <2>3
<1>32. CASE UNCHANGED vars
  BY <1>32 DEF vars, daemonVars
<1>33. QED
  BY <1>1, <1>2, <1>3, <1>4, <1>5, <1>6, <1>7, <1>8, <1>9, <1>10, <1>11,
     <1>12, <1>13, <1>14, <1>15, <1>16, <1>17, <1>18, <1>19, <1>20, <1>21,
     <1>22, <1>23, <1>24, <1>25, <1>26, <1>27, <1>28, <1>29, <1>30, <1>31,
     <1>32
     DEF Next, DaemonStep, DaemonCrash, HoldersStep, Finished, Serve,
         ServeHead, ServeBody, Fetch, Answer

\* Every reachable state is well typed, for every grant, every capacity and
\* every number of holders.
THEOREM TypeCorrect == Spec => []TypeOK
<1>1. TypeInv => TypeOK
  BY DEF TypeInv
<1>2. QED
  BY TypeInit, TypeStep, <1>1, PTL DEF Spec
=============================================================================
