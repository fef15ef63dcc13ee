-------------------------- MODULE ChunkedBody_proofs --------------------------
(***************************************************************************)
(* Proofs about the chunk decoder and the loop that runs it: for every     *)
(* stream of bytes, every limit and every way to cut the stream into       *)
(* reads.                                                                  *)
(***************************************************************************)
EXTENDS ChunkedBody, Induction

(***************************************************************************)
(* Machine words.                                                          *)
(***************************************************************************)
IsPowers(p) ==
  p = [i \in 0 .. DIGITS |-> IF i = 0 THEN 1 ELSE RADIX * p[i - 1]]

\* The powers of RADIX.
LEMMA Powers ==
  /\ powers[0] = 1
  /\ \A i \in 1 .. DIGITS : powers[i] = RADIX * powers[i - 1]
  /\ \A i \in 0 .. DIGITS : powers[i] \in Nat \ {0}
<1> DEFINE S == Nat \ {0}
           step == [i \in 1 .. DIGITS |-> [p \in S |-> RADIX * p]]
<1>1. DIGITS \in Nat \ {0} /\ RADIX \in Nat \ {0, 1}
  BY ChunkedBodyAssumption
<1>2. \A p \in S : RADIX * p \in S
  BY <1>1
<1>3. step \in Steps(DIGITS, S)
  BY <1>2 DEF Steps
<1>4. PICK f \in [0 .. DIGITS -> S] :
        f[0] = 1 /\ \A i \in 1 .. DIGITS : f[i] = step[i][f[i - 1]]
  <2> HIDE DEF step
  <2>1. 1 \in S /\ DIGITS \in Nat
    BY <1>1
  <2> HIDE DEF S
  <2>2. \E f \in Values(DIGITS, S) : Follows(f, DIGITS, 1, step)
    BY <1>3, <2>1, Recursion, Zenon
  <2>3. QED
    BY <2>2 DEF Values, Follows
<1>5. \A i \in 1 .. DIGITS : f[i] = RADIX * f[i - 1]
  <2>1. ASSUME NEW i \in 1 .. DIGITS PROVE f[i - 1] \in S
    <3>1. i - 1 \in 0 .. DIGITS
      BY <1>1
    <3>2. QED
      BY <1>4, <3>1
  <2> HIDE DEF S
  <2>2. QED
    BY <1>4, <2>1
<1>6. IsPowers(f)
  <2> HIDE DEF S, step
  <2>1. f = [i \in 0 .. DIGITS |-> f[i]]
    BY <1>4
  <2>2. \A i \in 0 .. DIGITS : f[i] = IF i = 0 THEN 1 ELSE RADIX * f[i - 1]
    BY <1>1, <1>4, <1>5
  <2>3. QED
    BY <2>1, <2>2 DEF IsPowers
<1>7. IsPowers(powers)
  BY <1>6, Zenon DEF powers, IsPowers
<1> HIDE DEF step
<1>8. /\ powers[0] = 1
      /\ \A i \in 1 .. DIGITS : powers[i] = RADIX * powers[i - 1]
  BY <1>1, <1>7 DEF IsPowers
<1>9. \A i \in 0 .. DIGITS : powers[i] \in S
  <2> DEFINE T == {i \in 0 .. DIGITS : powers[i] \in S}
  <2>1. 0 \in T
    BY <1>1, <1>8
  <2>2. ASSUME NEW i \in 0 .. DIGITS - 1, i \in T PROVE i + 1 \in T
    <3>1. i + 1 \in 1 .. DIGITS /\ i + 1 \in 0 .. DIGITS /\ (i + 1) - 1 = i
      BY <1>1
    <3>2. powers[i + 1] = RADIX * powers[i] /\ powers[i] \in S
      BY <1>8, <2>2, <3>1
    <3>3. QED
      BY <1>2, <3>1, <3>2
  <2>3. 0 .. DIGITS \subseteq T
    <3> HIDE DEF T
    <3>1. DIGITS \in Nat
      BY <1>1
    <3>2. QED
      BY <2>1, <2>2, <3>1, UpTo
  <2>4. QED
    BY <2>3
<1>10. QED
  BY <1>8, <1>9

\* There are numbers that fit a word.
LEMMA WordFacts == WORD \in Nat \ {0}
<1>1. DIGITS \in 0 .. DIGITS
  BY ChunkedBodyAssumption
<1>2. QED
  BY <1>1, Powers DEF WORD

\* A sum of words is a word.
LEMMA PlusFacts ==
  ASSUME NEW a \in Nat, NEW b \in Nat
  PROVE  plus(a, b) \in 0 .. WORD - 1 /\ plus(a, b) \in Nat
<1> DEFINE w == WORD
<1>1. w \in Nat \ {0}
  BY WordFacts
<1> HIDE DEF w
<1>2. (a + b) % w \in 0 .. w - 1
  BY <1>1
<1>3. QED
  BY <1>1, <1>2 DEF plus, w

IsSizes(line, n) ==
  n = [i \in 0 .. Len(line) |->
         IF i = 0 THEN 0 ELSE RADIX * n[i - 1] + line[i]]

\* The number that the first i digits are, for every i.
LEMMA Sizes ==
  ASSUME NEW line \in Seq(Nat)
  PROVE  \E n \in [0 .. Len(line) -> Nat] :
           /\ n[0] = 0
           /\ \A i \in 1 .. Len(line) : n[i] = RADIX * n[i - 1] + line[i]
           /\ Size(line) = n[Len(line)]
<1> DEFINE k == Len(line)
           step == [i \in 1 .. k |-> [m \in Nat |-> RADIX * m + line[i]]]
           n == CHOOSE v : IsSizes(line, v)
<1>1. k \in Nat /\ RADIX \in Nat
  BY ChunkedBodyAssumption, LenProperties
<1>2. \A i \in 1 .. k : line[i] \in Nat
  BY ElementOfSeq
<1>3. \A i \in 1 .. k : \A m \in Nat : RADIX * m + line[i] \in Nat
  <2>1. \A r, m, d \in Nat : r * m + d \in Nat
    OBVIOUS
  <2> HIDE DEF k
  <2>2. QED
    BY <1>1, <1>2, <2>1
<1>4. step \in Steps(k, Nat)
  BY <1>3 DEF Steps
<1>5. PICK f \in [0 .. k -> Nat] :
        f[0] = 0 /\ \A i \in 1 .. k : f[i] = step[i][f[i - 1]]
  <2> HIDE DEF k, step
  <2>1. 0 \in Nat
    OBVIOUS
  <2>2. \E f \in Values(k, Nat) : Follows(f, k, 0, step)
    BY <1>1, <1>4, <2>1, Recursion, Zenon
  <2>3. QED
    BY <2>2 DEF Values, Follows
<1>6. \A i \in 1 .. k : f[i] = RADIX * f[i - 1] + line[i]
  <2>1. ASSUME NEW i \in 1 .. k PROVE f[i - 1] \in Nat
    <3> HIDE DEF k
    <3>1. i - 1 \in 0 .. k
      BY <1>1
    <3>2. QED
      BY <1>5, <3>1
  <2>2. QED
    BY <1>5, <2>1
<1>7. IsSizes(line, f)
  <2> HIDE DEF step
  <2>1. f = [i \in 0 .. k |-> f[i]]
    BY <1>5
  <2>2. \A i \in 0 .. k :
          f[i] = IF i = 0 THEN 0 ELSE RADIX * f[i - 1] + line[i]
    <3> HIDE DEF k
    <3> QED
      BY <1>1, <1>5, <1>6
  <2>3. QED
    BY <2>1, <2>2 DEF IsSizes
<1>8. IsSizes(line, n)
  BY <1>7, Zenon
<1>9. Size(line) = n[k]
  BY Zenon DEF Size, IsSizes
<1> HIDE DEF step, n
<1>10. /\ n[0] = 0
       /\ \A i \in 1 .. k : n[i] = RADIX * n[i - 1] + line[i]
  <2>1. \A i \in 0 .. k :
          n[i] = IF i = 0 THEN 0 ELSE RADIX * n[i - 1] + line[i]
    BY <1>8 DEF IsSizes
  <2> HIDE DEF k
  <2>2. 0 \in 0 .. k /\ \A i \in 1 .. k : i \in 0 .. k /\ i # 0
    BY <1>1
  <2>3. QED
    BY <2>1, <2>2
<1>11. \A i \in 0 .. k : n[i] \in Nat
  <2> DEFINE T == {i \in 0 .. k : n[i] \in Nat}
  <2> HIDE DEF k
  <2>1. 0 \in T
    BY <1>1, <1>10
  <2>2. ASSUME NEW i \in 0 .. k - 1, i \in T PROVE i + 1 \in T
    <3>1. i + 1 \in 1 .. k /\ i + 1 \in 0 .. k /\ (i + 1) - 1 = i
      BY <1>1
    <3>2. n[i + 1] = RADIX * n[i] + line[i + 1] /\ n[i] \in Nat
      BY <1>10, <2>2, <3>1
    <3>3. QED
      BY <1>3, <3>1, <3>2
  <2>3. 0 .. k \subseteq T
    <3> HIDE DEF T
    <3>1. QED
      BY <1>1, <2>1, <2>2, UpTo
  <2>4. QED
    BY <2>3
<1>12. n \in [0 .. k -> Nat]
  BY <1>8, <1>11 DEF IsSizes
<1>13. QED
  BY <1>9, <1>10, <1>12

\* A size is a number, of whatever word.
LEMMA SizeType ==
  ASSUME NEW line \in Seq(Nat)
  PROVE  Size(line) \in Nat
<1>1. Len(line) \in 0 .. Len(line)
  BY LenProperties
<1>2. QED
  BY <1>1, Sizes

-----------------------------------------------------------------------------
(***************************************************************************)
(* Slices, and where a line ends.                                          *)
(***************************************************************************)
\* A slice has the bytes between its ends, none if they are the wrong way
\* round.
LEMMA SliceFacts ==
  ASSUME NEW bytes \in Seq(Byte), NEW a \in Nat, NEW b \in 0 .. Len(bytes)
  PROVE  /\ slice(bytes, a, b) \in Seq(Byte)
         /\ Len(slice(bytes, a, b)) = IF a <= b THEN b - a ELSE 0
         /\ \A i \in 1 .. b - a : slice(bytes, a, b)[i] = bytes[a + i]
<1> DEFINE m == a + 1
<1>1. m \in Int /\ b \in Int
  OBVIOUS
<1>2. \A i \in m .. b : bytes[i] \in Byte
  <2>1. \A i \in 1 .. Len(bytes) : bytes[i] \in Byte
    BY ElementOfSeq
  <2>2. \A i \in m .. b : i \in 1 .. Len(bytes)
    BY LenProperties
  <2>3. QED
    BY <2>1, <2>2
<1>3. m = a + 1
  OBVIOUS
<1> HIDE DEF m
<1>4. SubSeq(bytes, m, b) \in Seq(Byte)
  BY <1>1, <1>2, SubSeqProperties, Zenon
<1>5. Len(SubSeq(bytes, m, b)) = IF m <= b THEN b - m + 1 ELSE 0
  BY <1>1, <1>2, SubSeqProperties, Zenon
<1>6. \A i \in 1 .. b - m + 1 : SubSeq(bytes, m, b)[i] = bytes[m + i - 1]
  BY <1>1, <1>2, SubSeqProperties
<1>7. (IF m <= b THEN b - m + 1 ELSE 0) = IF a <= b THEN b - a ELSE 0
  BY <1>1, <1>3
<1>8. \A i \in 1 .. b - a : i \in 1 .. b - m + 1 /\ m + i - 1 = a + i
  BY <1>1, <1>3
<1>9. slice(bytes, a, b) = SubSeq(bytes, m, b)
  BY <1>3 DEF slice
<1>10. QED
  BY <1>4, <1>5, <1>6, <1>7, <1>8, <1>9

\* One stream goes on where another ends.
Extends(more, bytes) ==
  Len(bytes) <= Len(more) /\ \A i \in 1 .. Len(bytes) : more[i] = bytes[i]

\* Streams that begin alike have the same slices in what they share.
LEMMA SliceSame ==
  ASSUME NEW bytes \in Seq(Byte), NEW more \in Seq(Byte),
         Extends(more, bytes), NEW a \in Nat, NEW b \in 0 .. Len(bytes)
  PROVE  slice(more, a, b) = slice(bytes, a, b)
<1> DEFINE s == slice(bytes, a, b)
           t == slice(more, a, b)
<1>1. b \in 0 .. Len(more) /\ Len(bytes) \in Nat /\ Len(more) \in Nat
  BY LenProperties DEF Extends
<1>2. /\ s \in Seq(Byte) /\ Len(s) = IF a <= b THEN b - a ELSE 0
      /\ \A i \in 1 .. b - a : s[i] = bytes[a + i]
  BY SliceFacts
<1>3. /\ t \in Seq(Byte) /\ Len(t) = IF a <= b THEN b - a ELSE 0
      /\ \A i \in 1 .. b - a : t[i] = more[a + i]
  BY <1>1, SliceFacts
<1> HIDE DEF s, t
<1>4. ASSUME NEW i \in 1 .. Len(s) PROVE s[i] = t[i]
  <2>1. i \in 1 .. b - a /\ a + i \in 1 .. Len(bytes)
    BY <1>1, <1>2
  <2>2. QED
    BY <1>2, <1>3, <2>1 DEF Extends
<1>5. s = t
  BY <1>2, <1>3, <1>4, SeqEqual
<1>6. QED
  BY <1>5 DEF s, t

\* A CRLF lies at i.
At(bytes, i) == slice(bytes, i, i + 2) = CRLF

\* The first CRLF from a position is where it is found, or there is none.
LEMMA FindFacts ==
  ASSUME NEW bytes \in Seq(Byte), NEW from \in 0 .. Len(bytes)
  PROVE  /\ find_crlf(bytes, from) \in from .. Len(bytes)
         /\ find_crlf(bytes, from) # Len(bytes) =>
              /\ find_crlf(bytes, from) \in from .. Len(bytes) - 2
              /\ At(bytes, find_crlf(bytes, from))
         /\ \A i \in from .. Len(bytes) - 2 :
              At(bytes, i) => find_crlf(bytes, from) <= i
<1> DEFINE n == Len(bytes)
           T == {i \in from .. n - 2 : At(bytes, i)} \union {n}
           eol == find_crlf(bytes, from)
<1>1. n \in Nat /\ from \in 0 .. n
  BY LenProperties
<1>2. T \in SUBSET Nat /\ T # {}
  <2> HIDE DEF n
  <2> QED
    BY <1>1
<1>3. eol = Min(T)
  BY DEF find_crlf, At
<1>4. Min(T) \in T /\ \A y \in T : Min(T) <= y
  <2> HIDE DEF T
  <2>1. \E x \in T : \A y \in T : x <= y
    BY <1>2, Least, Zenon
  <2>2. QED
    BY <2>1, Zenon DEF Min
<1> HIDE DEF eol
<1>5. eol \in T /\ \A y \in T : eol <= y
  BY <1>3, <1>4
<1>6. /\ eol \in from .. n
      /\ eol # n => eol \in from .. n - 2 /\ At(bytes, eol)
      /\ \A i \in from .. n - 2 : At(bytes, i) => eol <= i
  <2> HIDE DEF n
  <2>1. QED
    BY <1>1, <1>5
<1>7. QED
  BY <1>6 DEF eol

\* A CRLF that is found is found wherever the stream goes on.
LEMMA FindSame ==
  ASSUME NEW bytes \in Seq(Byte), NEW more \in Seq(Byte),
         Extends(more, bytes), NEW from \in 0 .. Len(bytes),
         find_crlf(bytes, from) # Len(bytes)
  PROVE  find_crlf(more, from) = find_crlf(bytes, from)
<1> DEFINE n == Len(bytes)
           m == Len(more)
           e == find_crlf(bytes, from)
           f == find_crlf(more, from)
<1>1. n \in Nat /\ m \in Nat /\ n <= m /\ from \in 0 .. n /\ from \in 0 .. m
  BY LenProperties DEF Extends
<1>2. /\ e \in from .. n - 2 /\ At(bytes, e)
      /\ \A i \in from .. n - 2 : At(bytes, i) => e <= i
  BY FindFacts
<1>3. /\ f \in from .. m
      /\ f # m => f \in from .. m - 2 /\ At(more, f)
      /\ \A i \in from .. m - 2 : At(more, i) => f <= i
  BY <1>1, FindFacts
<1>4. \A i \in from .. n - 2 : At(bytes, i) <=> At(more, i)
  <2>1. ASSUME NEW i \in from .. n - 2 PROVE At(bytes, i) <=> At(more, i)
    <3>1. i \in Nat /\ i + 2 \in 0 .. Len(bytes)
      BY <1>1
    <3>2. QED
      BY <3>1, SliceSame DEF At
  <2>2. QED
    BY <2>1
<1> HIDE DEF n, m, e, f
<1>5. f <= e
  BY <1>1, <1>2, <1>3, <1>4
<1>6. f \in from .. n - 2 /\ At(more, f)
  BY <1>1, <1>2, <1>3, <1>5
<1>7. e <= f
  BY <1>2, <1>4, <1>6
<1>8. e = f
  BY <1>1, <1>2, <1>3, <1>5, <1>7
<1>9. QED
  BY <1>8 DEF e, f

-----------------------------------------------------------------------------
(***************************************************************************)
(* A turn of the loop: what it comes to, and that more bytes behind those  *)
(* it decided on do not change it.                                         *)
(***************************************************************************)
Outcome(bytes) ==
  [is : {"going", "more", "complete", "bad", "large", "panic"},
   pos : 0 .. Len(bytes), body : Seq(Byte)]

\* Bytes are numbers.
LEMMA ByteFacts == Byte \subseteq Nat /\ Seq(Byte) \subseteq Seq(Nat)
<1>1. Byte \subseteq Nat
  BY ChunkedBodyAssumption DEF Byte, DATA
<1>2. \A S, T : S \subseteq T => Seq(S) \subseteq Seq(T)
  OBVIOUS
<1>3. QED
  BY <1>1, <1>2, Zenon

\* An end keeps what was decoded.
LEMMA EndedType ==
  ASSUME NEW bytes, NEW s \in Outcome(bytes),
         NEW as \in {"more", "complete", "bad", "large", "panic"}
  PROVE  Ended(as, s) \in Outcome(bytes) /\ Ended(as, s).is = as
BY DEF Ended, Outcome

\* Behind the zero chunk: the type, and that more bytes change no decision.
LEMMA LastChunkFacts ==
  ASSUME NEW bytes \in Seq(Byte), NEW s \in Outcome(bytes),
         NEW at \in 0 .. Len(bytes)
  PROVE  /\ LastChunk(bytes, at, s) \in Outcome(bytes)
         /\ \A more \in Seq(Byte) :
              Extends(more, bytes) /\ LastChunk(bytes, at, s).is # "more" =>
                LastChunk(more, at, s) = LastChunk(bytes, at, s)
<1> DEFINE n == Len(bytes)
           e == find_crlf(bytes, at)
<1>1. n \in Nat /\ at \in 0 .. n
  BY LenProperties
<1>2. e # n => e \in at .. n - 2
  BY FindFacts
<1>3. CASE e = n
  <2>1. LastChunk(bytes, at, s) = Ended("more", s)
    BY <1>3 DEF LastChunk
  <2>2. QED
    BY <2>1, EndedType
<1>4. CASE e # n
  <2>1. e \in Nat /\ e + 2 \in 0 .. n
    BY <1>1, <1>2, <1>4
  <2>2. LastChunk(bytes, at, s) =
          IF e = at THEN [Ended("complete", s) EXCEPT !.pos = at + 2]
          ELSE Ended("bad", s)
    BY <1>4 DEF LastChunk
  <2>3. LastChunk(bytes, at, s) \in Outcome(bytes)
    <3>1. CASE e = at
      <4>1. at + 2 \in 0 .. Len(bytes)
        BY <2>1, <3>1
      <4>2. [Ended("complete", s) EXCEPT !.pos = at + 2] \in Outcome(bytes)
        BY <4>1 DEF Ended, Outcome
      <4>3. QED
        BY <2>2, <3>1, <4>2
    <3>2. CASE e # at
      BY <2>2, <3>2, EndedType
    <3>3. QED
      BY <3>1, <3>2
  <2>4. ASSUME NEW more \in Seq(Byte), Extends(more, bytes)
        PROVE  LastChunk(more, at, s) = LastChunk(bytes, at, s)
    <3>1. find_crlf(more, at) = e
      BY <1>4, <2>4, FindSame
    <3>2. e # Len(more)
      <4>1. Len(more) \in Nat /\ Len(more) >= n
        BY <2>4, LenProperties DEF Extends
      <4> HIDE DEF n, e
      <4>2. QED
        BY <1>1, <2>1, <4>1
    <3> HIDE DEF e
    <3>3. QED
      BY <2>2, <3>1, <3>2 DEF LastChunk
  <2>5. QED
    BY <2>3, <2>4
<1>5. QED
  BY <1>3, <1>4

\* The same of a chunk's data, also where its sums wrap.
LEMMA ChunkDataFacts ==
  ASSUME NEW bytes \in Seq(Byte), NEW s \in Outcome(bytes),
         NEW at \in 0 .. Len(bytes), NEW size \in Nat
  PROVE  /\ ChunkData(bytes, at, size, s) \in Outcome(bytes)
         /\ \A more \in Seq(Byte) :
              /\ Extends(more, bytes)
              /\ ChunkData(bytes, at, size, s).is # "more"
              => ChunkData(more, at, size, s) = ChunkData(bytes, at, size, s)
<1> DEFINE n == Len(bytes)
           stop == plus(at, size)
           next == plus(stop, 2)
<1>1. n \in Nat /\ at \in 0 .. n
  BY LenProperties
<1>2. stop \in Nat
  <2>1. at \in Nat
    BY <1>1
  <2>2. QED
    BY <2>1, PlusFacts, Zenon
<1>3. next \in Nat
  <2> HIDE DEF stop
  <2> QED
    BY <1>2, PlusFacts
<1>4. CASE n < next
  <2>1. ChunkData(bytes, at, size, s) = Ended("more", s)
    BY <1>4 DEF ChunkData
  <2>2. QED
    BY <2>1, EndedType
<1>5. CASE ~ (n < next)
  <2> DEFINE goes(b) ==
        IF next < stop THEN Ended("panic", s)
        ELSE IF slice(b, stop, next) # CRLF THEN Ended("bad", s)
        ELSE IF stop < at THEN Ended("panic", s)
        ELSE Going(next, s.body \o slice(b, at, stop))
  <2>1. ChunkData(bytes, at, size, s) = goes(bytes)
    BY <1>5, Zenon DEF ChunkData
  <2>2. goes(bytes) \in Outcome(bytes)
    <3>1. /\ Ended("panic", s) \in Outcome(bytes)
          /\ Ended("bad", s) \in Outcome(bytes)
      BY EndedType
    <3>2. CASE next < stop \/ stop < at
      BY <3>1, <3>2
    <3>3. CASE ~ (next < stop) /\ ~ (stop < at)
      <4>1. stop \in 0 .. n /\ next \in 0 .. n /\ at \in Nat
        <5> HIDE DEF n, stop, next
        <5> QED
          BY <1>1, <1>2, <1>3, <1>5, <3>3
      <4> HIDE DEF stop, next
      <4>2. slice(bytes, at, stop) \in Seq(Byte) /\ s.body \in Seq(Byte)
        BY <4>1, SliceFacts DEF Outcome
      <4>3. s.body \o slice(bytes, at, stop) \in Seq(Byte)
        BY <4>2, ConcatProperties, Zenon
      <4>4. Going(next, s.body \o slice(bytes, at, stop)) \in Outcome(bytes)
        BY <4>1, <4>3 DEF Going, Outcome
      <4>5. QED
        BY <3>1, <4>4
    <3>4. QED
      BY <3>2, <3>3
  <2>3. ASSUME NEW more \in Seq(Byte), Extends(more, bytes)
        PROVE  ChunkData(more, at, size, s) = goes(bytes)
    <3>1. ~ (Len(more) < next)
      <4>1. Len(more) \in Nat /\ Len(more) >= n
        BY <2>3, LenProperties DEF Extends
      <4> HIDE DEF n, next
      <4>2. QED
        BY <1>1, <1>3, <1>5, <4>1
    <3>2. ChunkData(more, at, size, s) = goes(more)
      BY <3>1, Zenon DEF ChunkData
    <3>3. CASE next < stop
      BY <3>2, <3>3
    <3>4. CASE ~ (next < stop)
      <4>1. stop \in Nat /\ stop \in 0 .. n /\ next \in 0 .. n /\ at \in Nat
        <5> HIDE DEF n, stop, next
        <5> QED
          BY <1>1, <1>2, <1>3, <1>5, <3>4
      <4> HIDE DEF stop, next
      <4>2. /\ slice(more, stop, next) = slice(bytes, stop, next)
            /\ slice(more, at, stop) = slice(bytes, at, stop)
        BY <2>3, <4>1, SliceSame
      <4>3. QED
        BY <3>2, <4>2
    <3>5. QED
      BY <3>3, <3>4
  <2> HIDE DEF goes
  <2>4. QED
    BY <2>1, <2>2, <2>3
<1>6. QED
  BY <1>4, <1>5

\* The same of a turn, whose line the bytes behind it do not change.
LEMMA ChunkFacts ==
  ASSUME NEW bytes \in Seq(Byte), NEW s \in Outcome(bytes), NEW cap
  PROVE  /\ Chunk(bytes, cap, s) \in Outcome(bytes)
         /\ \A more \in Seq(Byte) :
              Extends(more, bytes) /\ Chunk(bytes, cap, s).is # "more" =>
                Chunk(more, cap, s) = Chunk(bytes, cap, s)
<1> DEFINE n == Len(bytes)
           e == find_crlf(bytes, s.pos)
           line == slice(bytes, s.pos, e)
<1>1. n \in Nat /\ s.pos \in 0 .. n
  BY LenProperties DEF Outcome
<1>2. e # n => e \in s.pos .. n - 2
  BY <1>1, FindFacts
<1>3. CASE e = n
  <2>1. Chunk(bytes, cap, s) = Ended("more", s)
    BY <1>3 DEF Chunk
  <2>2. QED
    BY <2>1, EndedType
<1>4. CASE e # n
  <2>1. e \in Nat /\ e \in 0 .. n /\ e + 2 \in 0 .. n /\ s.pos \in Nat
    <3> HIDE DEF n, e
    <3> QED
      BY <1>1, <1>2, <1>4
  <2> DEFINE goes(b) ==
        IF ~ IsSize(line) THEN Ended("bad", s)
        ELSE IF Size(line) = 0 THEN LastChunk(b, e + 2, s)
        ELSE IF plus(Len(s.body), Size(line)) > cap THEN Ended("large", s)
        ELSE ChunkData(b, e + 2, Size(line), s)
  <2>2. Chunk(bytes, cap, s) = goes(bytes)
    BY <1>4, Zenon DEF Chunk
  <2>3. Size(line) \in Nat
    <3> HIDE DEF e
    <3>1. line \in Seq(Nat)
      BY <2>1, SliceFacts, ByteFacts
    <3>2. QED
      BY <3>1, SizeType
  <2>4. ASSUME NEW more \in Seq(Byte), Extends(more, bytes)
        PROVE  Chunk(more, cap, s) = goes(more)
    <3>1. find_crlf(more, s.pos) = e
      BY <1>1, <1>4, <2>4, FindSame
    <3>2. e # Len(more)
      <4>1. Len(more) \in Nat /\ Len(more) >= n
        BY <2>4, LenProperties DEF Extends
      <4> HIDE DEF n, e
      <4>2. QED
        BY <1>1, <2>1, <4>1
    <3>3. slice(more, s.pos, e) = line
      <4> HIDE DEF e
      <4> QED
        BY <2>1, <2>4, SliceSame
    <3> HIDE DEF e, line
    <3>4. QED
      BY <3>1, <3>2, <3>3, Zenon DEF Chunk
  <2> HIDE DEF line, e, n
  <2>5. goes(bytes) \in Outcome(bytes)
    <3>1. LastChunk(bytes, e + 2, s) \in Outcome(bytes)
      BY <2>1, LastChunkFacts DEF n
    <3>2. ChunkData(bytes, e + 2, Size(line), s) \in Outcome(bytes)
      BY <2>1, <2>3, ChunkDataFacts DEF n
    <3>3. /\ Ended("bad", s) \in Outcome(bytes)
          /\ Ended("large", s) \in Outcome(bytes)
      BY EndedType
    <3>4. QED
      BY <3>1, <3>2, <3>3
  <2>6. ASSUME NEW more \in Seq(Byte), Extends(more, bytes),
               goes(bytes).is # "more"
        PROVE  goes(more) = goes(bytes)
    <3>1. LastChunk(bytes, e + 2, s).is # "more" =>
            LastChunk(more, e + 2, s) = LastChunk(bytes, e + 2, s)
      BY <2>1, <2>6, LastChunkFacts DEF n
    <3>2. ChunkData(bytes, e + 2, Size(line), s).is # "more" =>
            ChunkData(more, e + 2, Size(line), s)
              = ChunkData(bytes, e + 2, Size(line), s)
      BY <2>1, <2>3, <2>6, ChunkDataFacts DEF n
    <3>3. QED
      BY <2>6, <3>1, <3>2
  <2> HIDE DEF goes
  <2>7. QED
    BY <2>2, <2>4, <2>5, <2>6
<1>5. QED
  BY <1>3, <1>4

-----------------------------------------------------------------------------
(***************************************************************************)
(* The loop.                                                               *)
(***************************************************************************)
IsLoop(bytes, cap, after) ==
  after = [i \in 0 .. Len(bytes) + 1 |->
             IF i = 0 THEN Going(0, <<>>) ELSE Turn(bytes, cap, after[i - 1])]

\* A turn stays among the outcomes.
LEMMA TurnFacts ==
  ASSUME NEW bytes \in Seq(Byte), NEW s \in Outcome(bytes), NEW cap
  PROVE  /\ Turn(bytes, cap, s) \in Outcome(bytes)
         /\ s.is # "going" => Turn(bytes, cap, s) = s
         /\ \A more \in Seq(Byte) :
              Extends(more, bytes) /\ Turn(bytes, cap, s).is # "more" =>
                Turn(more, cap, s) = Turn(bytes, cap, s)
<1>1. CASE s.is = "going"
  <2>1. \A b : Turn(b, cap, s) = Chunk(b, cap, s)
    BY <1>1 DEF Turn
  <2>2. QED
    BY <1>1, <2>1, ChunkFacts
<1>2. CASE s.is # "going"
  <2>1. \A b : Turn(b, cap, s) = s
    BY <1>2 DEF Turn
  <2>2. QED
    BY <2>1
<1>3. QED
  BY <1>1, <1>2

\* The state after every turn, the last of which is the decoder's.
LEMMA Looping ==
  ASSUME NEW bytes \in Seq(Byte), NEW cap
  PROVE  \E after \in [0 .. Len(bytes) + 1 -> Outcome(bytes)] :
           /\ after[0] = Going(0, <<>>)
           /\ \A i \in 1 .. Len(bytes) + 1 :
                after[i] = Turn(bytes, cap, after[i - 1])
           /\ decode_chunked(bytes, cap) = after[Len(bytes) + 1]
<1> DEFINE n == Len(bytes) + 1
           S == Outcome(bytes)
           start == Going(0, <<>>)
           step == [i \in 1 .. n |-> [s \in S |-> Turn(bytes, cap, s)]]
           after == CHOOSE a : IsLoop(bytes, cap, a)
<1>1. n \in Nat /\ n = Len(bytes) + 1 /\ Len(bytes) \in Nat
  BY LenProperties
<1>2. start \in S
  <2>1. 0 \in 0 .. Len(bytes) /\ <<>> \in Seq(Byte)
    BY <1>1
  <2>2. QED
    BY <2>1 DEF Going, Outcome
<1>3. \A s \in S : Turn(bytes, cap, s) \in S
  BY TurnFacts
<1>4. step \in Steps(n, S)
  <2> HIDE DEF S, n
  <2> QED
    BY <1>3 DEF Steps
<1> HIDE DEF S, start
<1>5. PICK f \in [0 .. n -> S] :
        f[0] = start /\ \A i \in 1 .. n : f[i] = step[i][f[i - 1]]
  <2> HIDE DEF n, step
  <2>1. \E f \in Values(n, S) : Follows(f, n, start, step)
    BY <1>1, <1>2, <1>4, Recursion, Zenon
  <2>2. QED
    BY <2>1 DEF Values, Follows
<1>6. \A i \in 1 .. n : f[i] = Turn(bytes, cap, f[i - 1])
  <2> HIDE DEF n
  <2>1. ASSUME NEW i \in 1 .. n PROVE f[i - 1] \in S
    <3>1. i - 1 \in 0 .. n
      BY <1>1
    <3>2. QED
      BY <1>5, <3>1
  <2>2. QED
    BY <1>5, <2>1
<1>7. IsLoop(bytes, cap, f)
  <2> HIDE DEF step
  <2>1. f = [i \in 0 .. n |-> f[i]]
    BY <1>5
  <2>2. \A i \in 0 .. n :
          f[i] = IF i = 0 THEN start ELSE Turn(bytes, cap, f[i - 1])
    <3> HIDE DEF n
    <3> QED
      BY <1>1, <1>5, <1>6
  <2>3. QED
    BY <2>1, <2>2 DEF IsLoop, start
<1>8. IsLoop(bytes, cap, after)
  BY <1>7, Zenon
<1>9. decode_chunked(bytes, cap) = after[n]
  BY Zenon DEF decode_chunked, IsLoop
<1> HIDE DEF step, after
<1>10. /\ after[0] = start
       /\ \A i \in 1 .. n : after[i] = Turn(bytes, cap, after[i - 1])
  <2>1. \A i \in 0 .. n :
          after[i] = IF i = 0 THEN start ELSE Turn(bytes, cap, after[i - 1])
    BY <1>8 DEF IsLoop, start
  <2> HIDE DEF n
  <2>2. 0 \in 0 .. n /\ \A i \in 1 .. n : i \in 0 .. n /\ i # 0
    BY <1>1
  <2>3. QED
    BY <2>1, <2>2
<1>11. \A i \in 0 .. n : after[i] \in S
  <2> DEFINE T == {i \in 0 .. n : after[i] \in S}
  <2> HIDE DEF n
  <2>1. 0 \in T
    BY <1>1, <1>2, <1>10
  <2>2. ASSUME NEW i \in 0 .. n - 1, i \in T PROVE i + 1 \in T
    <3>1. i + 1 \in 1 .. n /\ i + 1 \in 0 .. n /\ (i + 1) - 1 = i
      BY <1>1
    <3>2. after[i + 1] = Turn(bytes, cap, after[i]) /\ after[i] \in S
      BY <1>10, <2>2, <3>1
    <3>3. QED
      BY <1>3, <3>1, <3>2
  <2>3. 0 .. n \subseteq T
    <3> HIDE DEF T
    <3>1. QED
      BY <1>1, <2>1, <2>2, UpTo
  <2>4. QED
    BY <2>3
<1>12. after \in [0 .. n -> S]
  <2>1. after = [i \in 0 .. n |-> after[i]]
    BY <1>8 DEF IsLoop
  <2> HIDE DEF n
  <2>2. QED
    BY <1>11, <2>1
<1>13. QED
  BY <1>9, <1>10, <1>12 DEF S, start

\* So does the decoder.
LEMMA DecodedType ==
  ASSUME NEW bytes \in Seq(Byte), NEW cap
  PROVE  decode_chunked(bytes, cap) \in Outcome(bytes)
<1>1. Len(bytes) + 1 \in 0 .. Len(bytes) + 1
  BY LenProperties
<1>2. QED
  BY <1>1, Looping

\* What is decided of a stream is decided of every stream that begins with it.
LEMMA DecodedSame ==
  ASSUME NEW bytes \in Seq(Byte), NEW more \in Seq(Byte),
         Extends(more, bytes), NEW cap,
         decode_chunked(bytes, cap).is \notin {"going", "more"}
  PROVE  decode_chunked(more, cap) = decode_chunked(bytes, cap)
<1> DEFINE n == Len(bytes) + 1
           m == Len(more) + 1
<1>1. n \in Nat /\ m \in Nat /\ n <= m /\ n = Len(bytes) + 1
  BY LenProperties DEF Extends
<1>2. PICK a \in [0 .. Len(bytes) + 1 -> Outcome(bytes)] :
        /\ a[0] = Going(0, <<>>)
        /\ \A i \in 1 .. Len(bytes) + 1 : a[i] = Turn(bytes, cap, a[i - 1])
        /\ decode_chunked(bytes, cap) = a[Len(bytes) + 1]
  BY Looping
<1>3. PICK b \in [0 .. Len(more) + 1 -> Outcome(more)] :
        /\ b[0] = Going(0, <<>>)
        /\ \A i \in 1 .. Len(more) + 1 : b[i] = Turn(more, cap, b[i - 1])
        /\ decode_chunked(more, cap) = b[Len(more) + 1]
  BY Looping
<1>4. /\ \A i \in 0 .. n : a[i] \in Outcome(bytes)
      /\ \A i \in 1 .. n : a[i] = Turn(bytes, cap, a[i - 1])
      /\ \A i \in 0 .. m : b[i] \in Outcome(more)
      /\ \A i \in 1 .. m : b[i] = Turn(more, cap, b[i - 1])
      /\ a[n] = decode_chunked(bytes, cap) /\ b[m] = decode_chunked(more, cap)
  BY <1>2, <1>3
<1> HIDE DEF n, m
<1>5. a[n] = b[n]
  <2> DEFINE T == {i \in 0 .. n : a[i].is # "more" => b[i] = a[i]}
  <2>1. 0 \in T
    BY <1>1, <1>2, <1>3
  <2>2. ASSUME NEW i \in 0 .. n - 1, i \in T PROVE i + 1 \in T
    <3>1. /\ i + 1 \in 1 .. n /\ i + 1 \in 1 .. m /\ i \in 0 .. n
          /\ i + 1 \in 0 .. n /\ (i + 1) - 1 = i
      BY <1>1
    <3>2. /\ a[i + 1] = Turn(bytes, cap, a[i])
          /\ b[i + 1] = Turn(more, cap, b[i]) /\ a[i] \in Outcome(bytes)
      BY <1>4, <3>1
    <3>3. ASSUME a[i + 1].is # "more" PROVE b[i + 1] = a[i + 1]
      <4>1. a[i].is # "more"
        <5>1. a[i].is # "going" => Turn(bytes, cap, a[i]) = a[i]
          BY <3>2, TurnFacts
        <5>2. QED
          BY <3>2, <3>3, <5>1
      <4>2. b[i] = a[i]
        BY <2>2, <4>1
      <4>3. Turn(more, cap, a[i]) = Turn(bytes, cap, a[i])
        BY <3>2, <3>3, TurnFacts
      <4>4. QED
        BY <3>2, <4>2, <4>3
    <3>4. QED
      BY <3>1, <3>3
  <2>3. n \in T
    <3> HIDE DEF T
    <3>1. 0 .. n \subseteq T
      BY <1>1, <2>1, <2>2, UpTo
    <3>2. QED
      BY <1>1, <3>1
  <2>4. QED
    BY <1>4, <2>3
<1>6. b[m] = b[n]
  <2> DEFINE k == m - n
             T == {i \in 0 .. k : b[n + i] = b[n]}
  <2>1. k \in Nat /\ n + k = m
    BY <1>1
  <2>2. 0 \in T
    BY <1>1, <2>1
  <2>3. ASSUME NEW i \in 0 .. k - 1, i \in T PROVE i + 1 \in T
    <3>1. /\ n + (i + 1) \in 1 .. m /\ n + i \in 0 .. m /\ i + 1 \in 0 .. k
          /\ (n + (i + 1)) - 1 = n + i
      BY <1>1
    <3>2. b[n + (i + 1)] = Turn(more, cap, b[n + i]) /\ b[n + i] = b[n]
      BY <1>4, <2>3, <3>1
    <3>3. b[n].is # "going" /\ b[n] \in Outcome(more)
      BY <1>4, <1>5, <2>3, <3>1
    <3>4. Turn(more, cap, b[n]) = b[n]
      BY <3>3, TurnFacts
    <3>5. QED
      BY <3>1, <3>2, <3>4
  <2>4. k \in T
    <3> HIDE DEF T, k
    <3>1. 0 .. k \subseteq T
      BY <2>1, <2>2, <2>3, UpTo
    <3>2. QED
      BY <2>1, <3>1
  <2>5. QED
    BY <2>1, <2>4
<1>7. QED
  BY <1>4, <1>5, <1>6

-----------------------------------------------------------------------------
(***************************************************************************)
(* Sizes and sums that do not wrap.                                        *)
(***************************************************************************)
\* A size of few enough digits is a word.
LEMMA SizeBound ==
  ASSUME NEW line \in Seq(Byte), IsSize(line)
  PROVE  Size(line) \in Nat /\ Size(line) < WORD
<1> DEFINE k == Len(line)
<1>1. k \in 1 .. DIGITS /\ k \in Nat /\ DIGITS \in Nat
  BY ChunkedBodyAssumption, LenProperties DEF IsSize
<1>2. line \in Seq(Nat)
  BY ByteFacts
<1>3. PICK n \in [0 .. Len(line) -> Nat] :
        /\ n[0] = 0
        /\ \A i \in 1 .. Len(line) : n[i] = RADIX * n[i - 1] + line[i]
        /\ Size(line) = n[Len(line)]
  BY <1>2, Sizes
<1>4. \A i \in 1 .. k : line[i] \in Nat /\ line[i] < RADIX
  BY <1>2, ElementOfSeq DEF IsSize
<1>5. \A i \in 0 .. k : n[i] \in Nat
  BY <1>3
<1>6. \A i \in 1 .. k : n[i] = RADIX * n[i - 1] + line[i]
  BY <1>3
<1>7. n[k] = Size(line) /\ RADIX \in Nat \ {0}
  BY <1>3, ChunkedBodyAssumption
<1> HIDE DEF k
<1>8. n[k] < powers[k]
  <2> DEFINE T == {i \in 0 .. k : n[i] < powers[i]}
  <2>1. 0 \in T
    BY <1>1, <1>3, Powers
  <2>2. ASSUME NEW i \in 0 .. k - 1, i \in T PROVE i + 1 \in T
    <3>1. /\ i \in 0 .. k /\ i + 1 \in 0 .. k /\ i + 1 \in 1 .. k
          /\ i \in 0 .. DIGITS /\ i + 1 \in 1 .. DIGITS /\ (i + 1) - 1 = i
      BY <1>1
    <3>2. /\ n[i + 1] = RADIX * n[i] + line[i + 1]
          /\ powers[i + 1] = RADIX * powers[i]
      BY <1>6, <3>1, Powers
    <3>3. /\ n[i] \in Nat /\ powers[i] \in Nat /\ n[i] < powers[i]
          /\ line[i + 1] \in Nat /\ line[i + 1] < RADIX
      BY <1>4, <1>5, <2>2, <3>1, Powers
    <3>4. \A r \in Nat \ {0}, m, p, d \in Nat :
            d < r /\ m < p => r * m + d < r * p
      OBVIOUS
    <3>5. RADIX * n[i] + line[i + 1] < RADIX * powers[i]
      BY <1>7, <3>3, <3>4, Zenon
    <3>6. QED
      BY <3>1, <3>2, <3>5
  <2>3. k \in T
    <3> HIDE DEF T
    <3>1. 0 .. k \subseteq T
      BY <1>1, <2>1, <2>2, UpTo
    <3>2. QED
      BY <1>1, <3>1
  <2>4. QED
    BY <2>3
<1>9. powers[k] <= powers[DIGITS]
  <2> DEFINE d == DIGITS - k
             T == {j \in 0 .. d : powers[k] <= powers[k + j]}
  <2>1. d \in Nat /\ k + d = DIGITS /\ k \in 0 .. DIGITS
    BY <1>1
  <2>2. 0 \in T
    BY <1>1, <2>1, Powers
  <2>3. ASSUME NEW j \in 0 .. d - 1, j \in T PROVE j + 1 \in T
    <3>1. /\ j + 1 \in 0 .. d /\ k + (j + 1) \in 1 .. DIGITS
          /\ k + j \in 0 .. DIGITS /\ (k + (j + 1)) - 1 = k + j
      BY <1>1, <2>1
    <3>2. powers[k + (j + 1)] = RADIX * powers[k + j]
      BY <3>1, Powers
    <3>3. /\ powers[k] \in Nat /\ powers[k + j] \in Nat
          /\ powers[k] <= powers[k + j]
      BY <2>1, <2>3, <3>1, Powers
    <3>4. \A r \in Nat \ {0}, p \in Nat : r * p \in Nat /\ p <= r * p
      OBVIOUS
    <3>5. /\ powers[k + j] <= RADIX * powers[k + j]
          /\ RADIX * powers[k + j] \in Nat
      BY <1>7, <3>3, <3>4
    <3>6. powers[k] <= powers[k + (j + 1)]
      BY <3>2, <3>3, <3>5
    <3>7. QED
      BY <3>1, <3>6
  <2>4. d \in T
    <3> HIDE DEF T, d
    <3>1. 0 .. d \subseteq T
      BY <2>1, <2>2, <2>3, UpTo
    <3>2. QED
      BY <2>1, <3>1
  <2>5. QED
    BY <2>1, <2>4
<1>10. Size(line) \in Nat /\ powers[k] \in Nat /\ powers[DIGITS] \in Nat
  BY <1>1, <1>2, SizeType, Powers
<1>11. QED
  BY <1>7, <1>8, <1>9, <1>10 DEF WORD

\* Sums that fit are sums, those that do not are short of a whole word.
LEMMA PlusCases ==
  ASSUME NEW a \in Nat, NEW b \in Nat
  PROVE  /\ plus(a, b) <= a + b
         /\ a + b < WORD => plus(a, b) = a + b
         /\ a + b >= WORD /\ a < WORD /\ b < WORD =>
              plus(a, b) = a + b - WORD
<1> DEFINE w == WORD
           c == a + b
<1>1. w \in Nat \ {0} /\ c \in Nat
  BY WordFacts
<1>2. plus(a, b) = c % w
  BY DEF plus
<1> HIDE DEF w
<1>3. c < w => c % w = c
  BY <1>1
<1>4. a + b >= w /\ a < w /\ b < w => (a + b) % w = a + b - w
  BY <1>1
<1>5. c % w <= c
  <2> HIDE DEF c
  <2>1. c % w \in 0 .. w - 1
    BY <1>1
  <2>2. CASE c < w
    BY <1>1, <1>3, <2>2
  <2>3. CASE ~ (c < w)
    BY <1>1, <2>1, <2>3
  <2>4. QED
    BY <2>2, <2>3
<1>6. QED
  BY <1>2, <1>3, <1>4, <1>5 DEF w
-----------------------------------------------------------------------------
(***************************************************************************)
(* What the grammar says: a position has at most one first line.           *)
(***************************************************************************)
\* The lengths that the first line from p may have.
Lines(bytes, p) ==
  {n \in 1 .. DIGITS : /\ Ends(bytes, p + n)
                       /\ IsSize(slice(bytes, p, p + n))}

Below(bytes, p, at) == UNION {Decode(bytes, p, n, at) : n \in Lines(bytes, p)}

Grammar(bytes, at) == at = [p \in 0 .. Len(bytes) |-> Below(bytes, p, at)]

\* Where a CRLF lies there is room for it.
LEMMA EndsFacts ==
  ASSUME NEW bytes \in Seq(Byte), NEW q \in Nat
  PROVE  Ends(bytes, q) <=> q \in 0 .. Len(bytes) - 2 /\ At(bytes, q)
<1> DEFINE n == Len(bytes)
<1>1. n \in Nat
  BY LenProperties
<1>2. Ends(bytes, q) <=> q + 2 <= n /\ At(bytes, q)
  BY DEF Ends, At
<1> HIDE DEF n
<1>3. q + 2 <= n <=> q \in 0 .. n - 2
  BY <1>1
<1>4. QED
  BY <1>2, <1>3 DEF n

\* Where a CRLF lies there is no digit.
LEMMA NoDigit ==
  ASSUME NEW bytes \in Seq(Byte), NEW e \in 0 .. Len(bytes) - 2, At(bytes, e)
  PROVE  bytes[e + 1] = RADIX
<1> DEFINE n == Len(bytes)
           t == e + 2
<1>1. n \in Nat /\ e \in Nat /\ t \in 0 .. n /\ 1 \in 1 .. t - e
  BY LenProperties
<1>2. \A i \in 1 .. t - e : slice(bytes, e, t)[i] = bytes[e + i]
  <2> HIDE DEF t
  <2> QED
    BY <1>1, SliceFacts
<1>3. slice(bytes, e, t)[1] = bytes[e + 1]
  BY <1>1, <1>2
<1>4. slice(bytes, e, t)[1] = CRLF[1]
  BY DEF At
<1>5. CRLF[1] = RADIX
  BY DEF CRLF, CR
<1>6. QED
  BY <1>3, <1>4, <1>5

\* There is at most one, for the line ends where the first CRLF is.
LEMMA LinesFacts ==
  ASSUME NEW bytes \in Seq(Byte), NEW p \in 0 .. Len(bytes),
         NEW e, e = find_crlf(bytes, p)
  PROVE  /\ e # Len(bytes) /\ IsSize(slice(bytes, p, e)) =>
              Lines(bytes, p) = {e - p}
         /\ ~ (e # Len(bytes) /\ IsSize(slice(bytes, p, e))) =>
              Lines(bytes, p) = {}
<1> DEFINE n == Len(bytes)
<1>1. n \in Nat /\ p \in 0 .. n /\ p \in Nat /\ RADIX \in Nat /\ DIGITS \in Nat
  BY LenProperties, ChunkedBodyAssumption
<1>2. /\ e \in p .. n /\ (e # n => e \in p .. n - 2 /\ At(bytes, e))
      /\ \A i \in p .. n - 2 : At(bytes, i) => e <= i
  BY FindFacts
<1>3. ASSUME NEW k \in Lines(bytes, p)
      PROVE  e # n /\ k = e - p /\ IsSize(slice(bytes, p, e))
  <2>1. /\ k \in 1 .. DIGITS /\ k \in Nat /\ p + k \in Nat
        /\ Ends(bytes, p + k) /\ IsSize(slice(bytes, p, p + k))
    BY <1>1 DEF Lines
  <2> DEFINE q == p + k
  <2>2. q \in 0 .. n - 2 /\ At(bytes, q)
    BY <2>1, EndsFacts
  <2>3. q \in p .. n - 2
    <3> HIDE DEF n
    <3> QED
      BY <1>1, <2>1, <2>2
  <2> HIDE DEF q, n
  <2>4. e <= q /\ e # n /\ e \in p .. n - 2 /\ At(bytes, e)
    BY <1>1, <1>2, <2>2, <2>3
  <2>5. ASSUME e < q PROVE FALSE
    <3> DEFINE line == slice(bytes, p, q)
               j == (e - p) + 1
    <3>1. q \in 0 .. n /\ p <= q /\ j \in 1 .. q - p /\ p + j = e + 1
      BY <1>1, <2>2, <2>3, <2>4, <2>5
    <3> HIDE DEF j
    <3>2. /\ Len(line) = IF p <= q THEN q - p ELSE 0
          /\ \A i \in 1 .. q - p : line[i] = bytes[p + i]
          /\ line \in Seq(Byte)
      BY <1>1, <3>1, SliceFacts DEF n
    <3>3. bytes[e + 1] = RADIX
      <4>1. e \in 0 .. n - 2
        BY <1>1, <2>4
      <4>2. QED
        BY <2>4, <4>1, NoDigit DEF n
    <3>4. line[j] = RADIX
      BY <3>1, <3>2, <3>3
    <3>5. Len(line) = q - p
      BY <3>1, <3>2
    <3>6. IsSize(line)
      BY <2>1 DEF q
    <3> HIDE DEF line
    <3>7. j \in DOMAIN line
      BY <3>1, <3>2, <3>5
    <3>8. line[j] < RADIX
      BY <3>6, <3>7 DEF IsSize
    <3>9. QED
      BY <1>1, <3>4, <3>8
  <2>6. e = q
    BY <1>1, <1>2, <2>2, <2>4, <2>5
  <2>7. k = e - p
    BY <1>1, <2>1, <2>6 DEF q
  <2>8. QED
    BY <2>1, <2>4, <2>6, <2>7 DEF q
<1>4. ASSUME e # n, IsSize(slice(bytes, p, e)) PROVE e - p \in Lines(bytes, p)
  <2>1. e \in p .. n - 2 /\ At(bytes, e)
    BY <1>2, <1>4
  <2> HIDE DEF n
  <2>2. /\ e \in 0 .. n - 2 /\ e \in 0 .. n /\ e \in Nat
        /\ p <= e /\ p + (e - p) = e
    BY <1>1, <2>1
  <2>3. Ends(bytes, e)
    BY <2>1, <2>2, EndsFacts DEF n
  <2>4. Len(slice(bytes, p, e)) = IF p <= e THEN e - p ELSE 0
    BY <1>1, <2>2, SliceFacts DEF n
  <2>5. e - p \in 1 .. DIGITS
    BY <1>4, <2>2, <2>4 DEF IsSize
  <2>6. QED
    BY <1>4, <2>2, <2>3, <2>5 DEF Lines
<1>5. QED
  BY <1>3, <1>4

\* The least that is to be known of what decodes behind a line.
LEMMA DecodeFacts ==
  ASSUME NEW bytes \in Seq(Byte), NEW p \in 0 .. Len(bytes),
         NEW n \in Lines(bytes, p), NEW at,
         \A q \in p + 1 .. Len(bytes) : at[q] \in SUBSET Seq(Byte)
  PROVE  /\ Decode(bytes, p, n, at) \in SUBSET Seq(Byte)
         /\ \A bt : (\A q \in p + 1 .. Len(bytes) : bt[q] = at[q]) =>
              Decode(bytes, p, n, bt) = Decode(bytes, p, n, at)
<1> DEFINE k == Len(bytes)
           from == p + n + 2
           line == slice(bytes, p, p + n)
           size == Size(line)
           stop == from + size
           next == stop + 2
<1>1. k \in Nat /\ p \in Nat /\ n \in Nat /\ p \in 0 .. k
  <2>1. n \in 1 .. DIGITS
    BY DEF Lines
  <2>2. QED
    BY <2>1, ChunkedBodyAssumption, LenProperties
<1>2. p + n \in 0 .. k
  <2>1. Ends(bytes, p + n) /\ p + n \in Nat
    BY <1>1 DEF Lines
  <2>2. p + n \in 0 .. k - 2
    BY <2>1, EndsFacts
  <2> HIDE DEF k
  <2>3. QED
    BY <1>1, <2>2
<1>3. size \in Nat
  <2>1. line \in Seq(Nat)
    BY <1>1, <1>2, SliceFacts, ByteFacts
  <2>2. QED
    BY <2>1, SizeType
<1>4. \A bt : Decode(bytes, p, n, bt) =
        IF size = 0 THEN IF Ends(bytes, from) THEN {<<>>} ELSE {}
        ELSE IF ~ Ends(bytes, stop) THEN {}
        ELSE {slice(bytes, from, stop) \o rest : rest \in bt[next]}
  BY Zenon DEF Decode
<1> HIDE DEF size
<1>5. from \in Nat /\ stop \in Nat /\ from <= stop
  BY <1>1, <1>3
<1>6. CASE size = 0
  <2>1. <<>> \in Seq(Byte)
    OBVIOUS
  <2> HIDE DEF from
  <2>2. QED
    BY <1>4, <1>6, <2>1
<1>7. CASE size # 0 /\ ~ Ends(bytes, stop)
  <2> HIDE DEF stop
  <2>1. QED
    BY <1>4, <1>7
<1>8. CASE size # 0 /\ Ends(bytes, stop)
  <2>1. stop \in 0 .. k - 2
    <3> HIDE DEF stop
    <3> QED
      BY <1>5, <1>8, EndsFacts
  <2>2. next \in p + 1 .. k /\ stop \in 0 .. k
    <3> HIDE DEF k
    <3> QED
      BY <1>1, <1>3, <2>1
  <2> HIDE DEF from, stop, next
  <2>3. at[next] \in SUBSET Seq(Byte)
    BY <2>2
  <2>4. slice(bytes, from, stop) \in Seq(Byte)
    BY <1>5, <2>2, SliceFacts
  <2> DEFINE s == slice(bytes, from, stop)
  <2>5. \A rest \in at[next] : s \o rest \in Seq(Byte)
    <3> HIDE DEF s
    <3>1. ASSUME NEW rest \in at[next] PROVE s \o rest \in Seq(Byte)
      <4>1. rest \in Seq(Byte) /\ s \in Seq(Byte)
        BY <2>3, <2>4 DEF s
      <4>2. QED
        BY <4>1, ConcatProperties, Zenon
    <3>2. QED
      BY <3>1
  <2>6. \A bt : Decode(bytes, p, n, bt) = {s \o rest : rest \in bt[next]}
    BY <1>4, <1>8
  <2> HIDE DEF s
  <2>7. Decode(bytes, p, n, at) \in SUBSET Seq(Byte)
    <3>1. {s \o rest : rest \in at[next]} \in SUBSET Seq(Byte)
      BY <2>5
    <3>2. Decode(bytes, p, n, at) = {s \o rest : rest \in at[next]}
      BY <2>6, Zenon
    <3>3. QED
      BY <3>1, <3>2, Zenon
  <2>8. ASSUME NEW bt, \A q \in p + 1 .. Len(bytes) : bt[q] = at[q]
        PROVE  Decode(bytes, p, n, bt) = Decode(bytes, p, n, at)
    <3>1. bt[next] = at[next]
      BY <2>2, <2>8
    <3>2. QED
      BY <2>6, <3>1
  <2>9. QED
    BY <2>7, <2>8
<1>9. QED
  BY <1>6, <1>7, <1>8

\* What decodes at a position is bytes, if what decodes behind it is.
LEMMA BelowFacts ==
  ASSUME NEW bytes \in Seq(Byte), NEW p \in 0 .. Len(bytes), NEW at,
         \A q \in p + 1 .. Len(bytes) : at[q] \in SUBSET Seq(Byte)
  PROVE  /\ Below(bytes, p, at) \in SUBSET Seq(Byte)
         /\ \A bt : (\A q \in p + 1 .. Len(bytes) : bt[q] = at[q]) =>
              Below(bytes, p, bt) = Below(bytes, p, at)
<1>1. \A n \in Lines(bytes, p) : Decode(bytes, p, n, at) \in SUBSET Seq(Byte)
  BY DecodeFacts
<1>2. Below(bytes, p, at) \in SUBSET Seq(Byte)
  BY <1>1 DEF Below
<1>3. ASSUME NEW bt, \A q \in p + 1 .. Len(bytes) : bt[q] = at[q]
      PROVE  Below(bytes, p, bt) = Below(bytes, p, at)
  <2>1. \A n \in Lines(bytes, p) :
          Decode(bytes, p, n, bt) = Decode(bytes, p, n, at)
    BY <1>3, DecodeFacts
  <2>2. {Decode(bytes, p, n, bt) : n \in Lines(bytes, p)}
          = {Decode(bytes, p, n, at) : n \in Lines(bytes, p)}
    BY <2>1
  <2>3. QED
    BY <2>2, Zenon DEF Below
<1>4. QED
  BY <1>2, <1>3

\* The grammar has a meaning: what decodes at a position is made of what
\* decodes behind it.
LEMMA Grammars ==
  ASSUME NEW bytes \in Seq(Byte)
  PROVE  \E at \in [0 .. Len(bytes) -> SUBSET Seq(Byte)] :
           /\ \A p \in 0 .. Len(bytes) : at[p] = Below(bytes, p, at)
           /\ Bodies(bytes) = at[0]
<1> DEFINE n == Len(bytes)
           S == SUBSET Seq(Byte)
           From(k) == (n + 1) - k
           Meets(k, f) == \A p \in From(k) .. n : f[p] = Below(bytes, p, f)
           K == {k \in 0 .. n + 1 : \E f \in [From(k) .. n -> S] : Meets(k, f)}
           at == CHOOSE f : Grammar(bytes, f)
<1>1. n \in Nat /\ n = Len(bytes)
  BY LenProperties
<1>2. n + 1 \in K
  <2>1. 0 \in K
    <3>1. [p \in From(0) .. n |-> {}] \in [From(0) .. n -> S]
      OBVIOUS
    <3>2. Meets(0, [p \in From(0) .. n |-> {}])
      <4> HIDE DEF n
      <4>1. From(0) .. n = {}
        BY <1>1
      <4>2. QED
        BY <4>1
    <3> HIDE DEF Meets
    <3>3. \E f \in [From(0) .. n -> S] : Meets(0, f)
      BY <3>1, <3>2, Zenon
    <3>4. QED
      BY <1>1, <3>3
  <2>2. ASSUME NEW k \in 0 .. (n + 1) - 1, k \in K PROVE k + 1 \in K
    <3>1. PICK f \in [From(k) .. n -> S] : Meets(k, f)
      BY <2>2
    <3> DEFINE o == From(k + 1)
               g == [p \in o .. n |->
                       IF p = o THEN Below(bytes, o, f) ELSE f[p]]
    <3>2. /\ o \in 0 .. n /\ o + 1 = From(k) /\ k + 1 \in 0 .. n + 1
          /\ \A p \in o .. n : p # o => p \in From(k) .. n
          /\ \A p \in o .. n : \A q \in p + 1 .. n :
               q \in From(k) .. n /\ q # o /\ q \in o .. n
      <4> HIDE DEF n
      <4> QED
        BY <1>1
    <3>3. \A q \in o + 1 .. n : f[q] \in S
      BY <3>2
    <3> HIDE DEF From
    <3>4. Below(bytes, o, f) \in S
      BY <3>2, <3>3, BelowFacts
    <3>5. g \in [o .. n -> S]
      <4> HIDE DEF o, n, S
      <4> QED
        BY <3>2, <3>4
    <3>6. ASSUME NEW p \in o .. n PROVE g[p] = Below(bytes, p, g)
      <4>1. \A q \in p + 1 .. n : g[q] = f[q] /\ f[q] \in S
        <5> HIDE DEF o, n, S
        <5> QED
          BY <3>2
      <4>2. p \in 0 .. n
        <5> HIDE DEF o, n
        <5> QED
          BY <3>2
      <4>3. Below(bytes, p, g) = Below(bytes, p, f)
        <5> HIDE DEF g
        <5> QED
          BY <4>1, <4>2, BelowFacts
      <4>4. CASE p = o
        <5> HIDE DEF o, n, S
        <5> QED
          BY <4>3, <4>4
      <4>5. CASE p # o
        <5>1. f[p] = Below(bytes, p, f) /\ g[p] = f[p]
          <6> HIDE DEF o, n, S
          <6> QED
            BY <3>1, <3>2, <4>5
        <5>2. QED
          BY <4>3, <5>1
      <4>6. QED
        BY <4>4, <4>5
    <3>7. \E h \in [From(k + 1) .. n -> S] : Meets(k + 1, h)
      <4> HIDE DEF g
      <4> QED
        BY <3>5, <3>6
    <3> HIDE DEF Meets
    <3>8. QED
      BY <3>2, <3>7
  <2>3. 0 .. n + 1 \subseteq K
    <3> HIDE DEF K, n
    <3>1. n + 1 \in Nat
      BY <1>1
    <3>2. QED
      BY <2>1, <2>2, <3>1, UpTo
  <2>4. QED
    <3> HIDE DEF K, n
    <3> QED
      BY <1>1, <2>3
<1>3. PICK f \in [0 .. n -> S] : \A p \in 0 .. n : f[p] = Below(bytes, p, f)
  <2>1. From(n + 1) = 0
    <3> HIDE DEF n
    <3> QED
      BY <1>1
  <2>2. \E f \in [From(n + 1) .. n -> S] : Meets(n + 1, f)
    BY <1>2
  <2>3. QED
    BY <2>1, <2>2
<1>4. Grammar(bytes, f)
  <2>1. f = [p \in 0 .. n |-> f[p]]
    BY <1>3
  <2>2. QED
    BY <1>3, <2>1 DEF Grammar
<1>5. Grammar(bytes, at)
  BY <1>4, Zenon
<1>6. Bodies(bytes) = at[0]
  BY Zenon DEF Bodies, Grammar, Below, Lines
<1> HIDE DEF at
<1>7. \A p \in 0 .. n : at[p] = Below(bytes, p, at)
  BY <1>5 DEF Grammar
<1>8. \A p \in 0 .. n : at[p] \in S
  <2> DEFINE T == {k \in 0 .. n + 1 : \A p \in From(k) .. n : at[p] \in S}
  <2>1. 0 \in T
    <3> HIDE DEF n, S
    <3> QED
      BY <1>1
  <2>2. ASSUME NEW k \in 0 .. (n + 1) - 1, k \in T PROVE k + 1 \in T
    <3> DEFINE o == From(k + 1)
    <3>1. /\ o \in 0 .. n /\ k + 1 \in 0 .. n + 1
          /\ \A p \in o .. n : p # o => p \in From(k) .. n
          /\ \A q \in o + 1 .. n : q \in From(k) .. n
      <4> HIDE DEF n
      <4> QED
        BY <1>1
    <3>2. \A p \in From(k) .. n : at[p] \in S
      BY <2>2
    <3> HIDE DEF From, o
    <3>3. Below(bytes, o, at) \in S
      BY <3>1, <3>2, BelowFacts
    <3> HIDE DEF n, S
    <3>4. \A p \in o .. n : at[p] \in S
      BY <1>7, <3>1, <3>2, <3>3
    <3>5. QED
      BY <3>1, <3>4 DEF o
  <2>3. 0 .. n + 1 \subseteq T
    <3> HIDE DEF T, n
    <3>1. n + 1 \in Nat
      BY <1>1
    <3>2. QED
      BY <2>1, <2>2, <3>1, UpTo
  <2>4. From(n + 1) = 0 /\ n + 1 \in 0 .. n + 1
    <3> HIDE DEF n
    <3> QED
      BY <1>1
  <2>5. QED
    BY <2>3, <2>4
<1>9. at \in [0 .. n -> S]
  <2>1. at = [p \in 0 .. n |-> at[p]]
    BY <1>5 DEF Grammar
  <2> HIDE DEF n, S
  <2>2. QED
    BY <1>8, <2>1
<1>10. QED
  BY <1>6, <1>7, <1>9
-----------------------------------------------------------------------------
(***************************************************************************)
(* A turn leaves none of the bodies within the limit out and adds none.    *)
(***************************************************************************)
\* The bodies, within a limit, that begin with one and go on with another.
Behind(b, rests, cap) == {body \in {b \o c : c \in rests} : Len(body) <= cap}

\* A decoder that has taken a body no longer than the bytes it came in.
Sound(bytes, cap, s) ==
  /\ s \in Outcome(bytes) /\ s.is = "going"
  /\ Len(s.body) <= cap /\ Len(s.body) <= s.pos

\* What a turn makes of s leaves no body out and adds none.
Keeps(bytes, cap, at, s, r) ==
  LET bodies == Behind(s.body, at[s.pos], cap)
  IN  /\ r.is = "going" => /\ Sound(bytes, cap, r) /\ r.pos > s.pos
                           /\ bodies = Behind(r.body, at[r.pos], cap)
      /\ r.is = "complete" => bodies = {r.body}
      /\ r.is \notin {"going", "complete"} => bodies = {}

\* It does not matter which two of three are joined first.
LEMMA Associates ==
  \A b, t \in Seq(Byte) : \A rests \in SUBSET Seq(Byte) : \A c \in rests :
    (b \o t) \o c = b \o (t \o c)
<1>1. ASSUME NEW b \in Seq(Byte), NEW t \in Seq(Byte), NEW c \in Seq(Byte)
      PROVE  (b \o t) \o c = b \o (t \o c)
  BY ConcatAssociative
<1>2. QED
  BY <1>1

\* Bodies behind a prefix: none, itself, and those behind a longer one.
LEMMA BehindFacts ==
  ASSUME NEW b \in Seq(Byte), NEW cap
  PROVE  /\ Behind(b, {}, cap) = {}
         /\ Len(b) <= cap => Behind(b, {<<>>}, cap) = {b}
         /\ \A t \in Seq(Byte) : \A rests \in SUBSET Seq(Byte) :
              Behind(b, {t \o c : c \in rests}, cap)
                = Behind(b \o t, rests, cap)
<1>1. Behind(b, {}, cap) = {}
  BY DEF Behind
<1>2. b \o <<>> = b
  BY ConcatEmptySeq
<1>3. Len(b) <= cap => Behind(b, {<<>>}, cap) = {b}
  <2>1. {b \o c : c \in {<<>>}} = {b}
    BY <1>2
  <2>2. QED
    BY <2>1 DEF Behind
<1>4. ASSUME NEW t \in Seq(Byte), NEW rests \in SUBSET Seq(Byte)
      PROVE  Behind(b, {t \o c : c \in rests}, cap) = Behind(b \o t, rests, cap)
  <2>1. \A c \in rests : (b \o t) \o c = b \o (t \o c)
    BY Associates, Zenon
  <2>2. {b \o d : d \in {t \o c : c \in rests}} = {(b \o t) \o c : c \in rests}
    <3> DEFINE bt == b \o t
    <3>1. \A c \in rests : bt \o c = b \o (t \o c)
      BY <2>1
    <3> HIDE DEF bt
    <3>2. ASSUME NEW x \in {b \o d : d \in {t \o c : c \in rests}}
          PROVE  x \in {bt \o c : c \in rests}
      <4>1. PICK d \in {t \o c : c \in rests} : x = b \o d
        OBVIOUS
      <4>2. PICK c \in rests : d = t \o c
        OBVIOUS
      <4>3. x = bt \o c
        BY <3>1, <4>1, <4>2
      <4>4. QED
        BY <4>3
    <3>3. ASSUME NEW c \in rests
          PROVE  bt \o c \in {b \o d : d \in {t \o e : e \in rests}}
      <4>1. t \o c \in {t \o e : e \in rests}
        OBVIOUS
      <4>2. b \o (t \o c) \in {b \o d : d \in {t \o e : e \in rests}}
        BY <4>1
      <4>3. QED
        BY <3>1, <4>2
    <3>4. QED
      BY <3>2, <3>3, Zenon DEF bt
  <2>3. QED
    BY <2>2, Zenon DEF Behind
<1>5. QED
  BY <1>1, <1>3, <1>4

\* A decoder that ends without a body, where there is none.
LEMMA EndedKeeps ==
  ASSUME NEW bytes, NEW cap, NEW at, NEW s \in Outcome(bytes),
         NEW as \in {"more", "bad", "large", "panic"},
         Behind(s.body, at[s.pos], cap) = {}
  PROVE  Keeps(bytes, cap, at, s, Ended(as, s))
<1>1. Ended(as, s).is \notin {"going", "complete"}
  BY EndedType
<1>2. QED
  BY <1>1, Zenon DEF Keeps

\* The zero chunk: what decodes at s.pos ends with the next CRLF, or nothing
\* does.
LEMMA LastKeeps ==
  ASSUME NEW bytes \in Seq(Byte), NEW cap, NEW at, NEW s, Sound(bytes, cap, s),
         NEW from \in 0 .. Len(bytes),
         at[s.pos] = IF Ends(bytes, from) THEN {<<>>} ELSE {}
  PROVE  Keeps(bytes, cap, at, s, LastChunk(bytes, from, s))
<1> DEFINE n == Len(bytes)
           e == find_crlf(bytes, from)
<1>1. n \in Nat /\ from \in 0 .. n /\ from \in Nat
  BY LenProperties
<1>2. /\ e # n => e \in from .. n - 2 /\ At(bytes, e)
      /\ \A i \in from .. n - 2 : At(bytes, i) => e <= i
      /\ e \in from .. n
  BY FindFacts
<1>3. Ends(bytes, from) <=> from \in 0 .. n - 2 /\ At(bytes, from)
  BY <1>1, EndsFacts
<1>4. LastChunk(bytes, from, s) =
        IF e = n THEN Ended("more", s)
        ELSE IF e = from THEN [Ended("complete", s) EXCEPT !.pos = from + 2]
        ELSE Ended("bad", s)
  BY Zenon DEF LastChunk
<1> HIDE DEF e, n
<1>5. e # n /\ e = from <=> Ends(bytes, from)
  <2>1. e # n /\ e = from => Ends(bytes, from)
    BY <1>1, <1>2, <1>3
  <2>2. Ends(bytes, from) => e # n /\ e = from
    <3>1. ASSUME Ends(bytes, from) PROVE e # n /\ e = from
      <4>1. from \in from .. n - 2 /\ At(bytes, from)
        BY <1>1, <1>3, <3>1
      <4>2. e <= from
        BY <1>2, <4>1
      <4>3. QED
        BY <1>1, <1>2, <4>1, <4>2
    <3>2. QED
      BY <3>1
  <2>3. QED
    BY <2>1, <2>2
<1>6. s.body \in Seq(Byte) /\ s \in Outcome(bytes) /\ Len(s.body) <= cap
  BY DEF Sound, Outcome
<1>7. CASE Ends(bytes, from)
  <2>1. LastChunk(bytes, from, s)
          = [Ended("complete", s) EXCEPT !.pos = from + 2]
    BY <1>4, <1>5, <1>7
  <2>2. /\ LastChunk(bytes, from, s).is = "complete"
        /\ LastChunk(bytes, from, s).body = s.body
    BY <1>6, <2>1 DEF Ended, Outcome
  <2>3. Behind(s.body, at[s.pos], cap) = {s.body}
    BY <1>6, <1>7, BehindFacts
  <2>4. QED
    BY <2>2, <2>3 DEF Keeps
<1>8. CASE ~ Ends(bytes, from)
  <2>1. Behind(s.body, at[s.pos], cap) = {}
    BY <1>6, <1>8, BehindFacts
  <2>2. \/ LastChunk(bytes, from, s) = Ended("more", s)
        \/ LastChunk(bytes, from, s) = Ended("bad", s)
    BY <1>4, <1>5, <1>8
  <2>3. QED
    BY <1>6, <2>1, <2>2, EndedKeeps
<1>9. QED
  BY <1>7, <1>8

\* A chunk: what decodes at s.pos is its data with what decodes behind it.
LEMMA DataKeeps ==
  ASSUME NEW bytes \in Seq(Byte), Len(bytes) + 2 < WORD, NEW cap \in Nat,
         NEW at \in [0 .. Len(bytes) -> SUBSET Seq(Byte)],
         NEW s, Sound(bytes, cap, s),
         NEW from \in 0 .. Len(bytes), s.pos < from,
         NEW size \in Nat, size < WORD, plus(Len(s.body), size) <= cap,
         at[s.pos] = IF ~ Ends(bytes, from + size) THEN {}
                     ELSE {slice(bytes, from, from + size) \o rest :
                             rest \in at[from + size + 2]}
  PROVE  Keeps(bytes, cap, at, s, ChunkData(bytes, from, size, s))
<1> DEFINE n == Len(bytes)
           w == WORD
           stop == plus(from, size)
           next == plus(stop, 2)
           r == ChunkData(bytes, from, size, s)
<1>1. n \in Nat /\ from \in 0 .. n /\ from \in Nat /\ w \in Nat /\ n + 2 < w
  BY LenProperties, WordFacts
<1>2. /\ s \in Outcome(bytes) /\ s.body \in Seq(Byte) /\ s.pos \in 0 .. n
      /\ Len(s.body) \in Nat /\ Len(s.body) <= cap /\ Len(s.body) <= s.pos
  BY LenProperties DEF Sound, Outcome
<1>3. r = IF n < next THEN Ended("more", s)
          ELSE IF next < stop THEN Ended("panic", s)
          ELSE IF slice(bytes, stop, next) # CRLF THEN Ended("bad", s)
          ELSE IF stop < from THEN Ended("panic", s)
          ELSE Going(next, s.body \o slice(bytes, from, stop))
  BY Zenon DEF ChunkData
<1>4. /\ from + size < w => stop = from + size
      /\ from + size >= w => stop = from + size - w
  <2>1. from < WORD
    <3> HIDE DEF n
    <3> QED
      BY <1>1
  <2>2. QED
    BY <1>1, <2>1, PlusCases
<1>5. stop \in Nat /\ stop < w
  <2>1. stop \in 0 .. WORD - 1
    BY <1>1, PlusFacts
  <2> HIDE DEF stop
  <2>2. QED
    BY <1>1, <2>1
<1> HIDE DEF stop
<1>6. /\ stop + 2 < w => next = stop + 2
      /\ stop + 2 >= w => next = stop + 2 - w
  <2>1. 2 < WORD
    <3> HIDE DEF n
    <3> QED
      BY <1>1
  <2>2. QED
    BY <1>5, <2>1, PlusCases
<1>7. next \in Nat
  BY <1>5, PlusFacts
<1> HIDE DEF n, w, next, r
<1>8. ASSUME Behind(s.body, at[s.pos], cap) = {}, r.is # "going"
      PROVE  Keeps(bytes, cap, at, s, r)
  <2>1. PICK as \in {"more", "bad", "large", "panic"} : r = Ended(as, s)
    <3>1. \A b : Going(next, b).is = "going"
      BY DEF Going
    <3>2. QED
      BY <1>3, <1>8, <3>1
  <2>2. Keeps(bytes, cap, at, s, Ended(as, s))
    BY <1>2, <1>8, EndedKeeps
  <2>3. QED
    BY <2>1, <2>2
<1>9. CASE ~ Ends(bytes, from + size)
  <2>1. Behind(s.body, at[s.pos], cap) = {}
    BY <1>2, <1>9, BehindFacts
  <2>2. r.is # "going"
    <3>1. SUFFICES ASSUME ~ (n < next), ~ (next < stop), ~ (stop < from),
                          slice(bytes, stop, next) = CRLF
                   PROVE  FALSE
      <4>1. \A as \in {"more", "bad", "panic"} : Ended(as, s).is # "going"
        BY <1>2, EndedType
      <4>2. QED
        BY <1>3, <3>1, <4>1
    <3>2. from + size < w
      BY <1>1, <1>4, <3>1 DEF w
    <3>3. stop = from + size /\ stop + 2 < w /\ next = stop + 2
      BY <1>1, <1>4, <1>5, <1>6, <1>7, <3>1, <3>2
    <3>4. stop \in 0 .. n - 2 /\ At(bytes, stop)
      BY <1>1, <1>5, <3>1, <3>3 DEF At
    <3>5. Ends(bytes, stop)
      BY <1>5, <3>4, EndsFacts DEF n
    <3>6. QED
      BY <1>9, <3>3, <3>5
  <2>3. QED
    BY <1>8, <2>1, <2>2 DEF r
<1>10. CASE Ends(bytes, from + size)
  <2> DEFINE t == slice(bytes, from, from + size)
  <2>1. from + size \in 0 .. n - 2 /\ At(bytes, from + size)
    <3>1. from + size \in Nat
      BY <1>1
    <3>2. QED
      BY <1>10, <3>1, EndsFacts DEF n
  <2>2. from + size < w /\ from + size + 2 < w
    BY <1>1, <2>1
  <2>3. /\ stop = from + size /\ next = stop + 2 /\ ~ (n < next)
        /\ ~ (next < stop) /\ ~ (stop < from) /\ stop \in 0 .. n
    BY <1>1, <1>4, <1>6, <2>1, <2>2
  <2>4. slice(bytes, stop, next) = CRLF
    BY <2>1, <2>3 DEF At
  <2>5. r = Going(next, s.body \o t)
    BY <1>3, <2>3, <2>4
  <2>6. /\ t \in Seq(Byte) /\ Len(t) = size
    <3>1. /\ from + size \in 0 .. n /\ from <= from + size
          /\ (from + size) - from = size
      BY <1>1, <2>1
    <3>2. /\ t \in Seq(Byte)
          /\ Len(t) = IF from <= from + size THEN (from + size) - from ELSE 0
      BY <1>1, <3>1, SliceFacts DEF n
    <3>3. QED
      BY <3>1, <3>2
  <2>7. at[s.pos] = {t \o rest : rest \in at[next]}
    BY <1>10, <2>3
  <2> HIDE DEF t
  <2>8. /\ s.body \o t \in Seq(Byte)
        /\ Len(s.body \o t) = Len(s.body) + Len(t)
    <3> DEFINE b == s.body
    <3>1. b \in Seq(Byte)
      BY <1>2
    <3> HIDE DEF b
    <3>2. b \o t \in Seq(Byte) /\ Len(b \o t) = Len(b) + Len(t)
      BY <2>6, <3>1, ConcatProperties, Zenon
    <3>3. QED
      BY <3>2 DEF b
  <2>9. Len(s.body) + size < w
    BY <1>1, <1>2, <2>2
  <2>10. Len(s.body) + size <= cap
    BY <1>2, <2>9, PlusCases DEF w
  <2>11. next \in 0 .. n /\ next > s.pos /\ Len(s.body) + size <= next
    BY <1>1, <1>2, <1>7, <2>3
  <2>12. Sound(bytes, cap, r) /\ r.pos = next /\ r.body = s.body \o t
    <3>1. r \in Outcome(bytes)
      BY <2>5, <2>8, <2>11 DEF Going, Outcome, n
    <3>2. r.is = "going" /\ r.pos = next /\ r.body = s.body \o t
      BY <2>5 DEF Going
    <3>3. QED
      BY <2>6, <2>8, <2>10, <2>11, <3>1, <3>2 DEF Sound
  <2>13. at[next] \in SUBSET Seq(Byte)
    BY <2>11 DEF n
  <2>14. Behind(s.body, at[s.pos], cap) = Behind(r.body, at[r.pos], cap)
    <3>1. Behind(s.body, {t \o rest : rest \in at[next]}, cap)
            = Behind(s.body \o t, at[next], cap)
      <4> DEFINE rests == at[next]
                 b == s.body
      <4>1. rests \in SUBSET Seq(Byte)
        BY <2>13
      <4>2. b \in Seq(Byte) /\ t \in Seq(Byte)
        BY <1>2, <2>6
      <4> HIDE DEF rests, b
      <4>3. \A u \in Seq(Byte) : \A v \in SUBSET Seq(Byte) :
              Behind(b, {u \o c : c \in v}, cap) = Behind(b \o u, v, cap)
        BY <4>2, BehindFacts, Zenon
      <4>4. Behind(b, {t \o c : c \in rests}, cap) = Behind(b \o t, rests, cap)
        BY <4>1, <4>2, <4>3, Zenon
      <4>5. QED
        BY <4>4 DEF rests, b
    <3>2. QED
      BY <2>7, <2>12, <3>1
  <2>15. r.is = "going" /\ r.pos > s.pos
    BY <2>11, <2>12 DEF Sound
  <2>16. QED
    BY <2>12, <2>14, <2>15 DEF Keeps, r
<1>11. QED
  BY <1>9, <1>10

\* A turn: no line, the zero chunk, a chunk within the limit, one beyond it.
LEMMA ChunkKeeps ==
  ASSUME NEW bytes \in Seq(Byte), Len(bytes) + 2 < WORD, NEW cap \in Nat,
         NEW at \in [0 .. Len(bytes) -> SUBSET Seq(Byte)],
         NEW s, Sound(bytes, cap, s), at[s.pos] = Below(bytes, s.pos, at)
  PROVE  Keeps(bytes, cap, at, s, Chunk(bytes, cap, s))
<1> DEFINE n == Len(bytes)
           p == s.pos
           e == find_crlf(bytes, p)
           line == slice(bytes, p, e)
           size == Size(line)
           from == e + 2
           r == Chunk(bytes, cap, s)
<1>1. /\ n \in Nat /\ p \in 0 .. n /\ p \in Nat /\ s \in Outcome(bytes)
      /\ s.body \in Seq(Byte) /\ Len(s.body) \in Nat
  BY LenProperties DEF Sound, Outcome
<1>2. /\ e \in p .. n /\ (e # n => e \in p .. n - 2)
  BY <1>1, FindFacts
<1>3. r = IF e = n THEN Ended("more", s)
          ELSE IF ~ IsSize(line) THEN Ended("bad", s)
          ELSE IF size = 0 THEN LastChunk(bytes, from, s)
          ELSE IF plus(Len(s.body), size) > cap THEN Ended("large", s)
          ELSE ChunkData(bytes, from, size, s)
  BY Zenon DEF Chunk
<1>4. /\ e # n /\ IsSize(line) => Lines(bytes, p) = {e - p}
      /\ ~ (e # n /\ IsSize(line)) => Lines(bytes, p) = {}
  BY <1>1, LinesFacts
<1>5. CASE ~ (e # n /\ IsSize(line))
  <2>1. Lines(bytes, p) = {}
    BY <1>4, <1>5
  <2>2. at[p] = {}
    BY <2>1 DEF Below
  <2>3. Behind(s.body, at[s.pos], cap) = {}
    BY <1>1, <2>2, BehindFacts
  <2> HIDE DEF e, n, line, r
  <2>4. r = Ended("more", s) \/ r = Ended("bad", s)
    BY <1>3, <1>5
  <2>5. /\ Keeps(bytes, cap, at, s, Ended("more", s))
        /\ Keeps(bytes, cap, at, s, Ended("bad", s))
    BY <1>1, <2>3, EndedKeeps
  <2>6. QED
    BY <2>4, <2>5 DEF r
<1>6. CASE e # n /\ IsSize(line)
  <2>1. e \in p .. n - 2
    BY <1>2, <1>6
  <2> HIDE DEF e, n
  <2>2. /\ e \in 0 .. n /\ from \in 0 .. n /\ p < from /\ p <= e
        /\ p + (e - p) = e /\ p + (e - p) + 2 = from
    BY <1>1, <2>1
  <2>3. line \in Seq(Byte)
    BY <1>1, <2>2, SliceFacts DEF n
  <2>4. size \in Nat /\ size < WORD
    <3> HIDE DEF line
    <3> QED
      BY <1>6, <2>3, SizeBound
  <2>5. Lines(bytes, p) = {e - p}
    BY <1>4, <1>6
  <2> DEFINE k == e - p
  <2>6. p + k = e /\ p + k + 2 = from
    BY <2>2
  <2>7. at[p] = Decode(bytes, p, k, at)
    <3> HIDE DEF k, p, e
    <3>1. at[p] = UNION {Decode(bytes, p, i, at) : i \in {k}}
      BY <2>5, Zenon DEF Below, k, p
    <3>2. QED
      BY <3>1
  <2>8. at[p] = IF size = 0 THEN IF Ends(bytes, from) THEN {<<>>} ELSE {}
                ELSE IF ~ Ends(bytes, from + size) THEN {}
                ELSE {slice(bytes, from, from + size) \o rest :
                        rest \in at[from + size + 2]}
    <3> HIDE DEF p, k, from
    <3>1. Decode(bytes, p, k, at) =
            IF Size(slice(bytes, p, p + k)) = 0
            THEN IF Ends(bytes, p + k + 2) THEN {<<>>} ELSE {}
            ELSE IF ~ Ends(bytes, p + k + 2 + Size(slice(bytes, p, p + k)))
                 THEN {}
            ELSE {slice(bytes, p + k + 2,
                        p + k + 2 + Size(slice(bytes, p, p + k))) \o rest :
                    rest \in at[p + k + 2 + Size(slice(bytes, p, p + k)) + 2]}
      BY Zenon DEF Decode
    <3>2. QED
      BY <2>6, <2>7, <3>1, Zenon
  <2> HIDE DEF k, line, size, from
  <2>9. CASE size = 0
    <3>1. r = LastChunk(bytes, from, s)
      BY <1>3, <1>6, <2>9
    <3>2. at[s.pos] = IF Ends(bytes, from) THEN {<<>>} ELSE {}
      BY <2>8, <2>9
    <3>3. QED
      BY <2>2, <3>1, <3>2, LastKeeps DEF n
  <2>10. CASE size # 0 /\ plus(Len(s.body), size) <= cap
    <3>1. r = ChunkData(bytes, from, size, s)
      <4>1. plus(Len(s.body), size) \in Nat
        BY <1>1, <2>4, PlusFacts
      <4>2. ~ (plus(Len(s.body), size) > cap)
        BY <2>10, <4>1
      <4>3. QED
        BY <1>3, <1>6, <2>10, <4>2
    <3>2. at[s.pos] = IF ~ Ends(bytes, from + size) THEN {}
                      ELSE {slice(bytes, from, from + size) \o rest :
                              rest \in at[from + size + 2]}
      BY <2>8, <2>10
    <3>3. from \in 0 .. Len(bytes) /\ s.pos < from
      BY <2>2 DEF n
    <3> HIDE DEF r
    <3>4. Keeps(bytes, cap, at, s, ChunkData(bytes, from, size, s))
      BY <2>4, <2>10, <3>2, <3>3, DataKeeps
    <3>5. QED
      BY <3>1, <3>4 DEF r
  <2>11. CASE size # 0 /\ ~ (plus(Len(s.body), size) <= cap)
    <3>1. plus(Len(s.body), size) > cap /\ Len(s.body) + size > cap
      <4>1. plus(Len(s.body), size) \in Nat
        BY <1>1, <2>4, PlusFacts
      <4>2. plus(Len(s.body), size) <= Len(s.body) + size
        BY <1>1, <2>4, PlusCases
      <4>3. QED
        BY <1>1, <2>4, <2>11, <4>1, <4>2
    <3>2. r = Ended("large", s)
      BY <1>3, <1>6, <2>11, <3>1
    <3>3. ASSUME NEW c \in at[p] PROVE ~ (Len(s.body \o c) <= cap)
      <4> DEFINE t == slice(bytes, from, from + size)
      <4>1. Ends(bytes, from + size)
        BY <2>8, <2>11, <3>3
      <4>2. PICK rest \in at[from + size + 2] : c = t \o rest
        BY <2>8, <2>11, <4>1
      <4>3. from \in Nat /\ from + size \in Nat /\ from + size \in 0 .. n - 2
        <5>1. from \in Nat /\ from + size \in Nat
          BY <1>1, <2>2, <2>4
        <5>2. from + size \in 0 .. n - 2
          BY <4>1, <5>1, EndsFacts DEF n
        <5>3. QED
          BY <5>1, <5>2
      <4>4. /\ from + size \in 0 .. n /\ from <= from + size
            /\ (from + size) - from = size /\ from + size + 2 \in 0 .. n
        BY <1>1, <2>4, <4>3
      <4>5. /\ t \in Seq(Byte)
            /\ Len(t) = IF from <= from + size THEN (from + size) - from ELSE 0
        BY <4>3, <4>4, SliceFacts DEF n
      <4>6. Len(t) = size
        BY <4>4, <4>5
      <4>7. rest \in Seq(Byte)
        BY <4>4 DEF n
      <4> HIDE DEF t
      <4>8. t \o rest \in Seq(Byte) /\ Len(t \o rest) = Len(t) + Len(rest)
        BY <4>5, <4>7, ConcatProperties, Zenon
      <4>9. Len(s.body \o c) = Len(s.body) + Len(c)
        <5> DEFINE b == s.body
        <5>1. b \in Seq(Byte) /\ c \in Seq(Byte)
          BY <1>1, <4>2, <4>8
        <5> HIDE DEF b
        <5>2. Len(b \o c) = Len(b) + Len(c)
          BY <5>1, ConcatProperties, Zenon
        <5>3. QED
          BY <5>2 DEF b
      <4>10. Len(c) = size + Len(rest) /\ Len(rest) \in Nat
        BY <4>2, <4>6, <4>7, <4>8, LenProperties
      <4>11. \A u, v, x, y \in Nat : u + v > y => ~ (u + (v + x) <= y)
        OBVIOUS
      <4>12. /\ Len(s.body) \in Nat /\ size \in Nat /\ Len(rest) \in Nat
             /\ Len(s.body) + size > cap
        BY <1>1, <2>4, <3>1, <4>10
      <4>13. Len(s.body \o c) = Len(s.body) + (size + Len(rest))
        BY <4>9, <4>10
      <4>14. QED
        BY <4>11, <4>12, <4>13
    <3>4. Behind(s.body, at[s.pos], cap) = {}
      <4> DEFINE rests == at[p]
                 b == s.body
      <4>1. \A c \in rests : ~ (Len(b \o c) <= cap)
        BY <3>3
      <4> HIDE DEF rests, b
      <4>2. Behind(b, rests, cap) = {}
        BY <4>1 DEF Behind
      <4>3. QED
        BY <4>2 DEF rests, b
    <3>5. QED
      BY <1>1, <3>2, <3>4, EndedKeeps
  <2>12. QED
    BY <2>9, <2>10, <2>11
<1>7. QED
  BY <1>5, <1>6

\* The decoder finds the bodies of the grammar that are within the limit.
LEMMA Decoded ==
  ASSUME NEW bytes \in Seq(Byte), Len(bytes) + 2 < WORD, NEW cap \in Nat,
         NEW r, r = decode_chunked(bytes, cap)
  PROVE  {body \in Bodies(bytes) : Len(body) <= cap}
           = IF r.is = "complete" THEN {r.body} ELSE {}
<1> DEFINE n == Len(bytes)
           bodies == {body \in Bodies(bytes) : Len(body) <= cap}
           Found(s, i) ==
             /\ s.is = "going" => /\ Sound(bytes, cap, s) /\ s.pos >= i
             /\ s.is = "complete" => bodies = {s.body}
             /\ s.is \notin {"going", "complete"} => bodies = {}
<1>1. n \in Nat
  BY LenProperties
<1>2. PICK at \in [0 .. Len(bytes) -> SUBSET Seq(Byte)] :
        /\ \A p \in 0 .. Len(bytes) : at[p] = Below(bytes, p, at)
        /\ Bodies(bytes) = at[0]
  BY Grammars
<1>3. PICK a \in [0 .. Len(bytes) + 1 -> Outcome(bytes)] :
        /\ a[0] = Going(0, <<>>)
        /\ \A i \in 1 .. Len(bytes) + 1 : a[i] = Turn(bytes, cap, a[i - 1])
        /\ decode_chunked(bytes, cap) = a[Len(bytes) + 1]
  BY Looping
<1>4. /\ \A i \in 0 .. n + 1 : a[i] \in Outcome(bytes)
      /\ \A i \in 1 .. n + 1 : a[i] = Turn(bytes, cap, a[i - 1])
  BY <1>3
<1> DEFINE T == {i \in 0 .. n + 1 :
                   /\ Found(a[i], i)
                   /\ a[i].is = "going" =>
                        bodies = Behind(a[i].body, at[a[i].pos], cap)}
<1>5. 0 \in T
  <2>1. a[0].is = "going" /\ a[0].pos = 0 /\ a[0].body = <<>>
    BY <1>3 DEF Going
  <2>2. Len(<<>>) = 0 /\ 0 <= cap
    OBVIOUS
  <2>3. Sound(bytes, cap, a[0])
    <3>1. a[0] \in Outcome(bytes)
      BY <1>1, <1>4
    <3>2. QED
      BY <2>1, <2>2, <3>1 DEF Sound
  <2>4. bodies = Behind(<<>>, at[0], cap)
    <3>1. at[0] \in SUBSET Seq(Byte)
      BY <1>1, <1>2
    <3> DEFINE rests == at[0]
    <3> HIDE DEF rests
    <3>2. \A c \in rests : <<>> \o c = c
      BY <3>1, ConcatEmptySeq DEF rests
    <3>3. {<<>> \o c : c \in rests} = rests
      BY <3>2
    <3>4. QED
      BY <1>2, <3>3, Zenon DEF Behind, rests
  <2> HIDE DEF bodies
  <2>5. QED
    BY <1>1, <2>1, <2>3, <2>4
<1>6. ASSUME NEW i \in 0 .. (n + 1) - 1, i \in T PROVE i + 1 \in T
  <2> DEFINE s == a[i]
             q == a[i + 1]
  <2>1. /\ i + 1 \in 1 .. n + 1 /\ i + 1 \in 0 .. n + 1 /\ (i + 1) - 1 = i
        /\ i \in Nat
    BY <1>1
  <2>2. q = Turn(bytes, cap, s)
    BY <1>4, <2>1
  <2>3. /\ Found(s, i)
        /\ s.is = "going" => bodies = Behind(s.body, at[s.pos], cap)
    BY <1>6
  <2> HIDE DEF s, q, bodies
  <2>4. /\ Found(q, i + 1)
        /\ q.is = "going" => bodies = Behind(q.body, at[q.pos], cap)
    <3>1. CASE s.is # "going"
      <4>1. q = s
        BY <2>2, <3>1 DEF Turn
      <4>2. QED
        BY <2>3, <3>1, <4>1
    <3>2. CASE s.is = "going"
      <4>1. q = Chunk(bytes, cap, s)
        BY <2>2, <3>2 DEF Turn
      <4>2. Sound(bytes, cap, s) /\ s.pos >= i /\ s.pos \in 0 .. Len(bytes)
        BY <2>3, <3>2 DEF Sound, Outcome
      <4>3. at[s.pos] = Below(bytes, s.pos, at)
        BY <1>2, <4>2
      <4>4. Keeps(bytes, cap, at, s, q)
        BY <4>1, <4>2, <4>3, ChunkKeeps
      <4>5. bodies = Behind(s.body, at[s.pos], cap)
        BY <2>3, <3>2
      <4>6. /\ q.is = "going" => /\ Sound(bytes, cap, q) /\ q.pos > s.pos
                                 /\ bodies = Behind(q.body, at[q.pos], cap)
            /\ q.is = "complete" => bodies = {q.body}
            /\ q.is \notin {"going", "complete"} => bodies = {}
        BY <4>4, <4>5, Zenon DEF Keeps
      <4>7. q.is = "going" => q.pos >= i + 1
        <5>1. q.is = "going" => q.pos \in 0 .. Len(bytes)
          BY <4>6 DEF Sound, Outcome
        <5>2. QED
          BY <1>1, <2>1, <4>2, <4>6, <5>1
      <4>8. QED
        BY <4>6, <4>7
    <3>3. QED
      BY <3>1, <3>2
  <2>5. QED
    BY <2>1, <2>4 DEF q
<1>7. n + 1 \in T
  <2> HIDE DEF T, n
  <2>1. n + 1 \in Nat
    BY <1>1
  <2>2. 0 .. n + 1 \subseteq T
    BY <1>5, <1>6, <2>1, UpTo
  <2>3. QED
    BY <1>1, <2>2
<1>8. r = a[n + 1] /\ Found(r, n + 1)
  <2> HIDE DEF bodies
  <2> QED
    BY <1>3, <1>7
<1>9. r.is # "going"
  <2>1. r.is = "going" => r.pos \in 0 .. Len(bytes) /\ r.pos >= n + 1
    BY <1>8 DEF Sound, Outcome
  <2>2. QED
    BY <1>1, <2>1
<1>10. QED
  <2> HIDE DEF bodies
  <2>1. bodies = IF r.is = "complete" THEN {r.body} ELSE {}
    BY <1>8, <1>9
  <2>2. QED
    BY <2>1 DEF bodies

-----------------------------------------------------------------------------
(***************************************************************************)
(* Units: the pieces that module Http tells apart, and where the decoder   *)
(* stops in a sequence of them.                                            *)
(***************************************************************************)
\* A CRLF is where its two bytes are.
LEMMA AtFacts ==
  ASSUME NEW bytes \in Seq(Byte), NEW i \in 0 .. Len(bytes) - 2
  PROVE  At(bytes, i) <=> bytes[i + 1] = CR /\ bytes[i + 2] = LF
<1> DEFINE n == Len(bytes)
           s == slice(bytes, i, i + 2)
           t == i + 2
<1>1. n \in Nat /\ i \in Nat /\ t \in 0 .. n /\ t - i = 2 /\ i <= t
  BY LenProperties
<1>2. /\ s \in Seq(Byte) /\ Len(s) = IF i <= t THEN t - i ELSE 0
      /\ \A j \in 1 .. t - i : s[j] = bytes[i + j]
  <2> HIDE DEF t
  <2>1. /\ slice(bytes, i, t) \in Seq(Byte)
        /\ Len(slice(bytes, i, t)) = IF i <= t THEN t - i ELSE 0
        /\ \A j \in 1 .. t - i : slice(bytes, i, t)[j] = bytes[i + j]
    BY <1>1, SliceFacts
  <2>2. QED
    BY <2>1 DEF t
<1> HIDE DEF s, t
<1>3. Len(s) = 2 /\ s[1] = bytes[i + 1] /\ s[2] = bytes[i + 2]
  BY <1>1, <1>2
<1>4. s = CRLF <=> s[1] = CR /\ s[2] = LF
  <2>1. CRLF \in Seq(Byte) /\ Len(CRLF) = 2 /\ CRLF[1] = CR /\ CRLF[2] = LF
    BY ChunkedBodyAssumption DEF CRLF, CR, LF, Byte, DATA
  <2> HIDE DEF CRLF, CR, LF
  <2>2. \A u, v \in Seq(Byte) :
          Len(u) = Len(v) /\ (\A j \in 1 .. Len(u) : u[j] = v[j]) => u = v
    BY SeqEqual
  <2>3. s[1] = CR /\ s[2] = LF => \A j \in 1 .. Len(s) : s[j] = CRLF[j]
    BY <1>3, <2>1
  <2>4. QED
    BY <1>2, <1>3, <2>1, <2>2, <2>3
<1>5. QED
  BY <1>3, <1>4 DEF At, s

\* The first CRLF from a position is the one that none lies before.
LEMMA FirstCrlf ==
  ASSUME NEW bytes \in Seq(Byte), NEW from \in 0 .. Len(bytes),
         NEW e \in from .. Len(bytes) - 2,
         bytes[e + 1] = CR, bytes[e + 2] = LF,
         \A i \in from .. e - 1 : bytes[i + 1] # CR
  PROVE  find_crlf(bytes, from) = e /\ e # Len(bytes)
<1> DEFINE n == Len(bytes)
           f == find_crlf(bytes, from)
<1>1. n \in Nat /\ from \in 0 .. n /\ e \in 0 .. n - 2 /\ e \in Nat
  BY LenProperties
<1>2. At(bytes, e)
  BY <1>1, AtFacts
<1>3. /\ f \in from .. n /\ f <= e
      /\ f # n => f \in from .. n - 2 /\ At(bytes, f)
  BY <1>2, FindFacts
<1> HIDE DEF f
<1>4. f \in from .. e /\ f \in 0 .. n - 2
  BY <1>1, <1>3
<1>5. bytes[f + 1] = CR
  BY <1>1, <1>3, <1>4, AtFacts
<1>6. ~ (f \in from .. e - 1)
  BY <1>5
<1>7. f = e
  BY <1>1, <1>4, <1>6
<1>8. QED
  BY <1>1, <1>7 DEF f

\* There is none where no byte begins one.
LEMMA NoCrlf ==
  ASSUME NEW bytes \in Seq(Byte), NEW from \in 0 .. Len(bytes),
         \A i \in from .. Len(bytes) - 2 : bytes[i + 1] # CR
  PROVE  find_crlf(bytes, from) = Len(bytes)
<1> DEFINE n == Len(bytes)
           f == find_crlf(bytes, from)
<1>1. n \in Nat /\ from \in 0 .. n
  BY LenProperties
<1>2. f # n => f \in from .. n - 2 /\ At(bytes, f)
  BY FindFacts
<1> HIDE DEF f
<1>3. SUFFICES ASSUME f # n PROVE FALSE
  BY DEF f
<1>4. f \in 0 .. n - 2 /\ f \in from .. n - 2
  BY <1>1, <1>2, <1>3
<1>5. bytes[f + 1] = CR
  BY <1>2, <1>3, <1>4, AtFacts
<1>6. QED
  BY <1>4, <1>5

\* A line of one byte is the size that its byte is.
LEMMA OneDigit ==
  ASSUME NEW line \in Seq(Byte), Len(line) = 1
  PROVE  /\ line[1] < RADIX => IsSize(line)
         /\ Size(line) = line[1]
<1>1. line \in Seq(Nat) /\ RADIX \in Nat /\ 1 \in 1 .. DIGITS
  BY ByteFacts, ChunkedBodyAssumption
<1>2. line[1] \in Nat
  BY <1>1, ElementOfSeq
<1>3. line[1] < RADIX => IsSize(line)
  <2>1. DOMAIN line = 1 .. 1
    BY LenProperties
  <2>2. QED
    BY <1>1, <2>1 DEF IsSize
<1>4. PICK n \in [0 .. Len(line) -> Nat] :
        /\ n[0] = 0
        /\ \A i \in 1 .. Len(line) : n[i] = RADIX * n[i - 1] + line[i]
        /\ Size(line) = n[Len(line)]
  BY <1>1, Sizes
<1>5. n[0] = 0 /\ n[1] = RADIX * n[0] + line[1] /\ Size(line) = n[1]
  BY <1>4
<1>6. QED
  BY <1>1, <1>2, <1>3, <1>5

\* A line that begins with something else is none.
LEMMA NotASize ==
  ASSUME NEW line, NEW n \in Nat \ {0}, Len(line) = n, DOMAIN line = 1 .. n,
         line[1] = DATA
  PROVE  ~ IsSize(line)
<1>1. 1 \in 1 .. n
  OBVIOUS
<1>2. ~ (DATA < RADIX)
  BY ChunkedBodyAssumption DEF DATA
<1>3. QED
  BY <1>1, <1>2 DEF IsSize

\* A turn over a chunk of one byte.
LEMMA ChunkTurn ==
  ASSUME NEW bytes \in Seq(Byte), Len(bytes) + 2 < WORD, NEW cap \in Nat,
         NEW s \in Outcome(bytes), Len(s.body) + 1 < WORD,
         NEW p \in Nat, p = s.pos, p + 6 <= Len(bytes),
         bytes[p + 1] = 1, bytes[p + 2] = CR, bytes[p + 3] = LF,
         bytes[p + 4] = DATA, bytes[p + 5] = CR, bytes[p + 6] = LF
  PROVE  /\ Len(s.body) + 1 > cap => Chunk(bytes, cap, s) = Ended("large", s)
         /\ ~ (Len(s.body) + 1 > cap) =>
              \E t \in Seq(Byte) : /\ Len(t) = 1 /\ t[1] = DATA
                                   /\ Chunk(bytes, cap, s)
                                        = Going(p + 6, s.body \o t)
<1> DEFINE n == Len(bytes)
           e == p + 1
           line == slice(bytes, p, e)
           from == p + 3
           stop == p + 4
           next == p + 6
           b == Len(s.body)
<1>1. /\ n \in Nat /\ p \in 0 .. n /\ p \in Nat /\ b \in Nat
      /\ WORD \in Nat /\ RADIX \in Nat \ {0, 1}
  BY LenProperties, WordFacts, ChunkedBodyAssumption DEF Outcome
<1>2. /\ e \in p .. n - 2 /\ e \in 0 .. n /\ p <= e /\ e - p = 1
      /\ e + 1 = p + 2 /\ e + 2 = from /\ e + 2 = p + 3
      /\ from \in Nat /\ stop \in Nat /\ stop \in 0 .. n /\ from <= stop
      /\ stop - from = 1 /\ from + 1 = stop /\ from + 1 = p + 4
      /\ stop + 2 = next /\ stop \in 0 .. n - 2 /\ stop + 1 = p + 5
      /\ stop + 2 = p + 6 /\ next <= n
      /\ ~ (n < next) /\ ~ (next < stop) /\ ~ (stop < from)
      /\ \A i \in p .. e - 1 : i = p
  <2> HIDE DEF n
  <2>1. \A x, m \in Nat : x + 6 <= m =>
          /\ x + 1 \in x .. m - 2 /\ x + 1 \in 0 .. m /\ x <= x + 1
          /\ (x + 1) - x = 1 /\ (x + 1) + 1 = x + 2 /\ (x + 1) + 2 = x + 3
          /\ x + 3 \in Nat /\ x + 4 \in Nat /\ x + 4 \in 0 .. m
          /\ x + 3 <= x + 4 /\ (x + 4) - (x + 3) = 1 /\ (x + 3) + 1 = x + 4
          /\ (x + 4) + 2 = x + 6 /\ x + 4 \in 0 .. m - 2
          /\ (x + 4) + 1 = x + 5 /\ x + 6 <= m
          /\ ~ (m < x + 6) /\ ~ (x + 6 < x + 4) /\ ~ (x + 4 < x + 3)
          /\ \A i \in x .. (x + 1) - 1 : i = x
    OBVIOUS
  <2>2. p \in Nat /\ n \in Nat /\ p + 6 <= n
    BY <1>1 DEF n
  <2>3. QED
    BY <2>1, <2>2
<1>3. find_crlf(bytes, p) = e /\ e # n
  <2>1. e \in p .. n - 2 /\ e + 1 = p + 2 /\ e + 2 = p + 3
    BY <1>2
  <2>2. \A i \in p .. e - 1 : i = p
    BY <1>2
  <2>3. bytes[p + 1] # CR
    BY <1>1 DEF CR
  <2> HIDE DEF e
  <2>4. QED
    BY <1>1, <2>1, <2>2, <2>3, FirstCrlf DEF n
<1>4. line \in Seq(Byte) /\ Len(line) = 1 /\ line[1] = 1
  <2>1. e \in 0 .. n /\ p <= e /\ e - p = 1
    BY <1>2
  <2> HIDE DEF e
  <2>2. /\ line \in Seq(Byte)
        /\ Len(line) = IF p <= e THEN e - p ELSE 0
        /\ \A i \in 1 .. e - p : line[i] = bytes[p + i]
    BY <1>1, <2>1, SliceFacts DEF n
  <2> HIDE DEF line
  <2>3. 1 \in 1 .. e - p
    BY <2>1
  <2>4. line[1] = bytes[p + 1]
    BY <2>2, <2>3
  <2>5. QED
    BY <2>1, <2>2, <2>4
<1>5. IsSize(line) /\ Size(line) = 1
  <2> HIDE DEF line
  <2> QED
    BY <1>1, <1>4, OneDigit
<1>6. /\ plus(b, 1) = b + 1 /\ plus(from, 1) = stop /\ plus(stop, 2) = next
      /\ e + 2 = from
  <2>1. /\ from \in Nat /\ stop \in Nat /\ from + 1 = stop /\ stop + 2 = next
        /\ from + 1 < WORD /\ stop + 2 < WORD
    <3>1. stop <= n /\ next <= n /\ n + 2 < WORD
      BY <1>2
    <3> HIDE DEF n, from, stop, next
    <3>2. QED
      BY <1>1, <1>2, <3>1
  <2>2. plus(b, 1) = b + 1
    BY <1>1, PlusCases
  <2> HIDE DEF from, stop, next
  <2>3. plus(from, 1) = stop
    BY <2>1, PlusCases
  <2>4. plus(stop, 2) = next
    BY <2>1, PlusCases
  <2>5. QED
    BY <1>2, <2>2, <2>3, <2>4 DEF from
<1> HIDE DEF b
<1>7. Chunk(bytes, cap, s) = IF b + 1 > cap THEN Ended("large", s)
                             ELSE ChunkData(bytes, from, 1, s)
  <2>1. Chunk(bytes, cap, s)
          = IF e = n THEN Ended("more", s)
            ELSE IF ~ IsSize(line) THEN Ended("bad", s)
            ELSE IF Size(line) = 0 THEN LastChunk(bytes, e + 2, s)
            ELSE IF plus(b, Size(line)) > cap THEN Ended("large", s)
            ELSE ChunkData(bytes, e + 2, Size(line), s)
    BY <1>3, Zenon DEF Chunk, b
  <2> HIDE DEF e, n, line, from
  <2>2. 1 # 0
    OBVIOUS
  <2>3. QED
    BY <1>3, <1>5, <1>6, <2>1, <2>2
<1> DEFINE t == slice(bytes, from, stop)
<1>8. t \in Seq(Byte) /\ Len(t) = 1 /\ t[1] = DATA
  <2>1. /\ from \in Nat /\ stop \in 0 .. n /\ from <= stop /\ stop - from = 1
        /\ from + 1 = p + 4
    BY <1>2
  <2> HIDE DEF from, stop
  <2>2. /\ t \in Seq(Byte)
        /\ Len(t) = IF from <= stop THEN stop - from ELSE 0
        /\ \A i \in 1 .. stop - from : t[i] = bytes[from + i]
    BY <2>1, SliceFacts DEF n
  <2> HIDE DEF t
  <2>3. Len(t) = 1 /\ t[1] = bytes[from + 1]
    BY <2>1, <2>2
  <2>4. QED
    BY <2>1, <2>2, <2>3
<1>9. ChunkData(bytes, from, 1, s) = Going(next, s.body \o t)
  <2>1. ~ (n < next) /\ ~ (next < stop) /\ ~ (stop < from)
    BY <1>2
  <2>2. slice(bytes, stop, next) = CRLF
    <3>1. /\ stop \in 0 .. n - 2 /\ stop + 1 = p + 5 /\ stop + 2 = p + 6
      BY <1>2
    <3>2. At(bytes, stop)
      <4> HIDE DEF stop
      <4> QED
        BY <3>1, AtFacts DEF n
    <3>3. stop + 2 = next
      BY <1>2
    <3> HIDE DEF stop, next
    <3>4. QED
      BY <3>2, <3>3 DEF At
  <2>3. ChunkData(bytes, from, 1, s)
          = LET x == plus(from, 1)
                y == plus(x, 2)
            IN  IF n < y THEN Ended("more", s)
                ELSE IF y < x THEN Ended("panic", s)
                ELSE IF slice(bytes, x, y) # CRLF THEN Ended("bad", s)
                ELSE IF x < from THEN Ended("panic", s)
                ELSE Going(y, s.body \o slice(bytes, from, x))
    BY Zenon DEF ChunkData
  <2> HIDE DEF n, from, stop, next
  <2>4. ChunkData(bytes, from, 1, s)
          = IF n < next THEN Ended("more", s)
            ELSE IF next < stop THEN Ended("panic", s)
            ELSE IF slice(bytes, stop, next) # CRLF THEN Ended("bad", s)
            ELSE IF stop < from THEN Ended("panic", s)
            ELSE Going(next, s.body \o t)
    BY <1>6, <2>3, Zenon
  <2> HIDE DEF t
  <2>5. QED
    BY <2>1, <2>2, <2>4, Zenon
<1> HIDE DEF t, from
<1>10. QED
  BY <1>7, <1>8, <1>9 DEF b

\* A turn over the last chunk.
LEMMA LastTurn ==
  ASSUME NEW bytes \in Seq(Byte), NEW cap, NEW s \in Outcome(bytes),
         NEW p, p = s.pos, p + 5 <= Len(bytes),
         bytes[p + 1] = 0, bytes[p + 2] = CR, bytes[p + 3] = LF,
         bytes[p + 4] = CR, bytes[p + 5] = LF
  PROVE  /\ Chunk(bytes, cap, s).is = "complete"
         /\ Chunk(bytes, cap, s).body = s.body
<1> DEFINE n == Len(bytes)
           e == p + 1
           line == slice(bytes, p, e)
           from == p + 3
<1>1. n \in Nat /\ p \in 0 .. n /\ p \in Nat /\ RADIX \in Nat \ {0, 1}
  BY LenProperties, ChunkedBodyAssumption DEF Outcome
<1>2. /\ e \in p .. n - 2 /\ e \in 0 .. n /\ p <= e /\ e - p = 1
      /\ e + 1 = p + 2 /\ e + 2 = p + 3 /\ e + 2 = from
      /\ from \in from .. n - 2 /\ from \in 0 .. n
      /\ from + 1 = p + 4 /\ from + 2 = p + 5
      /\ \A i \in p .. e - 1 : i = p
      /\ \A i \in from .. from - 1 : FALSE
  <2> HIDE DEF n
  <2>1. \A x, m \in Nat : x + 5 <= m =>
          /\ x + 1 \in x .. m - 2 /\ x + 1 \in 0 .. m /\ x <= x + 1
          /\ (x + 1) - x = 1 /\ (x + 1) + 1 = x + 2 /\ (x + 1) + 2 = x + 3
          /\ x + 3 \in x + 3 .. m - 2 /\ x + 3 \in 0 .. m
          /\ (x + 3) + 1 = x + 4 /\ (x + 3) + 2 = x + 5
          /\ \A i \in x .. (x + 1) - 1 : i = x
          /\ \A i \in x + 3 .. (x + 3) - 1 : FALSE
    OBVIOUS
  <2>2. p \in Nat /\ n \in Nat /\ p + 5 <= n
    BY <1>1 DEF n
  <2>3. QED
    BY <2>1, <2>2
<1>3. find_crlf(bytes, p) = e /\ e # n
  <2>1. e \in p .. n - 2 /\ e + 1 = p + 2 /\ e + 2 = p + 3
    BY <1>2
  <2>2. \A i \in p .. e - 1 : i = p
    BY <1>2
  <2>3. bytes[p + 1] # CR
    BY <1>1 DEF CR
  <2> HIDE DEF e
  <2>4. QED
    BY <1>1, <2>1, <2>2, <2>3, FirstCrlf DEF n
<1>4. find_crlf(bytes, from) = from /\ from # n
  <2>1. /\ from \in from .. n - 2 /\ from \in 0 .. n /\ from + 1 = p + 4
        /\ from + 2 = p + 5
    BY <1>2
  <2>2. \A i \in from .. from - 1 : FALSE
    BY <1>2
  <2> HIDE DEF from
  <2>3. QED
    BY <1>1, <2>1, <2>2, FirstCrlf DEF n
<1>5. line \in Seq(Byte) /\ Len(line) = 1 /\ line[1] = 0
  <2>1. e \in 0 .. n /\ p <= e /\ e - p = 1
    BY <1>2
  <2> HIDE DEF e
  <2>2. /\ line \in Seq(Byte)
        /\ Len(line) = IF p <= e THEN e - p ELSE 0
        /\ \A i \in 1 .. e - p : line[i] = bytes[p + i]
    BY <1>1, <2>1, SliceFacts DEF n
  <2> HIDE DEF line
  <2>3. 1 \in 1 .. e - p
    BY <2>1
  <2>4. line[1] = bytes[p + 1]
    BY <2>2, <2>3
  <2>5. QED
    BY <2>1, <2>2, <2>4
<1>6. IsSize(line) /\ Size(line) = 0
  <2> HIDE DEF line
  <2> QED
    BY <1>1, <1>5, OneDigit
<1>7. e + 2 = from
  BY <1>2
<1>8. Chunk(bytes, cap, s) = LastChunk(bytes, from, s)
  <2>1. Chunk(bytes, cap, s)
          = IF e = n THEN Ended("more", s)
            ELSE IF ~ IsSize(line) THEN Ended("bad", s)
            ELSE IF Size(line) = 0 THEN LastChunk(bytes, e + 2, s)
            ELSE IF plus(Len(s.body), Size(line)) > cap THEN Ended("large", s)
            ELSE ChunkData(bytes, e + 2, Size(line), s)
    BY <1>3, Zenon DEF Chunk
  <2> HIDE DEF e, n, line, from
  <2>2. QED
    BY <1>3, <1>6, <1>7, <2>1
<1>9. LastChunk(bytes, from, s) = [Ended("complete", s) EXCEPT !.pos = from + 2]
  <2> HIDE DEF from
  <2> QED
    BY <1>4, Zenon DEF LastChunk
<1>10. QED
  BY <1>8, <1>9 DEF Ended, Outcome

\* A turn over a line that is no size.
LEMMA BadTurn ==
  ASSUME NEW bytes \in Seq(Byte), NEW cap, NEW s \in Outcome(bytes),
         NEW p, p = s.pos, NEW e \in p + 1 .. Len(bytes) - 2,
         bytes[p + 1] = DATA, bytes[e + 1] = CR, bytes[e + 2] = LF,
         \A i \in p .. e - 1 : bytes[i + 1] # CR
  PROVE  Chunk(bytes, cap, s).is = "bad"
<1> DEFINE n == Len(bytes)
           line == slice(bytes, p, e)
<1>1. /\ n \in Nat /\ p \in 0 .. n /\ p \in Nat /\ e \in p .. n - 2
      /\ e \in 0 .. n /\ p <= e /\ e - p \in Nat \ {0} /\ 1 \in 1 .. e - p
  BY LenProperties DEF Outcome
<1>2. find_crlf(bytes, p) = e /\ e # n
  BY <1>1, FirstCrlf
<1>3. /\ line \in Seq(Byte)
      /\ Len(line) = IF p <= e THEN e - p ELSE 0
      /\ \A i \in 1 .. e - p : line[i] = bytes[p + i]
  BY <1>1, SliceFacts
<1>4. ~ IsSize(line)
  <2> HIDE DEF line
  <2>1. Len(line) = e - p /\ line[1] = DATA
    BY <1>1, <1>3
  <2>2. DOMAIN line = 1 .. e - p
    BY <1>3, <2>1, LenProperties
  <2>3. QED
    BY <1>1, <2>1, <2>2, NotASize
<1>5. Chunk(bytes, cap, s) = Ended("bad", s)
  <2>1. Chunk(bytes, cap, s)
          = IF e = n THEN Ended("more", s)
            ELSE IF ~ IsSize(line) THEN Ended("bad", s)
            ELSE IF Size(line) = 0 THEN LastChunk(bytes, e + 2, s)
            ELSE IF plus(Len(s.body), Size(line)) > cap THEN Ended("large", s)
            ELSE ChunkData(bytes, e + 2, Size(line), s)
    BY <1>2, Zenon DEF Chunk
  <2> HIDE DEF n, line
  <2>2. QED
    BY <1>2, <1>4, <2>1
<1>6. QED
  BY <1>5, EndedType

\* A turn that finds no line.
LEMMA MoreTurn ==
  ASSUME NEW bytes \in Seq(Byte), NEW cap, NEW s \in Outcome(bytes),
         \A i \in s.pos .. Len(bytes) - 2 : bytes[i + 1] # CR
  PROVE  Chunk(bytes, cap, s).is = "more"
<1>1. s.pos \in 0 .. Len(bytes)
  BY DEF Outcome
<1>2. find_crlf(bytes, s.pos) = Len(bytes)
  BY <1>1, NoCrlf
<1>3. Chunk(bytes, cap, s) = Ended("more", s)
  BY <1>2, Zenon DEF Chunk
<1>4. QED
  BY <1>3, EndedType

\* What the units are made of: a CR is the second byte of every one but an
\* octet, and no digit begins a unit that is no chunk.
LEMMA UnitFacts ==
  /\ DOMAIN Units = {"octet", "line", "end", "chunk", "last"}
  /\ \A k \in DOMAIN Units : Units[k] \in Seq(Byte)
  /\ Len(Units["octet"]) = 1
  /\ \A k \in DOMAIN Units \ {"octet"} :
       /\ Len(Units[k]) \in Nat /\ Len(Units[k]) >= 3
       /\ Units[k][1] # CR /\ Units[k][2] = CR /\ Units[k][3] = LF
  /\ \A k \in {"octet", "line", "end"} : Units[k][1] = DATA
  /\ LET u == Units["chunk"]
     IN  /\ Len(u) = 6 /\ u[1] = 1 /\ u[2] = CR /\ u[3] = LF
         /\ u[4] = DATA /\ u[5] = CR /\ u[6] = LF
  /\ LET u == Units["last"]
     IN  /\ Len(u) = 5 /\ u[1] = 0 /\ u[2] = CR /\ u[3] = LF
         /\ u[4] = CR /\ u[5] = LF
<1>1. /\ {0, 1, CR, LF, DATA} \subseteq Byte
      /\ DATA # CR /\ 0 # CR /\ 1 # CR
  BY ChunkedBodyAssumption DEF Byte, DATA, CR, LF
<1> HIDE DEF Byte, DATA, CR, LF
<1>2. DOMAIN Units = {"octet", "line", "end", "chunk", "last"}
  BY DEF Units
<1>3. /\ Units["octet"] = <<DATA>> /\ Units["line"] = <<DATA, CR, LF>>
      /\ Units["end"] = <<DATA, CR, LF, CR, LF>>
      /\ Units["chunk"] = <<1, CR, LF, DATA, CR, LF>>
      /\ Units["last"] = <<0, CR, LF, CR, LF>>
  BY DEF Units
<1>4. /\ <<DATA>> \in Seq(Byte) /\ <<DATA, CR, LF>> \in Seq(Byte)
      /\ <<DATA, CR, LF, CR, LF>> \in Seq(Byte)
      /\ <<1, CR, LF, DATA, CR, LF>> \in Seq(Byte)
      /\ <<0, CR, LF, CR, LF>> \in Seq(Byte)
  BY <1>1
<1> HIDE DEF Units
<1>5. ASSUME NEW k \in DOMAIN Units \ {"octet"}
      PROVE  /\ Len(Units[k]) \in Nat /\ Len(Units[k]) >= 3
             /\ Units[k][1] # CR /\ Units[k][2] = CR /\ Units[k][3] = LF
  <2>1. CASE k = "line"
    BY <1>1, <1>3, <2>1
  <2>2. CASE k = "end"
    BY <1>1, <1>3, <2>2
  <2>3. CASE k = "chunk"
    BY <1>1, <1>3, <2>3
  <2>4. CASE k = "last"
    BY <1>1, <1>3, <2>4
  <2>5. QED
    BY <1>2, <2>1, <2>2, <2>3, <2>4
<1>6. \A k \in DOMAIN Units : Units[k] \in Seq(Byte)
  BY <1>2, <1>3, <1>4
<1>7. \A k \in {"octet", "line", "end"} : Units[k][1] = DATA
  BY <1>3
<1>8. LET u == Units["chunk"]
      IN  /\ Len(u) = 6 /\ u[1] = 1 /\ u[2] = CR /\ u[3] = LF
          /\ u[4] = DATA /\ u[5] = CR /\ u[6] = LF
  BY <1>3
<1>9. LET u == Units["last"]
      IN  /\ Len(u) = 5 /\ u[1] = 0 /\ u[2] = CR /\ u[3] = LF
          /\ u[4] = CR /\ u[5] = LF
  BY <1>3
<1>10. Len(Units["octet"]) = 1
  BY <1>3
<1>11. QED
  BY <1>2, <1>5, <1>6, <1>7, <1>8, <1>9, <1>10

\* A stream of n units: the i-th is a kind[i] and ends at off[i].
Stream(bytes, n, kind, off) ==
  /\ kind \in [1 .. n -> DOMAIN Units] /\ off \in [0 .. n -> Nat]
  /\ off[0] = 0 /\ off[n] = Len(bytes)
  /\ \A i \in 1 .. n :
       /\ off[i] = off[i - 1] + Len(Units[kind[i]]) /\ off[i] <= Len(bytes)
       /\ \A j \in 1 .. Len(Units[kind[i]]) :
            bytes[off[i - 1] + j] = Units[kind[i]][j]

\* Pieces that are units flatten to one.
LEMMA Streams ==
  ASSUME NEW pieces \in Seq(Seq(Byte)), NEW n, n = Len(pieces),
         NEW kind \in [1 .. n -> DOMAIN Units],
         \A i \in 1 .. n : pieces[i] = Units[kind[i]]
  PROVE  \E off : Stream(FlattenSeq(pieces), n, kind, off)
<1>1. PICK off \in [0 .. Len(pieces) -> Nat] : Places(pieces, off)
  BY Placing
<1>2. n \in Nat
  BY LenProperties
<1>3. Stream(FlattenSeq(pieces), n, kind, off)
  <2>1. \A i \in 1 .. n : i \in 0 .. n
    BY <1>2
  <2>2. QED
    BY <1>1, <2>1 DEF Places, Stream
<1>4. QED
  BY <1>3

\* Octets lie one behind the other, and none of them begins a line's end.
LEMMA OctetsRun ==
  ASSUME NEW bytes, NEW n \in Nat, NEW kind, NEW off,
         Stream(bytes, n, kind, off),
         NEW i \in 0 .. n, NEW j \in i .. n,
         \A k \in i + 1 .. j : kind[k] = "octet"
  PROVE  /\ off[j] = off[i] + (j - i)
         /\ \A x \in off[i] .. off[j] - 1 : bytes[x + 1] = DATA
<1> DEFINE m == j - i
           T == {k \in 0 .. m : off[i + k] = off[i] + k}
<1>1. m \in Nat /\ i + m = j /\ off[i] \in Nat
  BY DEF Stream
<1>2. ASSUME NEW k \in 0 .. m - 1, k \in T
      PROVE  /\ k + 1 \in T
             /\ bytes[off[i] + k + 1] = DATA
  <2> DEFINE q == i + k + 1
  <2>1. q \in 1 .. n /\ q \in i + 1 .. j /\ q - 1 = i + k /\ i + (k + 1) = q
        /\ k + 1 \in 0 .. m
    BY <1>1, <1>2
  <2>2. kind[q] = "octet" /\ off[i + k] = off[i] + k
    BY <1>2, <2>1
  <2>3. /\ off[q] = off[q - 1] + 1 /\ bytes[off[q - 1] + 1] = DATA
    <3> HIDE DEF q
    <3>1. Len(Units["octet"]) = 1 /\ Units["octet"][1] = DATA
          /\ 1 \in 1 .. 1
      BY UnitFacts
    <3>2. /\ off[q] = off[q - 1] + Len(Units[kind[q]])
          /\ \A l \in 1 .. Len(Units[kind[q]]) :
               bytes[off[q - 1] + l] = Units[kind[q]][l]
      BY <2>1 DEF Stream
    <3>3. QED
      BY <2>2, <3>1, <3>2
  <2> HIDE DEF q, m
  <2>4. QED
    BY <1>1, <2>1, <2>2, <2>3
<1>3. 0 \in T
  <2>1. off[i + 0] = off[i] /\ 0 \in 0 .. m
    BY <1>1
  <2>2. QED
    BY <1>1, <2>1
<1> HIDE DEF m
<1>4. 0 .. m \subseteq T
  <2>1. \A k \in 0 .. m - 1 : k \in T => k + 1 \in T
    BY <1>2
  <2> HIDE DEF T
  <2>2. QED
    BY <1>1, <1>3, <2>1, UpTo
<1>5. off[j] = off[i] + m
  <2>1. m \in 0 .. m
    BY <1>1
  <2>2. off[i + m] = off[i] + m
    BY <1>4, <2>1
  <2>3. QED
    BY <1>1, <2>2
<1>6. ASSUME NEW x \in off[i] .. off[j] - 1 PROVE bytes[x + 1] = DATA
  <2> DEFINE k == x - off[i]
  <2>1. k \in 0 .. m - 1 /\ k \in 0 .. m /\ off[i] + k + 1 = x + 1
    BY <1>1, <1>5, <1>6
  <2> HIDE DEF k, T
  <2>2. k \in T
    BY <1>4, <2>1
  <2>3. bytes[off[i] + k + 1] = DATA
    BY <1>2, <2>1, <2>2
  <2>4. QED
    BY <2>1, <2>3
<1>7. QED
  BY <1>5, <1>6 DEF m

\* The decoder has taken the first i units, each a chunk.
Taken(s, i, off) ==
  /\ s.is = "going" /\ s.pos = off[i] /\ Len(s.body) = i /\ i <= off[i]
  /\ \A j \in 1 .. i : s.body[j] = DATA

\* A unit u lies at position p.
Lies(bytes, u, p) ==
  /\ p \in Nat /\ Len(bytes) \in Nat /\ p + Len(u) <= Len(bytes)
  /\ \A j \in 1 .. Len(u) : bytes[p + j] = u[j]

\* Each lies where the one before it ends.
LEMMA UnitLies ==
  ASSUME NEW bytes \in Seq(Byte), NEW n \in Nat, NEW kind, NEW off,
         Stream(bytes, n, kind, off), NEW i \in 0 .. n - 1
  PROVE  /\ kind[i + 1] \in DOMAIN Units
         /\ off[i + 1] = off[i] + Len(Units[kind[i + 1]])
         /\ Lies(bytes, Units[kind[i + 1]], off[i])
<1>1. i + 1 \in 1 .. n /\ (i + 1) - 1 = i /\ i \in 0 .. n
  OBVIOUS
<1> DEFINE u == Units[kind[i + 1]]
           p == off[i]
<1>2. /\ kind[i + 1] \in DOMAIN Units /\ p \in Nat
      /\ off[i + 1] = p + Len(u) /\ off[i + 1] <= Len(bytes)
      /\ \A j \in 1 .. Len(u) : bytes[p + j] = u[j]
  BY <1>1 DEF Stream
<1>3. Len(bytes) \in Nat
  BY LenProperties
<1> HIDE DEF p, u
<1>4. Lies(bytes, u, p)
  BY <1>2, <1>3 DEF Lies
<1>5. QED
  BY <1>2, <1>4 DEF p, u

\* A chunk more is too large, or taken.
LEMMA ChunkUnit ==
  ASSUME NEW bytes \in Seq(Byte), Len(bytes) + 2 < WORD, NEW cap \in Nat,
         NEW n \in Nat, NEW kind, NEW off, Stream(bytes, n, kind, off),
         NEW i \in 0 .. n - 1, kind[i + 1] = "chunk",
         NEW s \in Outcome(bytes), Taken(s, i, off)
  PROVE  IF i + 1 > cap THEN Turn(bytes, cap, s) = Ended("large", s)
         ELSE Taken(Turn(bytes, cap, s), i + 1, off)
<1> DEFINE p == off[i]
           u == Units["chunk"]
<1>1. /\ p \in Nat /\ off[i + 1] = p + 6 /\ p + 6 <= Len(bytes)
      /\ Len(bytes) \in Nat /\ \A j \in 1 .. 6 : bytes[p + j] = u[j]
  <2>1. u = Units[kind[i + 1]] /\ p = off[i] /\ Len(u) = 6
    BY UnitFacts
  <2>2. /\ off[i + 1] = off[i] + Len(Units[kind[i + 1]])
        /\ Lies(bytes, Units[kind[i + 1]], off[i])
    BY UnitLies
  <2>3. off[i + 1] = p + Len(u) /\ Lies(bytes, u, p)
    BY <2>1, <2>2, Zenon
  <2> HIDE DEF p, u
  <2>4. QED
    BY <2>1, <2>3 DEF Lies
<1>2. /\ u[1] = 1 /\ u[2] = CR /\ u[3] = LF
      /\ u[4] = DATA /\ u[5] = CR /\ u[6] = LF
  BY UnitFacts
<1>3. /\ s.is = "going" /\ s.pos = p /\ Len(s.body) = i /\ i <= p
      /\ s.body \in Seq(Byte) /\ \A j \in 1 .. i : s.body[j] = DATA
  BY DEF Taken, Outcome
<1> HIDE DEF p, u
<1>4. /\ bytes[p + 1] = 1 /\ bytes[p + 2] = CR /\ bytes[p + 3] = LF
      /\ bytes[p + 4] = DATA /\ bytes[p + 5] = CR /\ bytes[p + 6] = LF
  <2>1. {1, 2, 3, 4, 5, 6} \subseteq 1 .. 6
    OBVIOUS
  <2>2. QED
    BY <1>1, <1>2, <2>1
<1>5. Len(s.body) + 1 < WORD
  <2>1. WORD \in Nat
    BY WordFacts
  <2>2. \A x, m, w \in Nat : x + 6 <= m /\ m + 2 < w /\ i <= x => i + 1 < w
    OBVIOUS
  <2> HIDE DEF WORD
  <2>3. i + 1 < WORD
    BY <1>1, <1>3, <2>1, <2>2
  <2>4. QED
    BY <1>3, <2>3
<1>6. /\ Len(s.body) + 1 > cap => Chunk(bytes, cap, s) = Ended("large", s)
      /\ ~ (Len(s.body) + 1 > cap) =>
           \E t \in Seq(Byte) : /\ Len(t) = 1 /\ t[1] = DATA
                                /\ Chunk(bytes, cap, s)
                                     = Going(p + 6, s.body \o t)
  <2>1. p \in Nat /\ p = s.pos /\ p + 6 <= Len(bytes)
    BY <1>1, <1>3
  <2> HIDE DEF WORD, Outcome, Chunk, Ended, Going, CR, LF, DATA
  <2>2. QED
    BY <1>4, <1>5, <2>1, ChunkTurn
<1>7. Turn(bytes, cap, s) = Chunk(bytes, cap, s)
  BY <1>3 DEF Turn
<1>8. CASE i + 1 > cap
  BY <1>3, <1>6, <1>7, <1>8
<1>9. CASE ~ (i + 1 > cap)
  <2>1. PICK t \in Seq(Byte) :
          /\ Len(t) = 1 /\ t[1] = DATA
          /\ Turn(bytes, cap, s) = Going(p + 6, s.body \o t)
    BY <1>3, <1>6, <1>7, <1>9
  <2> DEFINE b == s.body
             c == b \o t
  <2>2. b \in Seq(Byte)
    BY <1>3
  <2> HIDE DEF b, c
  <2>3. /\ Len(c) = Len(b) + Len(t)
        /\ \A j \in 1 .. Len(b) : c[j] = b[j]
        /\ \A j \in 1 .. Len(t) : c[Len(b) + j] = t[j]
    <3>1. b \in Seq(Byte) /\ t \in Seq(Byte)
      BY <2>2
    <3>2. /\ Len(b \o t) = Len(b) + Len(t)
          /\ \A j \in 1 .. Len(b) : (b \o t)[j] = b[j]
          /\ \A j \in 1 .. Len(t) : (b \o t)[Len(b) + j] = t[j]
      BY <3>1, Behindhand
    <3>3. QED
      BY <3>2 DEF c
  <2>4. Len(b) = i /\ \A j \in 1 .. i : b[j] = DATA
    BY <1>3 DEF b
  <2>5. Len(c) = i + 1 /\ c[i + 1] = DATA /\ \A j \in 1 .. i : c[j] = DATA
    BY <2>1, <2>3, <2>4
  <2>6. \A j \in 1 .. i + 1 : c[j] = DATA
    BY <2>5
  <2>7. Turn(bytes, cap, s) = Going(p + 6, c)
    BY <2>1 DEF b, c
  <2>8. Taken(Going(p + 6, c), i + 1, off)
    BY <1>1, <1>3, <2>5, <2>6 DEF Going, Taken
  <2>9. QED
    BY <1>9, <2>7, <2>8
<1>10. QED
  BY <1>8, <1>9

\* The last chunk completes the body.
LEMMA LastUnit ==
  ASSUME NEW bytes \in Seq(Byte), NEW cap,
         NEW n \in Nat, NEW kind, NEW off, Stream(bytes, n, kind, off),
         NEW i \in 0 .. n - 1, kind[i + 1] = "last",
         NEW s \in Outcome(bytes), Taken(s, i, off)
  PROVE  /\ Turn(bytes, cap, s).is = "complete"
         /\ Turn(bytes, cap, s).body = s.body
<1> DEFINE p == off[i]
           u == Units["last"]
<1>1. /\ p \in Nat /\ p + 5 <= Len(bytes)
      /\ Len(bytes) \in Nat /\ \A j \in 1 .. 5 : bytes[p + j] = u[j]
  <2>1. u = Units[kind[i + 1]] /\ p = off[i] /\ Len(u) = 5
    BY UnitFacts
  <2>2. Lies(bytes, u, p)
    BY <2>1, UnitLies
  <2> HIDE DEF p, u
  <2>3. QED
    BY <2>1, <2>2 DEF Lies
<1>2. u[1] = 0 /\ u[2] = CR /\ u[3] = LF /\ u[4] = CR /\ u[5] = LF
  BY UnitFacts
<1>3. s.is = "going" /\ s.pos = p
  BY DEF Taken
<1> HIDE DEF p, u
<1>4. /\ bytes[p + 1] = 0 /\ bytes[p + 2] = CR /\ bytes[p + 3] = LF
      /\ bytes[p + 4] = CR /\ bytes[p + 5] = LF
  <2>1. {1, 2, 3, 4, 5} \subseteq 1 .. 5
    OBVIOUS
  <2>2. QED
    BY <1>1, <1>2, <2>1
<1>5. /\ Chunk(bytes, cap, s).is = "complete"
      /\ Chunk(bytes, cap, s).body = s.body
  BY <1>1, <1>3, <1>4, LastTurn
<1>6. QED
  BY <1>3, <1>5 DEF Turn

\* A unit that begins no chunk is refused with the next CR.
LEMMA BadUnit ==
  ASSUME NEW bytes \in Seq(Byte), NEW cap,
         NEW n \in Nat, NEW kind, NEW off, Stream(bytes, n, kind, off),
         NEW i \in 0 .. n - 1, kind[i + 1] \notin {"chunk", "last"},
         NEW j \in i .. n - 1, kind[j + 1] # "octet",
         \A k \in i + 1 .. j : kind[k] = "octet",
         NEW s \in Outcome(bytes), Taken(s, i, off)
  PROVE  Turn(bytes, cap, s).is = "bad"
<1> DEFINE p == off[i]
           q == off[j]
           e == q + 1
           v == Units[kind[i + 1]]
           u == Units[kind[j + 1]]
<1>1. /\ p \in Nat /\ \A k \in 1 .. Len(v) : bytes[p + k] = v[k]
      /\ kind[i + 1] \in {"octet", "line", "end"}
  <2>1. kind[i + 1] \in DOMAIN Units /\ Lies(bytes, v, p)
    BY UnitLies
  <2> HIDE DEF p, v
  <2>2. kind[i + 1] \in {"octet", "line", "end"}
    BY <2>1, UnitFacts
  <2>3. QED
    BY <2>1, <2>2 DEF Lies
<1>2. /\ q \in Nat /\ q + Len(u) <= Len(bytes) /\ Len(bytes) \in Nat
      /\ \A k \in 1 .. Len(u) : bytes[q + k] = u[k]
      /\ kind[j + 1] \in DOMAIN Units \ {"octet"}
  <2>1. j \in 0 .. n - 1
    OBVIOUS
  <2>2. kind[j + 1] \in DOMAIN Units /\ Lies(bytes, u, q)
    BY <2>1, UnitLies
  <2> HIDE DEF q, u
  <2>3. QED
    BY <2>2 DEF Lies
<1>3. Len(v) \in Nat /\ Len(v) >= 1 /\ v[1] = DATA
  <2>1. kind[i + 1] = "octet" => Len(v) = 1
    BY UnitFacts
  <2>2. kind[i + 1] # "octet" => Len(v) \in Nat /\ Len(v) >= 3
    BY <1>1, UnitFacts
  <2>3. v[1] = DATA
    BY <1>1, UnitFacts
  <2>4. QED
    BY <2>1, <2>2, <2>3
<1>4. /\ Len(u) \in Nat /\ Len(u) >= 3
      /\ u[1] # CR /\ u[2] = CR /\ u[3] = LF
  BY <1>2, UnitFacts
<1>5. q = p + (j - i) /\ \A x \in p .. q - 1 : bytes[x + 1] = DATA
  BY OctetsRun
<1>6. s.is = "going" /\ s.pos = p
  BY DEF Taken
<1> HIDE DEF p, q, u, v
<1>7. bytes[p + 1] = DATA
  BY <1>1, <1>3
<1>8. bytes[q + 1] # CR /\ bytes[q + 2] = CR /\ bytes[q + 3] = LF
  <2>1. {1, 2, 3} \subseteq 1 .. Len(u)
    BY <1>4
  <2>2. QED
    BY <1>2, <1>4, <2>1
<1>9. /\ e \in p + 1 .. Len(bytes) - 2 /\ e + 1 = q + 2 /\ e + 2 = q + 3
      /\ \A x \in p .. e - 1 : x \in p .. q - 1 \/ x = q
  BY <1>1, <1>2, <1>4, <1>5
<1>10. DATA # CR
  BY ChunkedBodyAssumption DEF DATA, CR
<1>11. \A x \in p .. e - 1 : bytes[x + 1] # CR
  BY <1>5, <1>8, <1>9, <1>10
<1> HIDE DEF e
<1>12. Chunk(bytes, cap, s).is = "bad"
  BY <1>6, <1>7, <1>8, <1>9, <1>11, BadTurn
<1>13. QED
  BY <1>6, <1>12 DEF Turn

\* Octets alone do not end a line.
LEMMA MoreUnits ==
  ASSUME NEW bytes \in Seq(Byte), NEW cap,
         NEW n \in Nat, NEW kind, NEW off, Stream(bytes, n, kind, off),
         NEW i \in 0 .. n, \A k \in i + 1 .. n : kind[k] = "octet",
         NEW s \in Outcome(bytes), Taken(s, i, off)
  PROVE  Turn(bytes, cap, s).is = "more"
<1> DEFINE p == off[i]
           q == off[n]
<1>1. q = Len(bytes) /\ q \in Nat /\ p \in Nat
  BY LenProperties DEF Stream
<1>2. \A x \in p .. q - 1 : bytes[x + 1] = DATA
  <2>1. n \in i .. n
    OBVIOUS
  <2>2. QED
    BY <2>1, OctetsRun
<1>3. s.is = "going" /\ s.pos = p
  BY DEF Taken
<1> HIDE DEF p, q
<1>4. DATA # CR
  BY ChunkedBodyAssumption DEF DATA, CR
<1>5. \A x \in s.pos .. Len(bytes) - 2 : bytes[x + 1] # CR
  BY <1>1, <1>2, <1>3, <1>4
<1>6. Chunk(bytes, cap, s).is = "more"
  BY <1>5, MoreTurn
<1>7. QED
  BY <1>3, <1>6 DEF Turn

\* The states that the decoder goes through.
Runs(bytes, cap, after) ==
  /\ after \in [0 .. Len(bytes) + 1 -> Outcome(bytes)]
  /\ after[0] = Going(0, <<>>)
  /\ \A i \in 1 .. Len(bytes) + 1 : after[i] = Turn(bytes, cap, after[i - 1])

\* It takes a unit each turn, as long as that is a chunk within the limit.
LEMMA AllTaken ==
  ASSUME NEW bytes \in Seq(Byte), Len(bytes) + 2 < WORD, NEW cap \in Nat,
         NEW n \in Nat, NEW kind, NEW off, Stream(bytes, n, kind, off),
         NEW after, Runs(bytes, cap, after),
         NEW i \in 0 .. n, i <= cap, \A k \in 1 .. i : kind[k] = "chunk"
  PROVE  i <= Len(bytes) /\ Taken(after[i], i, off)
<1> DEFINE T == {k \in 0 .. i : k <= Len(bytes) /\ Taken(after[k], k, off)}
<1>1. Len(bytes) \in Nat /\ i \in Nat
  BY LenProperties
<1>2. 0 \in T
  <2>1. after[0] = Going(0, <<>>) /\ off[0] = 0
    BY DEF Runs, Stream
  <2>2. Taken(Going(0, <<>>), 0, off)
    BY <2>1 DEF Taken, Going
  <2>3. QED
    BY <1>1, <2>1, <2>2
<1>3. ASSUME NEW k \in 0 .. i - 1, k \in T PROVE k + 1 \in T
  <2> DEFINE s == after[k]
             t == Turn(bytes, cap, s)
             q == k + 1
  <2>1. /\ k \in 0 .. n - 1 /\ q \in 1 .. i /\ q \in 0 .. i /\ ~ (q > cap)
        /\ k \in Nat /\ k <= Len(bytes)
    BY <1>1, <1>3
  <2>2. k \in 0 .. Len(bytes) + 1 /\ q \in 1 .. Len(bytes) + 1 /\ q - 1 = k
    BY <1>1, <2>1
  <2>3. Taken(s, k, off) /\ s \in Outcome(bytes) /\ after[q] = t
    BY <1>3, <2>2 DEF Runs
  <2>4. kind[q] = "chunk"
    BY <2>1
  <2> HIDE DEF s, t, T
  <2>5. Taken(t, q, off)
    <3>1. IF k + 1 > cap THEN Turn(bytes, cap, s) = Ended("large", s)
          ELSE Taken(Turn(bytes, cap, s), k + 1, off)
      BY <2>1, <2>3, <2>4, ChunkUnit
    <3>2. QED
      BY <2>1, <3>1 DEF t
  <2>6. t \in Outcome(bytes) /\ q <= Len(bytes)
    <3>1. t \in Outcome(bytes)
      BY <2>3, TurnFacts DEF t
    <3>2. q <= off[q] /\ t.pos = off[q]
      BY <2>5 DEF Taken
    <3>3. t.pos \in 0 .. Len(bytes)
      BY <3>1 DEF Outcome
    <3>4. QED
      BY <1>1, <2>1, <3>1, <3>2, <3>3
  <2>7. QED
    BY <2>1, <2>3, <2>5, <2>6 DEF T
<1>4. i \in T
  <2> HIDE DEF T
  <2>1. 0 .. i \subseteq T
    BY <1>1, <1>2, <1>3, UpTo
  <2>2. QED
    BY <1>1, <2>1
<1>5. QED
  BY <1>4

\* Where it has ended it stays.
LEMMA StaysEnded ==
  ASSUME NEW bytes \in Seq(Byte), NEW cap, NEW after,
         Runs(bytes, cap, after), NEW x \in 0 .. Len(bytes) + 1,
         after[x].is # "going"
  PROVE  after[Len(bytes) + 1] = after[x]
<1> DEFINE m == (Len(bytes) + 1) - x
           T == {k \in 0 .. m : after[x + k] = after[x]}
<1>1. m \in Nat /\ x \in Nat /\ x + m = Len(bytes) + 1 /\ Len(bytes) \in Nat
  BY LenProperties
<1>2. 0 \in T
  <2>1. x + 0 = x /\ 0 \in 0 .. m
    BY <1>1
  <2>2. QED
    BY <2>1
<1>3. ASSUME NEW k \in 0 .. m - 1, k \in T PROVE k + 1 \in T
  <2> DEFINE q == x + (k + 1)
  <2>1. /\ k + 1 \in 0 .. m /\ q \in 1 .. Len(bytes) + 1 /\ q - 1 = x + k
        /\ x + k \in 0 .. Len(bytes) + 1
    BY <1>1, <1>3
  <2>2. /\ after[q] = Turn(bytes, cap, after[q - 1])
        /\ after[x + k] \in Outcome(bytes)
    BY <2>1 DEF Runs
  <2>3. after[x + k] = after[x]
    BY <1>3
  <2>4. Turn(bytes, cap, after[x]) = after[x]
    BY DEF Turn
  <2>5. after[q] = after[x]
    BY <2>1, <2>2, <2>3, <2>4
  <2>6. QED
    BY <2>1, <2>5
<1>4. m \in T
  <2> HIDE DEF T, m
  <2>1. 0 .. m \subseteq T
    BY <1>1, <1>2, <1>3, UpTo
  <2>2. QED
    BY <1>1, <2>1
<1>5. after[x + m] = after[x]
  BY <1>4
<1>6. QED
  BY <1>1, <1>5

\* The decoder takes the chunks within the limit at the front, and stops
\* behind i of them: the next unit is no chunk, or too much, or not there.
Stops(n, kind, cap, i) ==
  /\ i \in 0 .. n /\ i <= cap
  /\ \A k \in 1 .. i : kind[k] = "chunk"
  /\ i < n /\ kind[i + 1] = "chunk" => i = cap

\* It stops somewhere.
LEMMA Stopping ==
  ASSUME NEW n \in Nat, NEW kind, NEW cap \in Nat
  PROVE  \E i \in Nat : Stops(n, kind, cap, i)
<1> DEFINE T == {i \in 0 .. n : i = n \/ i = cap \/ kind[i + 1] # "chunk"}
<1>1. T \in SUBSET Nat /\ n \in T
  OBVIOUS
<1>2. T # {}
  BY <1>1
<1> HIDE DEF T
<1>3. PICK i \in T : \A j \in T : i <= j
  BY <1>1, <1>2, Least, Zenon
<1>4. /\ i \in 0 .. n /\ (i = n \/ i = cap \/ kind[i + 1] # "chunk")
  BY DEF T
<1>5. i <= cap
  <2>1. SUFFICES ASSUME cap < i PROVE FALSE
    BY <1>4
  <2>2. cap \in T
    BY <1>4, <2>1 DEF T
  <2>3. QED
    BY <1>3, <1>4, <2>1, <2>2
<1>6. ASSUME NEW k \in 1 .. i PROVE kind[k] = "chunk"
  <2>1. k - 1 \in 0 .. n /\ k - 1 < i /\ (k - 1) + 1 = k
    BY <1>4
  <2>2. k - 1 \notin T
    BY <1>3, <1>4, <2>1
  <2>3. QED
    BY <2>1, <2>2 DEF T
<1>7. Stops(n, kind, cap, i)
  BY <1>4, <1>5, <1>6 DEF Stops
<1>8. QED
  BY <1>4, <1>7

\* What comes next, and how that ends it.
TooLargeNext(n, kind, i) == i < n /\ kind[i + 1] = "chunk"

LastNext(n, kind, i) == i < n /\ kind[i + 1] = "last"

NoChunkNext(n, kind, i) ==
  /\ i < n /\ kind[i + 1] \notin {"chunk", "last"}
  /\ \E j \in i + 1 .. n : kind[j] # "octet"

NothingNext(n, kind, i) == \A k \in i + 1 .. n : kind[k] = "octet"

\* It is one of these, and only one.
LEMMA Nexts ==
  ASSUME NEW n \in Nat, NEW kind, NEW i \in 0 .. n
  PROVE  /\ TooLargeNext(n, kind, i) \/ LastNext(n, kind, i)
              \/ NoChunkNext(n, kind, i) \/ NothingNext(n, kind, i)
         /\ NothingNext(n, kind, i) =>
              ~ TooLargeNext(n, kind, i) /\ ~ LastNext(n, kind, i)
         /\ NoChunkNext(n, kind, i) => ~ NothingNext(n, kind, i)
<1>1. i < n => i + 1 \in i + 1 .. n
  OBVIOUS
<1>2. ~ (i < n) => \A k \in i + 1 .. n : FALSE
  OBVIOUS
<1>3. QED
  BY <1>1, <1>2 DEF TooLargeNext, LastNext, NoChunkNext, NothingNext

\* What the decoder says then.
Says(n, kind, i, r) ==
  /\ TooLargeNext(n, kind, i) => r.is = "large"
  /\ LastNext(n, kind, i) =>
       /\ r.is = "complete" /\ r.body \in Seq(Byte) /\ Len(r.body) = i
       /\ \A j \in 1 .. i : r.body[j] = DATA
  /\ NoChunkNext(n, kind, i) => r.is = "bad"
  /\ NothingNext(n, kind, i) => r.is = "more"

\* What decode_chunked makes of a stream of units.
LEMMA UnitsDecode ==
  ASSUME NEW bytes \in Seq(Byte), Len(bytes) + 2 < WORD, NEW cap \in Nat,
         NEW n \in Nat, NEW kind, NEW off, Stream(bytes, n, kind, off),
         NEW i \in Nat, Stops(n, kind, cap, i),
         NEW r, r = decode_chunked(bytes, cap)
  PROVE  Says(n, kind, i, r)
<1>1. PICK after \in [0 .. Len(bytes) + 1 -> Outcome(bytes)] :
        /\ after[0] = Going(0, <<>>)
        /\ \A x \in 1 .. Len(bytes) + 1 :
             after[x] = Turn(bytes, cap, after[x - 1])
        /\ decode_chunked(bytes, cap) = after[Len(bytes) + 1]
  BY Looping
<1>2. Runs(bytes, cap, after)
  BY <1>1 DEF Runs
<1>3. i \in 0 .. n /\ i <= cap /\ \A k \in 1 .. i : kind[k] = "chunk"
  BY DEF Stops
<1> DEFINE s == after[i]
           t == Turn(bytes, cap, s)
<1>4. i <= Len(bytes) /\ Taken(s, i, off)
  BY <1>2, <1>3, AllTaken
<1>5. /\ i \in 0 .. Len(bytes) + 1 /\ i + 1 \in 1 .. Len(bytes) + 1
      /\ i + 1 \in 0 .. Len(bytes) + 1 /\ (i + 1) - 1 = i
  BY <1>4, LenProperties
<1>6. s \in Outcome(bytes) /\ after[i + 1] = t
  BY <1>1, <1>5
<1>7. t.is # "going" => r = t
  <2>1. after[i + 1].is # "going" => after[Len(bytes) + 1] = after[i + 1]
    BY <1>2, <1>5, StaysEnded
  <2>2. QED
    BY <1>1, <1>6, <2>1
<1> HIDE DEF s, t
<1>8. TooLargeNext(n, kind, i) => r.is = "large"
  <2>1. SUFFICES ASSUME TooLargeNext(n, kind, i) PROVE r.is = "large"
    OBVIOUS
  <2>2. i \in 0 .. n - 1 /\ kind[i + 1] = "chunk" /\ i + 1 > cap
    BY <1>3, <2>1 DEF TooLargeNext, Stops
  <2>3. IF i + 1 > cap THEN Turn(bytes, cap, s) = Ended("large", s)
        ELSE Taken(Turn(bytes, cap, s), i + 1, off)
    BY <1>4, <1>6, <2>2, ChunkUnit
  <2>4. t = Ended("large", s)
    BY <2>2, <2>3 DEF t
  <2>5. t.is = "large"
    BY <1>6, <2>4, EndedType
  <2>6. QED
    BY <1>7, <2>5
<1>9. LastNext(n, kind, i) =>
        /\ r.is = "complete" /\ r.body \in Seq(Byte) /\ Len(r.body) = i
        /\ \A j \in 1 .. i : r.body[j] = DATA
  <2>1. SUFFICES ASSUME LastNext(n, kind, i)
                 PROVE  /\ r.is = "complete" /\ r.body \in Seq(Byte)
                        /\ Len(r.body) = i
                        /\ \A j \in 1 .. i : r.body[j] = DATA
    OBVIOUS
  <2>2. i \in 0 .. n - 1 /\ kind[i + 1] = "last"
    BY <1>3, <2>1 DEF LastNext
  <2>3. t.is = "complete" /\ t.body = s.body
    BY <1>4, <1>6, <2>2, LastUnit DEF t
  <2>4. /\ s.body \in Seq(Byte) /\ Len(s.body) = i
        /\ \A j \in 1 .. i : s.body[j] = DATA
    BY <1>4, <1>6 DEF Taken, Outcome
  <2>5. QED
    BY <1>7, <2>3, <2>4
<1>10. NoChunkNext(n, kind, i) => r.is = "bad"
  <2>1. SUFFICES ASSUME NoChunkNext(n, kind, i) PROVE r.is = "bad"
    OBVIOUS
  <2> DEFINE T == {j \in i .. n - 1 : kind[j + 1] # "octet"}
  <2>2. i \in 0 .. n - 1 /\ kind[i + 1] \notin {"chunk", "last"}
    BY <1>3, <2>1 DEF NoChunkNext
  <2>3. T # {} /\ T \in SUBSET Nat
    <3>1. PICK j \in i + 1 .. n : kind[j] # "octet"
      BY <2>1 DEF NoChunkNext
    <3>2. j - 1 \in i .. n - 1 /\ (j - 1) + 1 = j
      OBVIOUS
    <3>3. j - 1 \in T
      BY <3>1, <3>2
    <3>4. T \in SUBSET Nat
      BY <2>2
    <3> HIDE DEF T
    <3>5. QED
      BY <3>3, <3>4
  <2> HIDE DEF T
  <2>4. PICK j \in T : \A k \in T : j <= k
    BY <2>3, Least, Zenon
  <2>5. j \in i .. n - 1 /\ kind[j + 1] # "octet"
    BY DEF T
  <2>6. ASSUME NEW k \in i + 1 .. j PROVE kind[k] = "octet"
    <3>1. k - 1 \in i .. n - 1 /\ k - 1 < j /\ (k - 1) + 1 = k
      BY <2>5
    <3>2. k - 1 \notin T
      BY <2>4, <2>5, <3>1
    <3>3. QED
      BY <3>1, <3>2 DEF T
  <2>7. t.is = "bad"
    <3>1. \A k \in i + 1 .. j : kind[k] = "octet"
      BY <2>6
    <3>2. s \in Outcome(bytes) /\ Taken(s, i, off)
      BY <1>4, <1>6
    <3>3. Turn(bytes, cap, s).is = "bad"
      BY <2>2, <2>5, <3>1, <3>2, BadUnit
    <3>4. QED
      BY <3>3 DEF t
  <2>8. QED
    BY <1>7, <2>7
<1>11. NothingNext(n, kind, i) => r.is = "more"
  <2>1. SUFFICES ASSUME NothingNext(n, kind, i) PROVE r.is = "more"
    OBVIOUS
  <2>2. \A k \in i + 1 .. n : kind[k] = "octet"
    BY <2>1 DEF NothingNext
  <2>3. t.is = "more"
    BY <1>3, <1>4, <1>6, <2>2, MoreUnits DEF t
  <2>4. QED
    BY <1>7, <2>3
<1>12. QED
  BY <1>8, <1>9, <1>10, <1>11 DEF Says

\* Module Http's outcomes on the units of buf: where the decoder stops after
\* i chunks, they say what comes next.
LEMMA UnitOutcomes ==
  ASSUME NEW buf, NEW n \in Nat, Len(buf) = n, NEW kind,
         \A k \in 1 .. n : buf[k].kind = kind[k],
         NEW cap \in Nat, NEW i \in Nat, Stops(n, kind, cap, i)
  PROVE  /\ \A l \in 0 .. n : OnUnits!DecodesTo(buf, l, cap) <=>
                                l = i /\ LastNext(n, kind, i)
         /\ OnUnits!DecodedTooLarge(buf, cap) <=> TooLargeNext(n, kind, i)
         /\ OnUnits!BadChunk(buf, cap) <=> NoChunkNext(n, kind, i)
         /\ OnUnits!NeedMore(buf, cap) <=> NothingNext(n, kind, i)
<1>1. /\ i \in 0 .. n /\ i <= cap /\ \A k \in 1 .. i : kind[k] = "chunk"
      /\ i < n /\ kind[i + 1] = "chunk" => i = cap
  BY DEF Stops
\* A beginning of chunks only is at most i long, or one longer.
<1>2. ASSUME NEW l \in Nat, l <= n
      PROVE  /\ OnUnits!AllChunks(buf, l) <=>
                  \A k \in 1 .. l : kind[k] = "chunk"
             /\ l <= i => OnUnits!AllChunks(buf, l)
             /\ i < l /\ OnUnits!AllChunks(buf, l) => i = cap
  <2>1. \A k \in 1 .. l : k \in 1 .. n /\ (l <= i => k \in 1 .. i)
    BY <1>1, <1>2
  <2>2. OnUnits!AllChunks(buf, l) <=> \A k \in 1 .. l : kind[k] = "chunk"
    BY <2>1 DEF OnUnits!AllChunks
  <2>3. i < l => i + 1 \in 1 .. l /\ i < n
    BY <1>1, <1>2
  <2>4. QED
    BY <1>1, <2>1, <2>2, <2>3
<1>3. ASSUME NEW l \in 0 .. n
      PROVE  OnUnits!DecodesTo(buf, l, cap) <=> l = i /\ LastNext(n, kind, i)
  <2>1. l < n => l + 1 \in 1 .. n /\ buf[l + 1].kind = kind[l + 1]
    OBVIOUS
  <2>2. OnUnits!DecodesTo(buf, l, cap) <=>
          /\ l < n /\ l <= cap /\ OnUnits!AllChunks(buf, l)
          /\ kind[l + 1] = "last"
    BY <2>1 DEF OnUnits!DecodesTo
  <2>3. l < i => l + 1 \in 1 .. i
    BY <1>1
  <2>4. l \in Nat /\ l <= n
    OBVIOUS
  <2>5. QED
    BY <1>1, <1>2, <2>2, <2>3, <2>4 DEF LastNext
<1>4. OnUnits!DecodedTooLarge(buf, cap) <=> TooLargeNext(n, kind, i)
  <2>1. OnUnits!DecodedTooLarge(buf, cap) <=>
          cap < n /\ OnUnits!AllChunks(buf, cap + 1)
    BY DEF OnUnits!DecodedTooLarge
  <2>2. ASSUME cap < n, OnUnits!AllChunks(buf, cap + 1)
        PROVE  TooLargeNext(n, kind, i)
    <3>1. cap + 1 \in Nat /\ cap + 1 <= n /\ i < cap + 1
          /\ cap + 1 \in 1 .. cap + 1
      BY <1>1, <2>2
    <3>2. i = cap /\ kind[cap + 1] = "chunk"
      BY <1>2, <2>2, <3>1
    <3>3. QED
      BY <2>2, <3>2 DEF TooLargeNext
  <2>3. ASSUME TooLargeNext(n, kind, i)
        PROVE  cap < n /\ OnUnits!AllChunks(buf, cap + 1)
    <3>1. i = cap /\ i < n /\ kind[i + 1] = "chunk"
      BY <1>1, <2>3 DEF TooLargeNext
    <3>2. \A k \in 1 .. cap + 1 : k \in 1 .. i \/ k = i + 1
      BY <3>1
    <3>3. \A k \in 1 .. cap + 1 : kind[k] = "chunk"
      BY <1>1, <3>1, <3>2
    <3>4. cap + 1 \in Nat /\ cap + 1 <= n
      BY <3>1
    <3>5. QED
      BY <1>2, <3>1, <3>3, <3>4
  <2>4. QED
    BY <2>1, <2>2, <2>3
<1>5. OnUnits!BadChunk(buf, cap) <=> NoChunkNext(n, kind, i)
  <2>1. ASSUME OnUnits!BadChunk(buf, cap) PROVE NoChunkNext(n, kind, i)
    <3>1. PICK l \in 0 .. n - 1 :
            /\ l <= cap /\ OnUnits!AllChunks(buf, l)
            /\ buf[l + 1].kind \notin {"chunk", "last"}
            /\ \E j \in l + 1 .. n : buf[j].kind # "octet"
      BY <2>1 DEF OnUnits!BadChunk
    <3>2. PICK j \in l + 1 .. n : buf[j].kind # "octet"
      BY <3>1
    <3>3. /\ l + 1 \in 1 .. n /\ j \in 1 .. n /\ l \in Nat /\ l <= n
          /\ l < i => l + 1 \in 1 .. i
          /\ l < n
      BY <1>1
    <3>4. kind[l + 1] \notin {"chunk", "last"} /\ kind[j] # "octet"
      BY <3>1, <3>2, <3>3
    <3>5. l = i
      BY <1>1, <1>2, <3>1, <3>3, <3>4
    <3>6. QED
      BY <3>3, <3>4, <3>5 DEF NoChunkNext
  <2>2. ASSUME NoChunkNext(n, kind, i) PROVE OnUnits!BadChunk(buf, cap)
    <3>1. i < n /\ kind[i + 1] \notin {"chunk", "last"}
      BY <2>2 DEF NoChunkNext
    <3>2. PICK j \in i + 1 .. n : kind[j] # "octet"
      BY <2>2 DEF NoChunkNext
    <3>3. i + 1 \in 1 .. n /\ j \in 1 .. n /\ i \in 0 .. n - 1 /\ i <= n
      BY <1>1, <3>1
    <3>4. buf[i + 1].kind \notin {"chunk", "last"} /\ buf[j].kind # "octet"
      BY <3>1, <3>2, <3>3
    <3>5. OnUnits!AllChunks(buf, i)
      BY <1>2, <3>3
    <3>6. QED
      BY <1>1, <3>3, <3>4, <3>5 DEF OnUnits!BadChunk
  <2>3. QED
    BY <2>1, <2>2
<1>6. OnUnits!NeedMore(buf, cap) <=> NothingNext(n, kind, i)
  <2>1. OnUnits!NeedMore(buf, cap) <=>
          /\ ~ OnUnits!DecodedTooLarge(buf, cap)
          /\ ~ OnUnits!BadChunk(buf, cap)
          /\ \A l \in 0 .. n : ~ OnUnits!DecodesTo(buf, l, cap)
    BY DEF OnUnits!NeedMore
  <2>2. OnUnits!NeedMore(buf, cap) <=>
          /\ ~ TooLargeNext(n, kind, i) /\ ~ NoChunkNext(n, kind, i)
          /\ ~ LastNext(n, kind, i)
    BY <1>1, <1>3, <1>4, <1>5, <2>1
  <2>3. QED
    BY <1>1, <2>2, Nexts
<1>7. QED
  BY <1>3, <1>4, <1>5, <1>6

\* An outcome of the decoder, and those of module Http on a buffer of n units.
Agree(buf, n, cap, r) ==
  /\ r.is = "complete" <=> \E l \in 0 .. n : /\ OnUnits!DecodesTo(buf, l, cap)
                                             /\ r.body = OnUnits!Octets(buf, l)
  /\ r.is = "large" <=> OnUnits!DecodedTooLarge(buf, cap)
  /\ r.is = "bad" <=> OnUnits!BadChunk(buf, cap)
  /\ r.is = "more" <=> OnUnits!NeedMore(buf, cap)

\* They agree where the decoder says what comes next.
LEMMA Agreement ==
  ASSUME NEW n \in Nat, NEW kind, NEW cap \in Nat, NEW i \in Nat,
         Stops(n, kind, cap, i), NEW buf, Len(buf) = n,
         \A k \in 1 .. n : buf[k].kind = kind[k],
         \A k \in 1 .. n : buf[k].octet = DATA,
         NEW r, Says(n, kind, i, r)
  PROVE  Agree(buf, n, cap, r)
<1>1. /\ \A l \in 0 .. n : OnUnits!DecodesTo(buf, l, cap) <=>
                             l = i /\ LastNext(n, kind, i)
      /\ OnUnits!DecodedTooLarge(buf, cap) <=> TooLargeNext(n, kind, i)
      /\ OnUnits!BadChunk(buf, cap) <=> NoChunkNext(n, kind, i)
      /\ OnUnits!NeedMore(buf, cap) <=> NothingNext(n, kind, i)
  BY UnitOutcomes
<1>2. i \in 0 .. n
  BY DEF Stops
<1>3. /\ TooLargeNext(n, kind, i) \/ LastNext(n, kind, i)
           \/ NoChunkNext(n, kind, i) \/ NothingNext(n, kind, i)
      /\ NothingNext(n, kind, i) =>
           ~ TooLargeNext(n, kind, i) /\ ~ LastNext(n, kind, i)
      /\ NoChunkNext(n, kind, i) => ~ NothingNext(n, kind, i)
  BY <1>2, Nexts
<1>4. /\ TooLargeNext(n, kind, i) => r.is = "large"
      /\ LastNext(n, kind, i) =>
           /\ r.is = "complete" /\ r.body \in Seq(Byte) /\ Len(r.body) = i
           /\ \A j \in 1 .. i : r.body[j] = DATA
      /\ NoChunkNext(n, kind, i) => r.is = "bad"
      /\ NothingNext(n, kind, i) => r.is = "more"
  BY DEF Says
<1>5. ASSUME LastNext(n, kind, i) PROVE r.body = OnUnits!Octets(buf, i)
  <2> DEFINE o == OnUnits!Octets(buf, i)
  <2>1. o = [j \in 1 .. i |-> DATA]
    BY <1>2 DEF OnUnits!Octets
  <2>2. DATA \in Byte
    BY ChunkedBodyAssumption DEF Byte, DATA
  <2> HIDE DEF o, DATA, Byte
  <2>3. /\ o \in Seq(Byte) /\ Len(o) = i /\ \A j \in 1 .. i : o[j] = DATA
    BY <2>1, <2>2
  <2>4. \A s, t \in Seq(Byte) :
          Len(s) = Len(t) /\ (\A j \in 1 .. Len(s) : s[j] = t[j]) => s = t
    BY SeqEqual
  <2> DEFINE b == r.body
  <2>5. /\ b \in Seq(Byte) /\ Len(b) = i /\ \A j \in 1 .. i : b[j] = DATA
    BY <1>4, <1>5
  <2> HIDE DEF b
  <2>6. b = o
    BY <2>3, <2>4, <2>5
  <2>7. QED
    BY <2>6 DEF b, o
<1>6. r.is = "complete" <=> LastNext(n, kind, i)
  BY <1>4, <1>3
<1>7. (\E l \in 0 .. n : /\ OnUnits!DecodesTo(buf, l, cap)
                         /\ r.body = OnUnits!Octets(buf, l))
        <=> LastNext(n, kind, i)
  BY <1>1, <1>2, <1>5
<1>8. /\ r.is = "large" <=> TooLargeNext(n, kind, i)
      /\ r.is = "bad" <=> NoChunkNext(n, kind, i)
      /\ r.is = "more" <=> NothingNext(n, kind, i)
  BY <1>4, <1>3
<1>9. QED
  BY <1>1, <1>6, <1>7, <1>8 DEF Agree

-----------------------------------------------------------------------------
(***************************************************************************)
(* Theorems.                                                               *)
(***************************************************************************)
\* What has arrived is where the stream begins.
LEMMA InputFacts ==
  ASSUME TypeOK
  PROVE  /\ input \in Seq(Byte) /\ slice(input, 0, got) \in Seq(Byte)
         /\ Len(slice(input, 0, got)) = got
         /\ Extends(input, slice(input, 0, got))
<1>1. script \in Seq(Seq(Byte))
  BY ChunkedBodyAssumption DEF TypeOK
<1>2. FlattenSeq(script) \in Seq(Byte)
  BY <1>1, FlattenType
<1> DEFINE in == input
<1>3. in \in Seq(Byte) /\ got \in 0 .. Len(in) /\ Len(in) \in Nat
  BY <1>2, LenProperties DEF TypeOK, input
<1> HIDE DEF in
<1>4. /\ slice(in, 0, got) \in Seq(Byte)
      /\ Len(slice(in, 0, got)) = IF 0 <= got THEN got - 0 ELSE 0
      /\ \A i \in 1 .. got - 0 : slice(in, 0, got)[i] = in[0 + i]
  BY <1>3, SliceFacts
<1>5. /\ Len(slice(in, 0, got)) = got
      /\ \A i \in 1 .. got : slice(in, 0, got)[i] = in[i]
  BY <1>3, <1>4
<1>6. Extends(in, slice(in, 0, got))
  BY <1>3, <1>5 DEF Extends
<1>7. QED
  BY <1>3, <1>4, <1>5, <1>6 DEF in

\* What is decoded of it is an outcome that ends within it.
LEMMA DecodedFacts ==
  ASSUME TypeOK
  PROVE  /\ decoded \in Outcome(slice(input, 0, got))
         /\ decoded.is \in {"going", "more", "complete", "bad", "large",
                            "panic"}
         /\ decoded.pos \in 0 .. got /\ decoded.body \in Seq(Byte)
<1>1. decoded \in Outcome(slice(input, 0, got))
  BY InputFacts, DecodedType DEF decoded
<1>2. Len(slice(input, 0, got)) = got
  BY InputFacts
<1>3. QED
  BY <1>1, <1>2 DEF Outcome

\* What is decoded of n units, where they are what has arrived.
LEMMA UnitsDecoded ==
  ASSUME TypeOK, NEW n \in 0 .. Len(script), NEW pieces,
         pieces = SubSeq(script, 1, n), got = Len(FlattenSeq(pieces)),
         NEW kind \in [1 .. n -> DOMAIN Units],
         \A i \in 1 .. n : pieces[i] = Units[kind[i]]
  PROVE  \E i \in Nat : Stops(n, kind, limit, i) /\ Says(n, kind, i, decoded)
<1> DEFINE bytes == slice(input, 0, got)
           first == FlattenSeq(pieces)
<1>1. script \in Seq(Seq(Byte)) /\ n \in Nat
  BY ChunkedBodyAssumption, LenProperties DEF TypeOK
<1>2. pieces \in Seq(Seq(Byte)) /\ Len(pieces) = n
  <2>1. \A i \in 1 .. n : script[i] \in Seq(Byte)
    BY <1>1, LenProperties, ElementOfSeq
  <2>2. /\ SubSeq(script, 1, n) \in Seq(Seq(Byte))
        /\ Len(SubSeq(script, 1, n)) = n
    BY <1>1, <2>1, Beginning
  <2>3. QED
    BY <2>2
<1>3. /\ bytes \in Seq(Byte) /\ Len(bytes) = got
      /\ Len(input) \in Nat /\ got \in 0 .. Len(input)
      /\ \A j \in 1 .. Len(bytes) : input[j] = bytes[j]
  BY InputFacts, LenProperties DEF TypeOK, Extends
<1>4. bytes = first
  <2>1. /\ first \in Seq(Byte)
        /\ \A j \in 1 .. Len(first) : FlattenSeq(script)[j] = first[j]
    BY <1>1, FlattenFirst
  <2>2. \A s, t \in Seq(Byte) :
          Len(s) = Len(t) /\ (\A i \in 1 .. Len(s) : s[i] = t[i]) => s = t
    BY SeqEqual
  <2>3. \A j \in 1 .. Len(bytes) : bytes[j] = first[j]
    <3>1. \A j \in 1 .. Len(first) : input[j] = first[j]
      BY <2>1 DEF input
    <3> HIDE DEF input, bytes, first
    <3>2. Len(first) = got
      BY DEF first
    <3>3. QED
      BY <1>3, <3>1, <3>2
  <2>4. Len(bytes) = Len(first)
    BY <1>3
  <2> HIDE DEF bytes, first
  <2>5. QED
    BY <1>3, <2>1, <2>2, <2>3, <2>4
<1>5. limit \in Nat
  <2>1. WORD \in Nat \ {0} /\ limit \in 0 .. WORD - 1
    BY ChunkedBodyAssumption, WordFacts DEF TypeOK
  <2>2. QED
    BY <2>1
<1>6. Len(bytes) + 2 < WORD
  <2>1. Len(input) + 2 < WORD
    BY MemoryAssumption DEF TypeOK, input
  <2>2. WORD \in Nat
    BY WordFacts
  <2> HIDE DEF bytes, input
  <2>3. QED
    BY <1>3, <2>1, <2>2
<1>7. PICK off : Stream(bytes, n, kind, off)
  <2>1. \E off : Stream(FlattenSeq(pieces), n, kind, off)
    BY <1>2, Streams
  <2> HIDE DEF bytes
  <2>2. QED
    BY <1>4, <2>1
<1>8. PICK i \in Nat : Stops(n, kind, limit, i)
  BY <1>1, <1>5, Stopping
<1>9. decoded = decode_chunked(bytes, limit)
  BY DEF decoded
<1> HIDE DEF bytes, decoded
<1>10. Says(n, kind, i, decoded)
  BY <1>1, <1>3, <1>5, <1>6, <1>7, <1>8, <1>9, UnitsDecode
<1>11. QED
  BY <1>8, <1>10

\* The loop begins well typed.
LEMMA TypeInit == Init => TypeOK
<1>1. SUFFICES ASSUME Init PROVE TypeOK
  OBVIOUS
<1>2. script \in Seq(Seq(Byte))
  BY <1>1, ChunkedBodyAssumption DEF Init
<1>3. Len(input) \in Nat
  BY <1>2, FlattenType, LenProperties DEF input
<1>4. 0 \in 0 .. Len(input)
  <2> HIDE DEF input
  <2> QED
    BY <1>3
<1>5. <<>> \in Seq(Byte)
  OBVIOUS
<1> HIDE DEF input
<1>6. QED
  BY <1>1, <1>4, <1>5 DEF Init, TypeOK, Going

\* Every way out of the loop but a read and the end returns what is decoded.
LEMMA Ways ==
  ASSUME Next
  PROVE  \/ UNCHANGED <<script, limit, got>> /\ returned' = decoded
             /\ decoded.is # "more"
         \/ \E as \in {"over", "eof"} :
              UNCHANGED <<script, limit, got>> /\ returned' = Ended(as, decoded)
         \/ Read
BY DEF Next, Decides, TooManyBytes, Eof, Returns

\* The loop stays well typed.
LEMMA TypeStep == TypeOK /\ [Next]_vars => TypeOK'
<1>1. SUFFICES ASSUME TypeOK, [Next]_vars PROVE TypeOK'
  OBVIOUS
<1>2. CASE UNCHANGED vars
  BY <1>1, <1>2 DEF vars, TypeOK, input
<1>3. /\ decoded \in Outcome(slice(input, 0, got))
      /\ decoded.is \in {"going", "more", "complete", "bad", "large", "panic"}
      /\ decoded.pos \in 0 .. got /\ decoded.body \in Seq(Byte)
  BY <1>1, DecodedFacts
<1>4. CASE UNCHANGED <<script, limit, got>> /\ returned' = decoded
           /\ decoded.is # "more"
  <2> HIDE DEF decoded
  <2>1. input' = input
    BY <1>4 DEF input
  <2> HIDE DEF input
  <2>2. QED
    BY <1>1, <1>3, <1>4, <2>1 DEF TypeOK
<1>5. ASSUME NEW as \in {"over", "eof"}, UNCHANGED <<script, limit, got>>,
             returned' = Ended(as, decoded)
      PROVE  TypeOK'
  <2>1. input' = input
    BY <1>5 DEF input
  <2>2. /\ Ended(as, decoded).is = as /\ Ended(as, decoded).pos = decoded.pos
        /\ Ended(as, decoded).body = decoded.body
    BY <1>3 DEF Ended, Outcome
  <2> HIDE DEF input, decoded
  <2>3. QED
    BY <1>1, <1>3, <1>5, <2>1, <2>2 DEF TypeOK
<1>6. CASE Read
  <2>1. input' = input
    BY <1>6 DEF Read, input
  <2>2. got' \in 0 .. Len(input) /\ returned.pos \in 0 .. got'
    <3>1. Len(input) \in Nat
      BY <1>1, InputFacts, LenProperties
    <3> HIDE DEF input
    <3>2. got \in 0 .. Len(input) /\ got' \in got + 1 .. Len(input)
      BY <1>1, <1>6 DEF Read, TypeOK
    <3>3. returned.pos \in 0 .. got
      BY <1>1 DEF TypeOK
    <3>4. QED
      BY <3>1, <3>2, <3>3
  <2> HIDE DEF input
  <2>3. QED
    BY <1>1, <1>6, <2>1, <2>2 DEF Read, TypeOK
<1>7. QED
  BY <1>1, <1>2, <1>4, <1>5, <1>6, Ways

\* Every state of read_body is well typed, and a body is complete within the
\* bytes that have been read, whatever a client writes: also where the sums
\* of decode_chunked wrap, no chunk is taken from behind the buffer's end.
THEOREM TypeCorrect == Spec => []TypeOK
BY TypeInit, TypeStep, PTL DEF Spec

\* However the stream is cut into reads, what decode_chunked decides of the
\* bytes that have arrived is what it would decide of all of them: read_body
\* runs it again from the start after every read, and no read it does not
\* wait for could have changed the outcome.
THEOREM CutsDoNotMatterCorrect == Spec => []CutsDoNotMatter
<1>1. Init => CutsDoNotMatter
  BY DEF Init, Going, CutsDoNotMatter
<1>2. ASSUME TypeOK, CutsDoNotMatter, [Next]_vars PROVE CutsDoNotMatter'
  <2>1. CASE UNCHANGED vars
    BY <1>2, <2>1 DEF vars, CutsDoNotMatter, input
  <2>2. CASE UNCHANGED <<script, limit, got>> /\ returned' = decoded
             /\ decoded.is # "more"
    <3>1. input' = input /\ limit' = limit
      BY <2>2 DEF input
    <3>2. decoded.is \notin {"going", "more"} =>
            decode_chunked(input, limit) = decoded
      BY <1>2, InputFacts, DecodedSame DEF decoded
    <3> HIDE DEF input, decoded
    <3>3. QED
      BY <2>2, <3>1, <3>2 DEF CutsDoNotMatter
  <2>3. ASSUME NEW as \in {"over", "eof"}, returned' = Ended(as, decoded)
        PROVE  CutsDoNotMatter'
    <3>1. Ended(as, decoded).is = as
      BY <1>2, DecodedFacts DEF Ended, Outcome
    <3>2. QED
      BY <2>3, <3>1 DEF CutsDoNotMatter
  <2>4. CASE Read
    BY <2>4 DEF Read, Loops, CutsDoNotMatter
  <2>5. QED
    BY <1>2, <2>1, <2>2, <2>3, <2>4, Ways
<1>3. QED
  BY <1>1, <1>2, TypeCorrect, PTL DEF Spec

\* Every body that decode_chunked calls complete is one by the grammar, in
\* unbounded numbers, and none within the limit escapes it, whatever is
\* written behind it: a size of as many digits as it takes does not wrap, and
\* a sum that wraps is told from the data that a short line promises.
THEOREM DecodesTheGrammarCorrect == Spec => []DecodesTheGrammar
<1>1. TypeOK => DecodesTheGrammar
  <2>1. SUFFICES ASSUME TypeOK PROVE DecodesTheGrammar
    OBVIOUS
  <2> DEFINE bytes == slice(input, 0, got)
  <2>2. bytes \in Seq(Byte) /\ Len(bytes) = got
    BY <2>1, InputFacts
  <2>3. limit \in Nat
    <3>1. WORD \in Nat \ {0} /\ limit \in 0 .. WORD - 1
      BY <2>1, ChunkedBodyAssumption, WordFacts DEF TypeOK
    <3>2. QED
      BY <3>1
  <2>4. Len(bytes) + 2 < WORD
    <3>1. Len(input) + 2 < WORD /\ got \in 0 .. Len(input)
      BY <2>1, MemoryAssumption DEF TypeOK, input
    <3>2. Len(input) \in Nat /\ WORD \in Nat
      BY <2>1, InputFacts, LenProperties, WordFacts
    <3> HIDE DEF bytes
    <3>3. QED
      BY <2>2, <3>1, <3>2
  <2> HIDE DEF bytes
  <2>5. {body \in Bodies(bytes) : Len(body) <= limit}
          = IF decode_chunked(bytes, limit).is = "complete"
            THEN {decode_chunked(bytes, limit).body} ELSE {}
    BY <2>2, <2>3, <2>4, Decoded
  <2>6. QED
    BY <2>5, Zenon DEF DecodesTheGrammar, decoded, bytes
<1>2. QED
  BY <1>1, TypeCorrect, PTL

\* The outcomes of decode_chunked on units, of which module Http and the
\* modules on top of it are made, are those of the decoder on their bytes: in
\* every state of the loop where whole units have arrived, whatever they are
\* and wherever the limit lies, the decoder goes by the bytes where the units
\* say that it does.
THEOREM UnitsAgreeCorrect == Spec => []UnitsAgree
<1>1. TypeOK => UnitsAgree
  <2>1. SUFFICES
          ASSUME TypeOK, NEW n \in 0 .. Len(script), NEW pieces,
                 pieces = SubSeq(script, 1, n),
                 NEW kind, kind = [i \in 1 .. n |->
                   CHOOSE k \in DOMAIN Units : Units[k] = pieces[i]],
                 NEW buf, buf = [i \in 1 .. n |->
                   [kind |-> CHOOSE k \in DOMAIN Units : Units[k] = pieces[i],
                    octet |-> DATA, head |-> <<>>]],
                 got = Len(FlattenSeq(pieces)),
                 ToSet(pieces) \subseteq {Units[k] : k \in DOMAIN Units}
          PROVE  Agree(buf, n, limit, decoded)
    BY Zenon DEF UnitsAgree, Agree
  <2>2. script \in Seq(Seq(Byte)) /\ n \in Nat
    BY <2>1, ChunkedBodyAssumption, LenProperties DEF TypeOK
  <2>3. DOMAIN pieces = 1 .. n
    <3>1. \A i \in 1 .. n : script[i] \in Seq(Byte)
      BY <2>2, LenProperties, ElementOfSeq
    <3>2. pieces \in Seq(Seq(Byte)) /\ Len(pieces) = n
      BY <2>1, <2>2, <3>1, Beginning
    <3>3. QED
      BY <3>2, LenProperties
  <2>4. ASSUME NEW i \in 1 .. n
        PROVE  kind[i] \in DOMAIN Units /\ pieces[i] = Units[kind[i]]
    <3>1. \E k \in DOMAIN Units : Units[k] = pieces[i]
      BY <2>1, <2>3 DEF ToSet
    <3>2. kind[i] = CHOOSE k \in DOMAIN Units : Units[k] = pieces[i]
      BY <2>1
    <3>3. QED
      BY <3>1, <3>2, Zenon
  <2>5. kind \in [1 .. n -> DOMAIN Units]
    BY <2>1, <2>4
  <2>6. /\ Len(buf) = n
        /\ \A k \in 1 .. n : buf[k].kind = kind[k]
        /\ \A k \in 1 .. n : buf[k].octet = DATA
    BY <2>1, <2>2
  <2>7. limit \in Nat
    <3>1. WORD \in Nat \ {0} /\ limit \in 0 .. WORD - 1
      BY <2>1, ChunkedBodyAssumption, WordFacts DEF TypeOK
    <3>2. QED
      BY <3>1
  <2>8. PICK i \in Nat : Stops(n, kind, limit, i) /\ Says(n, kind, i, decoded)
    BY <2>1, <2>4, <2>5, UnitsDecoded
  <2> HIDE DEF decoded
  <2>9. QED
    BY <2>2, <2>6, <2>7, <2>8, Agreement
<1>2. QED
  BY <1>1, TypeCorrect, PTL

\* On any buffer of units no two of the outcomes that module Http states one
\* by one are there at once, and a body ends in one place: read_body, which
\* takes the first that decode_chunked comes to, has no choice between them.
THEOREM OneOutcome ==
  ASSUME NEW buf, NEW n \in Nat, Len(buf) = n, NEW cap \in Nat
  PROVE  /\ \A l, m \in 0 .. n :
              OnUnits!DecodesTo(buf, l, cap) /\ OnUnits!DecodesTo(buf, m, cap)
              => l = m
         /\ ~ (OnUnits!DecodedTooLarge(buf, cap) /\ OnUnits!BadChunk(buf, cap))
         /\ \A l \in 0 .. n : OnUnits!DecodesTo(buf, l, cap) =>
              /\ ~ OnUnits!DecodedTooLarge(buf, cap)
              /\ ~ OnUnits!BadChunk(buf, cap)
<1> DEFINE kind == [k \in 1 .. n |-> buf[k].kind]
<1>1. \A k \in 1 .. n : buf[k].kind = kind[k]
  OBVIOUS
<1> HIDE DEF kind
<1>2. PICK i \in Nat : Stops(n, kind, cap, i)
  BY Stopping
<1>3. /\ \A l \in 0 .. n : OnUnits!DecodesTo(buf, l, cap) <=>
                             l = i /\ LastNext(n, kind, i)
      /\ OnUnits!DecodedTooLarge(buf, cap) <=> TooLargeNext(n, kind, i)
      /\ OnUnits!BadChunk(buf, cap) <=> NoChunkNext(n, kind, i)
  BY <1>1, <1>2, UnitOutcomes
<1>4. /\ LastNext(n, kind, i) => ~ TooLargeNext(n, kind, i)
      /\ NoChunkNext(n, kind, i) =>
           ~ LastNext(n, kind, i) /\ ~ TooLargeNext(n, kind, i)
  BY DEF LastNext, TooLargeNext, NoChunkNext
<1>5. QED
  BY <1>3, <1>4
==============================================================================
