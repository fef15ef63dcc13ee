------------------------------ MODULE Induction ------------------------------
(***************************************************************************)
(* Induction over the numbers, with a set in the place of a predicate, the *)
(* functions it defines, and what it says of sequences.                    *)
(***************************************************************************)
EXTENDS Integers, SequencesExt, SequenceTheorems, WellFoundedInduction, TLAPS

\* A set of numbers that is not empty has a least one.
LEMMA Least ==
  ASSUME NEW T \in SUBSET Nat, T # {}
  PROVE  \E x \in T : \A y \in T : x <= y
<1>1. IsWellFoundedOn(OpToRel(<, Nat), Nat)
  BY NatLessThanWellFounded
<1>2. \E x \in T : \A y \in T : ~ (<<y, x>> \in OpToRel(<, Nat))
  BY <1>1, WFMin, Zenon
<1>3. \A x, y \in Nat : <<y, x>> \in OpToRel(<, Nat) <=> y < x
  BY DEF OpToRel
<1>4. \E x \in T : \A y \in T : ~ (y < x)
  BY <1>2, <1>3, Zenon
<1>5. QED
  BY <1>4

\* A set that holds 0, and n + 1 with every n below a bound, holds every
\* number up to the bound.
LEMMA UpTo ==
  ASSUME NEW n \in Nat, NEW S, 0 \in S,
         \A i \in 0 .. n - 1 : i \in S => i + 1 \in S
  PROVE  0 .. n \subseteq S
<1> DEFINE T == (0 .. n) \ S
<1>1. SUFFICES ASSUME T # {} PROVE FALSE
  OBVIOUS
<1>2. T \in SUBSET Nat
  OBVIOUS
<1>3. PICK x \in T : \A y \in T : x <= y
  BY <1>1, <1>2, Least, Zenon
<1>4. x \in 1 .. n
  OBVIOUS
<1>5. x - 1 \in S
  BY <1>3, <1>4
<1>6. QED
  BY <1>4, <1>5

\* The functions from one value to the next, for each of 1 .. n, and a
\* function on 0 .. n that begins with s and follows them.
Steps(n, S) == [1 .. n -> [S -> S]]

Values(n, S) == [0 .. n -> S]

Follows(f, n, s, step) ==
  f[0] = s /\ \A i \in 1 .. n : f[i] = step[i][f[i - 1]]

\* There is such a function.
LEMMA Recursion ==
  ASSUME NEW n \in Nat, NEW S, NEW s \in S, NEW step \in Steps(n, S)
  PROVE  \E f \in Values(n, S) : Follows(f, n, s, step)
<1> DEFINE K == {k \in 0 .. n :
                   \E f \in Values(k, S) : Follows(f, k, s, step)}
<1>1. 0 \in K
  <2>1. /\ [i \in 0 .. 0 |-> s] \in Values(0, S)
        /\ Follows([i \in 0 .. 0 |-> s], 0, s, step)
    BY DEF Values, Follows
  <2>2. \E f \in Values(0, S) : Follows(f, 0, s, step)
    BY <2>1
  <2>3. QED
    BY <2>2
<1>2. ASSUME NEW k \in 0 .. n - 1, k \in K PROVE k + 1 \in K
  <2>1. PICK f \in Values(k, S) : Follows(f, k, s, step)
    BY <1>2
  <2> DEFINE g == [i \in 0 .. k + 1 |-> IF i <= k THEN f[i]
                                       ELSE step[k + 1][f[k]]]
  <2>2. g \in Values(k + 1, S)
    BY DEF Values, Steps
  <2>3. Follows(g, k + 1, s, step)
    <3>1. g[0] = s
      BY <2>1 DEF Follows
    <3>2. ASSUME NEW i \in 1 .. k + 1 PROVE g[i] = step[i][g[i - 1]]
      <4>1. CASE i <= k
        BY <2>1, <4>1 DEF Follows
      <4>2. CASE i = k + 1
        BY <4>2
      <4>3. QED
        BY <4>1, <4>2
    <3>3. QED
      BY <3>1, <3>2 DEF Follows
  <2>4. /\ k + 1 \in 0 .. n
        /\ \E h \in Values(k + 1, S) : Follows(h, k + 1, s, step)
    <3> HIDE DEF g
    <3>1. QED
      BY <2>2, <2>3
  <2>5. QED
    BY <2>4
<1>3. n \in K
  <2> HIDE DEF K
  <2>1. 0 .. n \subseteq K
    BY <1>1, <1>2, UpTo
  <2>2. QED
    BY <2>1
<1>4. QED
  BY <1>3

-----------------------------------------------------------------------------
(***************************************************************************)
(* Sequences.                                                              *)
(***************************************************************************)
\* A sequence of one element.
LEMMA One ==
  ASSUME NEW S, NEW x \in S
  PROVE  <<x>> \in Seq(S) /\ Len(<<x>>) = 1 /\ <<x>>[1] = x
OBVIOUS

\* The first n elements.
LEMMA Beginning ==
  ASSUME NEW S, NEW n \in Nat, NEW s, \A i \in 1 .. n : s[i] \in S
  PROVE  /\ SubSeq(s, 1, n) \in Seq(S) /\ Len(SubSeq(s, 1, n)) = n
         /\ \A i \in 1 .. n : SubSeq(s, 1, n)[i] = s[i]
<1> DEFINE m == 1
<1>1. m \in Int /\ n \in Int
  OBVIOUS
<1>2. \A i \in m .. n : s[i] \in S
  OBVIOUS
<1>3. m = 1
  OBVIOUS
<1> HIDE DEF m
<1>4. SubSeq(s, m, n) \in Seq(S)
  BY <1>1, <1>2, SubSeqProperties, Zenon
<1>5. Len(SubSeq(s, m, n)) = IF m <= n THEN n - m + 1 ELSE 0
  BY <1>1, <1>2, SubSeqProperties, Zenon
<1>6. \A i \in 1 .. n - m + 1 : SubSeq(s, m, n)[i] = s[m + i - 1]
  BY <1>1, <1>2, SubSeqProperties
<1>7. Len(SubSeq(s, m, n)) = n
  BY <1>3, <1>5
<1>8. \A i \in 1 .. n : i \in 1 .. n - m + 1 /\ m + i - 1 = i
  BY <1>3
<1>9. QED
  BY <1>4, <1>6, <1>7, <1>8 DEF m

\* All but the last element.
LEMMA FrontFacts ==
  ASSUME NEW S, NEW w \in Seq(S), w # <<>>
  PROVE  /\ Front(w) \in Seq(S) /\ Len(Front(w)) = Len(w) - 1
         /\ Len(w) \in Nat \ {0} /\ Len(w) - 1 \in Nat
         /\ \A i \in 1 .. Len(w) - 1 : Front(w)[i] = w[i]
<1> DEFINE n == Len(w) - 1
<1>1. Len(w) \in Nat \ {0} /\ n \in Nat
  BY EmptySeq
<1>2. \A i \in 1 .. n : w[i] \in S
  BY <1>1, ElementOfSeq
<1>3. Front(w) = SubSeq(w, 1, n)
  BY DEF Front
<1> HIDE DEF n
<1>4. /\ SubSeq(w, 1, n) \in Seq(S) /\ Len(SubSeq(w, 1, n)) = n
      /\ \A i \in 1 .. n : SubSeq(w, 1, n)[i] = w[i]
  BY <1>1, <1>2, Beginning
<1>5. QED
  BY <1>1, <1>3, <1>4 DEF n

\* A sequence that begins with another has it as a prefix.
LEMMA Prefixed ==
  ASSUME NEW S, NEW s \in Seq(S), NEW t \in Seq(S), Len(s) <= Len(t),
         \A i \in 1 .. Len(s) : t[i] = s[i]
  PROVE  IsPrefix(s, t)
<1> DEFINE n == Len(s)
           a == SubSeq(s, 1, n)
           b == SubSeq(t, 1, n)
<1>1. n \in Nat
  BY LenProperties
<1>2. \A i \in 1 .. n : s[i] \in S /\ t[i] \in S
  <2>1. \A i \in 1 .. Len(s) : s[i] \in S
    BY ElementOfSeq
  <2>2. QED
    BY <2>1
<1> HIDE DEF n
<1>3. a \in Seq(S) /\ Len(a) = n /\ \A i \in 1 .. n : a[i] = s[i]
  BY <1>1, <1>2, Beginning
<1>4. b \in Seq(S) /\ Len(b) = n /\ \A i \in 1 .. n : b[i] = t[i]
  BY <1>1, <1>2, Beginning
<1> HIDE DEF a, b
<1>5. \A i \in 1 .. Len(a) : a[i] = b[i]
  BY <1>3, <1>4 DEF n
<1>6. a = b
  BY <1>3, <1>4, <1>5, SeqEqual
<1>7. QED
  BY <1>6 DEF IsPrefix, a, b, n

\* The first sequence, and one more behind it at every index.
Flattens(seqs, w) ==
  w = [i \in 1 .. Len(seqs) |->
         IF i = 1 THEN seqs[i] ELSE w[i - 1] \o seqs[i]]

\* There are such series, and FlattenSeq is the end of one.
LEMMA Flattening ==
  ASSUME NEW S, NEW seqs \in Seq(Seq(S)), seqs # <<>>
  PROVE  \E w \in [1 .. Len(seqs) -> Seq(S)] :
           /\ w[1] = seqs[1]
           /\ \A i \in 2 .. Len(seqs) : w[i] = w[i - 1] \o seqs[i]
           /\ FlattenSeq(seqs) = w[Len(seqs)]
<1> DEFINE n == Len(seqs)
           m == n - 1
           step == [i \in 1 .. m |-> [v \in Seq(S) |-> v \o seqs[i + 1]]]
           w == CHOOSE v : Flattens(seqs, v)
<1>1. n \in Nat \ {0} /\ m \in Nat /\ n = m + 1
  BY EmptySeq
<1>2. \A i \in 1 .. n : seqs[i] \in Seq(S)
  BY <1>1, ElementOfSeq
<1>3. step \in Steps(m, Seq(S))
  <2>1. ASSUME NEW i \in 1 .. m, NEW v \in Seq(S)
        PROVE  v \o seqs[i + 1] \in Seq(S)
    <3>1. seqs[i + 1] \in Seq(S)
      <4>1. i + 1 \in 1 .. n
        BY <1>1
      <4>2. QED
        BY <1>2, <4>1
    <3>2. QED
      BY <3>1, ConcatProperties, Zenon
  <2>2. QED
    BY <2>1 DEF Steps
<1>4. PICK f \in [0 .. m -> Seq(S)] :
        f[0] = seqs[1] /\ \A i \in 1 .. m : f[i] = step[i][f[i - 1]]
  <2> HIDE DEF m, step
  <2>1. seqs[1] \in Seq(S)
    BY <1>1, <1>2
  <2>2. \E f \in Values(m, Seq(S)) : Follows(f, m, seqs[1], step)
    BY <1>1, <1>3, <2>1, Recursion, Zenon
  <2>3. QED
    BY <2>2 DEF Values, Follows
<1> DEFINE g == [i \in 1 .. n |-> f[i - 1]]
<1>5. Flattens(seqs, g)
  <2>1. ASSUME NEW i \in 1 .. n
        PROVE  g[i] = IF i = 1 THEN seqs[i] ELSE g[i - 1] \o seqs[i]
    <3>1. CASE i = 1
      BY <1>1, <1>4, <3>1
    <3>2. CASE i # 1
      <4>1. /\ i - 1 \in 1 .. m /\ i - 1 \in 1 .. n
            /\ (i - 1) - 1 \in 0 .. m /\ (i - 1) + 1 = i
        BY <1>1, <3>2
      <4>2. f[i - 1] = step[i - 1][f[(i - 1) - 1]] /\ f[(i - 1) - 1] \in Seq(S)
        BY <1>4, <4>1
      <4>3. f[i - 1] = f[(i - 1) - 1] \o seqs[i]
        BY <4>1, <4>2
      <4>4. g[i] = f[i - 1] /\ g[i - 1] = f[(i - 1) - 1]
        BY <4>1
      <4>5. QED
        BY <3>2, <4>3, <4>4
    <3>3. QED
      BY <3>1, <3>2
  <2>2. g = [i \in 1 .. n |-> g[i]]
    OBVIOUS
  <2> HIDE DEF g
  <2>3. QED
    BY <2>1, <2>2 DEF Flattens
<1>6. Flattens(seqs, w)
  BY <1>5, Zenon
<1>7. FlattenSeq(seqs) = w[n]
  <2>1. n # 0
    BY <1>1
  <2>2. QED
    BY <2>1, Zenon DEF FlattenSeq, Flattens
<1> HIDE DEF w
<1>8. \A i \in 1 .. n :
        w[i] = IF i = 1 THEN seqs[i] ELSE w[i - 1] \o seqs[i]
  BY <1>6 DEF Flattens
<1>9. \A i \in 1 .. n : w[i] \in Seq(S)
  <2> DEFINE T == {i \in 0 .. m : w[i + 1] \in Seq(S)}
  <2>1. 0 \in T
    BY <1>1, <1>2, <1>8
  <2>2. ASSUME NEW i \in 0 .. m - 1, i \in T PROVE i + 1 \in T
    <3>1. /\ (i + 1) + 1 \in 1 .. n /\ (i + 1) + 1 # 1
          /\ i + 1 \in 0 .. m /\ ((i + 1) + 1) - 1 = i + 1
      BY <1>1
    <3>2. w[i + 1] \in Seq(S) /\ seqs[(i + 1) + 1] \in Seq(S)
      BY <1>2, <2>2, <3>1
    <3>3. w[(i + 1) + 1] = w[i + 1] \o seqs[(i + 1) + 1]
      BY <1>8, <3>1
    <3>4. w[i + 1] \o seqs[(i + 1) + 1] \in Seq(S)
      BY <3>2, ConcatProperties, Zenon
    <3>5. QED
      BY <3>1, <3>3, <3>4
  <2>3. 0 .. m \subseteq T
    <3> HIDE DEF T, m
    <3> QED
      BY <1>1, <2>1, <2>2, UpTo
  <2>4. ASSUME NEW i \in 1 .. n PROVE w[i] \in Seq(S)
    <3>1. i - 1 \in 0 .. m /\ (i - 1) + 1 = i
      BY <1>1
    <3>2. QED
      BY <2>3, <3>1
  <2>5. QED
    BY <2>4
<1>10. w \in [1 .. n -> Seq(S)]
  BY <1>6, <1>9 DEF Flattens
<1>11. w[1] = seqs[1] /\ \A i \in 2 .. n : w[i] = w[i - 1] \o seqs[i]
  <2>1. 1 \in 1 .. n
    BY <1>1
  <2>2. \A i \in 2 .. n : i \in 1 .. n /\ i # 1
    BY <1>1
  <2>3. QED
    BY <1>8, <2>1, <2>2
<1>12. QED
  BY <1>7, <1>10, <1>11

\* FlattenSeq makes one sequence of many.
LEMMA FlattenType ==
  ASSUME NEW S, NEW seqs \in Seq(Seq(S))
  PROVE  FlattenSeq(seqs) \in Seq(S)
<1>1. CASE seqs = <<>>
  <2>1. Len(seqs) = 0
    BY <1>1
  <2>2. FlattenSeq(seqs) = seqs
    BY <2>1, Zenon DEF FlattenSeq
  <2>3. <<>> \in Seq(S)
    OBVIOUS
  <2>4. QED
    BY <1>1, <2>2, <2>3, Zenon
<1>2. CASE seqs # <<>>
  <2> DEFINE n == Len(seqs)
  <2>1. n \in Nat \ {0}
    BY <1>2, EmptySeq
  <2>2. PICK w \in [1 .. Len(seqs) -> Seq(S)] :
          FlattenSeq(seqs) = w[Len(seqs)]
    BY <1>2, Flattening
  <2>3. w \in [1 .. n -> Seq(S)] /\ FlattenSeq(seqs) = w[n]
    BY <2>2
  <2> HIDE DEF n
  <2>4. n \in 1 .. n
    BY <2>1
  <2>5. QED
    BY <2>3, <2>4
<1>3. QED
  BY <1>1, <1>2

\* Two sequences, one behind the other.
LEMMA Behindhand ==
  ASSUME NEW S, NEW s \in Seq(S), NEW t \in Seq(S)
  PROVE  /\ s \o t \in Seq(S) /\ Len(s \o t) = Len(s) + Len(t)
         /\ Len(s) \in Nat /\ Len(t) \in Nat
         /\ \A i \in 1 .. Len(s) : (s \o t)[i] = s[i]
         /\ \A i \in 1 .. Len(t) : (s \o t)[Len(s) + i] = t[i]
<1>1. Len(s) \in Nat /\ Len(t) \in Nat
  BY LenProperties
<1>2. /\ s \o t \in Seq(S) /\ Len(s \o t) = Len(s) + Len(t)
      /\ \A i \in 1 .. Len(s) + Len(t) :
           (s \o t)[i] = IF i <= Len(s) THEN s[i] ELSE t[i - Len(s)]
  BY ConcatProperties, Zenon
<1> DEFINE m == Len(s)
           n == Len(t)
           st == s \o t
<1> HIDE DEF m, n, st
<1>3. ASSUME NEW i \in 1 .. m PROVE st[i] = s[i]
  <2>1. i \in 1 .. m + n /\ i <= m
    BY <1>1 DEF m, n
  <2>2. QED
    BY <1>2, <2>1 DEF m, n, st
<1>4. ASSUME NEW i \in 1 .. n PROVE st[m + i] = t[i]
  <2>1. m + i \in 1 .. m + n /\ ~ (m + i <= m) /\ (m + i) - m = i
    BY <1>1 DEF m, n
  <2>2. QED
    BY <1>2, <2>1 DEF m, n, st
<1>5. QED
  BY <1>1, <1>2, <1>3, <1>4 DEF m, n, st

\* What FlattenSeq makes of the beginnings of a sequence.
LEMMA Beginnings ==
  ASSUME NEW S, NEW seqs \in Seq(Seq(S))
  PROVE  \E f \in [0 .. Len(seqs) -> Seq(S)] :
           /\ f[0] = <<>>
           /\ \A i \in 1 .. Len(seqs) : f[i] = f[i - 1] \o seqs[i]
           /\ \A i \in 0 .. Len(seqs) : FlattenSeq(SubSeq(seqs, 1, i)) = f[i]
           /\ FlattenSeq(seqs) = f[Len(seqs)]
<1> DEFINE n == Len(seqs)
<1>1. n \in Nat /\ \A i \in 1 .. n : seqs[i] \in Seq(S)
  BY LenProperties, ElementOfSeq
<1>2. \A i \in 0 .. n : /\ SubSeq(seqs, 1, i) \in Seq(Seq(S))
                        /\ Len(SubSeq(seqs, 1, i)) = i
                        /\ \A j \in 1 .. i : SubSeq(seqs, 1, i)[j] = seqs[j]
  <2>1. ASSUME NEW i \in 0 .. n
        PROVE  /\ SubSeq(seqs, 1, i) \in Seq(Seq(S))
               /\ Len(SubSeq(seqs, 1, i)) = i
               /\ \A j \in 1 .. i : SubSeq(seqs, 1, i)[j] = seqs[j]
    <3>1. i \in Nat /\ \A j \in 1 .. i : seqs[j] \in Seq(S)
      BY <1>1
    <3>2. QED
      BY <3>1, Beginning
  <2>2. QED
    BY <2>1
<1>3. \A p : Len(p) = 0 => FlattenSeq(p) = p
  BY Zenon DEF FlattenSeq
<1>4. SubSeq(seqs, 1, n) = seqs
  <2>1. /\ SubSeq(seqs, 1, n) \in Seq(Seq(S)) /\ Len(SubSeq(seqs, 1, n)) = n
        /\ \A j \in 1 .. n : SubSeq(seqs, 1, n)[j] = seqs[j]
    BY <1>1, <1>2
  <2>2. \A s, t \in Seq(Seq(S)) :
          Len(s) = Len(t) /\ (\A i \in 1 .. Len(s) : s[i] = t[i]) => s = t
    BY SeqEqual
  <2> DEFINE all == SubSeq(seqs, 1, n)
  <2> HIDE DEF all
  <2>3. QED
    BY <2>1, <2>2 DEF all
<1>5. FlattenSeq(SubSeq(seqs, 1, 0)) = <<>>
  <2> DEFINE p == SubSeq(seqs, 1, 0)
  <2>1. p \in Seq(Seq(S)) /\ Len(p) = 0
    BY <1>1, <1>2
  <2> HIDE DEF p
  <2>2. p = <<>>
    BY <2>1, EmptySeq
  <2>3. QED
    BY <1>3, <2>1, <2>2 DEF p
<1>6. CASE seqs = <<>>
  <2>1. n = 0
    BY <1>6
  <2> DEFINE f == [i \in 0 .. n |-> <<>>]
  <2>2. f \in [0 .. n -> Seq(S)] /\ f[0] = <<>>
    BY <2>1
  <2>3. \A i \in 0 .. n : i = 0
    BY <2>1
  <2>4. FlattenSeq(seqs) = <<>>
    BY <1>4, <1>5, <2>1
  <2> HIDE DEF f
  <2>5. \A i \in 0 .. n : FlattenSeq(SubSeq(seqs, 1, i)) = f[i]
    BY <1>5, <2>2, <2>3
  <2>6. \A i \in 1 .. n : FALSE
    BY <2>1
  <2>7. QED
    BY <2>1, <2>2, <2>4, <2>5, <2>6
<1>7. CASE seqs # <<>>
  <2>1. n \in Nat \ {0}
    BY <1>7, EmptySeq
  <2>2. PICK w \in [1 .. Len(seqs) -> Seq(S)] :
          /\ w[1] = seqs[1]
          /\ \A i \in 2 .. Len(seqs) : w[i] = w[i - 1] \o seqs[i]
          /\ FlattenSeq(seqs) = w[Len(seqs)]
    BY <1>7, Flattening
  <2>3. ASSUME NEW i \in 1 .. n PROVE FlattenSeq(SubSeq(seqs, 1, i)) = w[i]
    <3> DEFINE p == SubSeq(seqs, 1, i)
    <3>1. /\ p \in Seq(Seq(S)) /\ Len(p) = i
          /\ \A j \in 1 .. i : p[j] = seqs[j]
      BY <1>2
    <3> HIDE DEF p
    <3>2. p # <<>>
      BY <3>1, <2>1, EmptySeq
    <3>3. PICK v \in [1 .. Len(p) -> Seq(S)] :
            /\ v[1] = p[1]
            /\ \A k \in 2 .. Len(p) : v[k] = v[k - 1] \o p[k]
            /\ FlattenSeq(p) = v[Len(p)]
      BY <3>1, <3>2, Flattening
    <3> DEFINE m == i - 1
               T == {k \in 0 .. m : v[k + 1] = w[k + 1]}
    <3>4. m \in Nat /\ m + 1 = i
      BY <2>1
    <3>5. 0 \in T
      <4>1. 0 \in 0 .. m /\ 0 + 1 = 1 /\ 1 \in 1 .. i
        BY <3>4
      <4>2. QED
        BY <2>2, <3>1, <3>3, <4>1
    <3>6. ASSUME NEW k \in 0 .. m - 1, k \in T PROVE k + 1 \in T
      <4> DEFINE q == k + 2
      <4>1. /\ q \in 2 .. i /\ q \in 2 .. n /\ q \in 1 .. i /\ q - 1 = k + 1
            /\ k + 1 \in 0 .. m /\ (k + 1) + 1 = q
        BY <2>1, <3>4
      <4>2. v[q] = v[q - 1] \o p[q] /\ w[q] = w[q - 1] \o seqs[q]
        BY <2>2, <3>1, <3>3, <4>1
      <4>3. v[q - 1] = w[q - 1] /\ p[q] = seqs[q]
        BY <3>1, <3>6, <4>1
      <4> HIDE DEF q
      <4>4. QED
        BY <4>1, <4>2, <4>3
    <3>7. m \in T
      <4> HIDE DEF T, m
      <4>1. 0 .. m \subseteq T
        BY <3>4, <3>5, <3>6, UpTo
      <4>2. QED
        BY <3>4, <4>1
    <3>8. QED
      BY <3>1, <3>3, <3>4, <3>7 DEF p
  <2> DEFINE f == [i \in 0 .. n |-> IF i = 0 THEN <<>> ELSE w[i]]
  <2>4. /\ f \in [0 .. n -> Seq(S)] /\ f[0] = <<>>
        /\ \A i \in 1 .. n : f[i] = w[i]
    <3>1. \A i \in 0 .. n : i # 0 => i \in 1 .. n
      BY <2>1
    <3>2. <<>> \in Seq(S)
      OBVIOUS
    <3>3. \A i \in 1 .. n : i \in 0 .. n /\ i # 0
      BY <2>1
    <3>4. 0 \in 0 .. n
      BY <2>1
    <3> HIDE DEF n
    <3>5. QED
      BY <2>2, <3>1, <3>2, <3>3, <3>4 DEF n
  <2> HIDE DEF f
  <2>5. ASSUME NEW i \in 1 .. n PROVE f[i] = f[i - 1] \o seqs[i]
    <3>1. CASE i = 1
      <4>1. seqs[1] \in Seq(S) /\ i - 1 = 0
        BY <1>1, <3>1
      <4>2. <<>> \o seqs[1] = seqs[1]
        BY <4>1, ConcatEmptySeq
      <4>3. QED
        BY <2>2, <2>4, <3>1, <4>1, <4>2
    <3>2. CASE i # 1
      <4>1. i \in 2 .. n /\ i - 1 \in 1 .. n
        BY <2>1, <3>2
      <4>2. QED
        BY <2>2, <2>4, <4>1
    <3>3. QED
      BY <3>1, <3>2
  <2>6. ASSUME NEW i \in 0 .. n PROVE FlattenSeq(SubSeq(seqs, 1, i)) = f[i]
    <3>1. CASE i = 0
      BY <1>5, <2>4, <3>1
    <3>2. CASE i # 0
      <4>1. i \in 1 .. n
        BY <2>1, <3>2
      <4>2. QED
        BY <2>3, <2>4, <4>1
    <3>3. QED
      BY <3>1, <3>2
  <2>7. FlattenSeq(seqs) = f[n]
    <3>1. n \in 1 .. n
      BY <2>1
    <3>2. QED
      BY <2>2, <2>4, <3>1
  <2>8. QED
    BY <2>4, <2>5, <2>6, <2>7
<1>8. QED
  BY <1>6, <1>7

\* What a beginning is flattened to is where the whole begins.
LEMMA FlattenFirst ==
  ASSUME NEW S, NEW seqs \in Seq(Seq(S)), NEW n \in 0 .. Len(seqs),
         NEW first, first = FlattenSeq(SubSeq(seqs, 1, n))
  PROVE  /\ first \in Seq(S) /\ Len(first) <= Len(FlattenSeq(seqs))
         /\ \A i \in 1 .. Len(first) : FlattenSeq(seqs)[i] = first[i]
<1> DEFINE m == Len(seqs) - n
<1>1. m \in Nat /\ n \in Nat /\ n + m = Len(seqs)
  BY LenProperties
<1>2. \A i \in 1 .. n + m : seqs[i] \in Seq(S)
  BY <1>1, ElementOfSeq
<1>3. PICK f \in [0 .. Len(seqs) -> Seq(S)] :
        /\ \A i \in 1 .. Len(seqs) : f[i] = f[i - 1] \o seqs[i]
        /\ \A i \in 0 .. Len(seqs) : FlattenSeq(SubSeq(seqs, 1, i)) = f[i]
        /\ FlattenSeq(seqs) = f[Len(seqs)]
  BY Beginnings
<1> DEFINE Begins(t) == /\ Len(first) <= Len(t)
                        /\ \A i \in 1 .. Len(first) : t[i] = first[i]
           T == {k \in 0 .. m : Begins(f[n + k])}
<1>4. first = f[n] /\ first \in Seq(S) /\ Len(first) \in Nat
  BY <1>3, LenProperties
<1>5. 0 \in T
  BY <1>1, <1>4
<1>6. ASSUME NEW k \in 0 .. m - 1, k \in T PROVE k + 1 \in T
  <2> DEFINE q == n + (k + 1)
             s == f[n + k]
             t == seqs[q]
  <2>1. /\ k + 1 \in 0 .. m /\ q \in 1 .. n + m /\ q - 1 = n + k
        /\ n + k \in 0 .. n + m
    BY <1>1
  <2>2. f[q] = s \o t /\ s \in Seq(S) /\ t \in Seq(S)
    BY <1>1, <1>2, <1>3, <2>1
  <2>3. Begins(s)
    BY <1>6
  <2> HIDE DEF s, t
  <2>4. /\ Len(f[q]) = Len(s) + Len(t) /\ Len(s) \in Nat /\ Len(t) \in Nat
        /\ \A i \in 1 .. Len(s) : f[q][i] = s[i]
    BY <2>2, Behindhand
  <2> HIDE DEF q
  <2>5. Begins(f[q])
    <3>1. \A i \in 1 .. Len(first) : i \in 1 .. Len(s)
      BY <1>4, <2>3, <2>4
    <3>2. QED
      BY <1>4, <2>3, <2>4, <3>1
  <2>6. QED
    BY <2>1, <2>5 DEF q
<1>7. m \in T
  <2> HIDE DEF T, m
  <2>1. 0 .. m \subseteq T
    BY <1>1, <1>5, <1>6, UpTo
  <2>2. QED
    BY <1>1, <2>1
<1>8. QED
  BY <1>1, <1>3, <1>4, <1>7

\* Where FlattenSeq puts what: off[i] is how long the first i come to.
Places(seqs, off) ==
  /\ off[0] = 0
  /\ \A i \in 1 .. Len(seqs) : off[i] = off[i - 1] + Len(seqs[i])
  /\ off[Len(seqs)] = Len(FlattenSeq(seqs))
  /\ \A i \in 0 .. Len(seqs) : off[i] <= Len(FlattenSeq(seqs))
  /\ \A i \in 1 .. Len(seqs) : \A j \in 1 .. Len(seqs[i]) :
       FlattenSeq(seqs)[off[i - 1] + j] = seqs[i][j]

\* There are such numbers.
LEMMA Placing ==
  ASSUME NEW S, NEW seqs \in Seq(Seq(S))
  PROVE  \E off \in [0 .. Len(seqs) -> Nat] : Places(seqs, off)
<1> DEFINE n == Len(seqs)
<1>1. n \in Nat /\ \A i \in 1 .. n : seqs[i] \in Seq(S)
  BY LenProperties, ElementOfSeq
<1>2. PICK f \in [0 .. Len(seqs) -> Seq(S)] :
        /\ f[0] = <<>>
        /\ \A i \in 1 .. Len(seqs) : f[i] = f[i - 1] \o seqs[i]
        /\ \A i \in 0 .. Len(seqs) : FlattenSeq(SubSeq(seqs, 1, i)) = f[i]
        /\ FlattenSeq(seqs) = f[Len(seqs)]
  BY Beginnings
<1> DEFINE off == [i \in 0 .. n |-> Len(f[i])]
           Placed(i) == \A k \in 1 .. i : \A j \in 1 .. Len(seqs[k]) :
                          /\ off[k - 1] + j \in 1 .. Len(f[i])
                          /\ f[i][off[k - 1] + j] = seqs[k][j]
           T == {i \in 0 .. n : Placed(i)}
<1>3. \A i \in 0 .. n : f[i] \in Seq(S) /\ off[i] = Len(f[i]) /\ off[i] \in Nat
  BY <1>2, LenProperties
<1>4. 0 \in T
  <2> HIDE DEF off
  <2>1. \A k \in 1 .. 0 : FALSE
    OBVIOUS
  <2>2. QED
    BY <1>1, <2>1
<1>5. ASSUME NEW i \in 0 .. n - 1, i \in T PROVE i + 1 \in T
  <2> DEFINE t == seqs[i + 1]
             s == f[i]
             q == i + 1
  <2>1. /\ q \in 1 .. n /\ q \in 0 .. n /\ q - 1 = i /\ i \in 0 .. n
    BY <1>1
  <2>2. s \in Seq(S) /\ t \in Seq(S) /\ f[q] = s \o t /\ off[i] = Len(s)
    BY <1>1, <1>2, <1>3, <2>1
  <2>3. Placed(i)
    BY <1>5
  <2>4. t = seqs[q]
    OBVIOUS
  <2>5. \A k \in 1 .. i : \A j \in 1 .. Len(seqs[k]) :
          off[k - 1] + j \in 1 .. Len(s) /\ s[off[k - 1] + j] = seqs[k][j]
    BY <2>3
  <2> HIDE DEF s, t, q, off
  <2>6. /\ Len(f[q]) = Len(s) + Len(t) /\ Len(s) \in Nat /\ Len(t) \in Nat
        /\ \A j \in 1 .. Len(s) : f[q][j] = s[j]
        /\ \A j \in 1 .. Len(t) : f[q][Len(s) + j] = t[j]
    BY <2>2, Behindhand
  <2>7. ASSUME NEW k \in 1 .. q, NEW j \in 1 .. Len(seqs[k])
        PROVE  /\ off[k - 1] + j \in 1 .. Len(f[q])
               /\ f[q][off[k - 1] + j] = seqs[k][j]
    <3>1. CASE k = q
      <4>1. off[k - 1] = Len(s) /\ seqs[k] = t /\ j \in 1 .. Len(t)
        BY <2>1, <2>2, <2>4, <3>1
      <4>2. Len(s) + j \in 1 .. Len(s) + Len(t)
        BY <2>6, <4>1
      <4>3. QED
        BY <2>6, <4>1, <4>2
    <3>2. CASE k # q
      <4>1. k \in 1 .. i
        BY <2>1, <3>2
      <4>2. off[k - 1] + j \in 1 .. Len(s) /\ s[off[k - 1] + j] = seqs[k][j]
        BY <2>5, <4>1
      <4>3. off[k - 1] + j \in 1 .. Len(s) + Len(t)
        BY <2>6, <4>2
      <4>4. QED
        BY <2>6, <4>2, <4>3
    <3>3. QED
      BY <3>1, <3>2
  <2>8. q \in T
    BY <2>1, <2>7
  <2>9. QED
    BY <2>8 DEF q
<1>6. n \in T
  <2> HIDE DEF T, n
  <2>1. 0 .. n \subseteq T
    BY <1>1, <1>4, <1>5, UpTo
  <2>2. QED
    BY <1>1, <2>1
<1>7. off \in [0 .. n -> Nat] /\ off[0] = 0
  <2>1. off \in [0 .. n -> Nat]
    BY <1>3
  <2>2. 0 \in 0 .. n
    BY <1>1
  <2>3. QED
    BY <1>2, <1>3, <2>1, <2>2
<1>8. ASSUME NEW i \in 1 .. n PROVE off[i] = off[i - 1] + Len(seqs[i])
  <2>1. i \in 0 .. n /\ i - 1 \in 0 .. n
    BY <1>1
  <2>2. /\ off[i] = Len(f[i]) /\ off[i - 1] = Len(f[i - 1])
        /\ f[i] = f[i - 1] \o seqs[i]
    BY <1>2, <1>3, <2>1
  <2>3. f[i - 1] \in Seq(S) /\ seqs[i] \in Seq(S)
    BY <1>1, <1>3, <2>1
  <2> DEFINE s == f[i - 1]
             t == seqs[i]
  <2>4. s \in Seq(S) /\ t \in Seq(S)
    BY <2>3
  <2> HIDE DEF s, t, off
  <2>5. Len(s \o t) = Len(s) + Len(t)
    BY <2>4, ConcatProperties, Zenon
  <2>6. QED
    BY <2>2, <2>5 DEF s, t
<1>9. n \in 0 .. n
  BY <1>1
<1>10. off[n] = Len(FlattenSeq(seqs))
  BY <1>2, <1>3, <1>9
<1>11. \A i \in 1 .. n : \A j \in 1 .. Len(seqs[i]) :
         FlattenSeq(seqs)[off[i - 1] + j] = seqs[i][j]
  <2> HIDE DEF off
  <2>1. Placed(n)
    BY <1>6
  <2>2. QED
    BY <1>2, <2>1
<1>12. ASSUME NEW i \in 0 .. n PROVE off[i] <= Len(FlattenSeq(seqs))
  <2>1. Len(f[i]) <= Len(FlattenSeq(seqs))
    BY <1>2, FlattenFirst
  <2>2. QED
    BY <1>3, <2>1
<1> HIDE DEF off, T, Placed
<1>13. Places(seqs, off)
  BY <1>7, <1>8, <1>10, <1>11, <1>12 DEF Places
<1>14. QED
  BY <1>7, <1>13

\* Sequences of one element each are flattened to their elements.
LEMMA FlattenOnes ==
  ASSUME NEW S, NEW seqs \in Seq(Seq(S)), seqs # <<>>,
         \A i \in 1 .. Len(seqs) : Len(seqs[i]) = 1
  PROVE  /\ FlattenSeq(seqs) \in Seq(S) /\ Len(FlattenSeq(seqs)) = Len(seqs)
         /\ \A i \in 1 .. Len(seqs) : FlattenSeq(seqs)[i] = seqs[i][1]
<1> DEFINE n == Len(seqs)
           all == FlattenSeq(seqs)
<1>1. n \in Nat /\ all \in Seq(S)
  BY LenProperties, FlattenType
<1>2. PICK off \in [0 .. Len(seqs) -> Nat] : Places(seqs, off)
  BY Placing
<1>3. /\ off[0] = 0 /\ off[n] = Len(all)
      /\ \A i \in 1 .. n : off[i] = off[i - 1] + 1
      /\ \A i \in 1 .. n : all[off[i - 1] + 1] = seqs[i][1]
  <2>1. \A i \in 1 .. n : Len(seqs[i]) = 1 /\ 1 \in 1 .. 1
    OBVIOUS
  <2>2. \A i \in 1 .. n : \A j \in 1 .. Len(seqs[i]) :
          all[off[i - 1] + j] = seqs[i][j]
    BY <1>2 DEF Places
  <2> HIDE DEF all, n
  <2>3. \A i \in 1 .. n : all[off[i - 1] + 1] = seqs[i][1]
    BY <2>1, <2>2
  <2>4. /\ off[0] = 0 /\ off[n] = Len(all)
        /\ \A i \in 1 .. n : off[i] = off[i - 1] + Len(seqs[i])
    BY <1>2 DEF Places, all, n
  <2>5. QED
    BY <2>1, <2>3, <2>4
<1> HIDE DEF all, n
<1>4. \A i \in 0 .. n : off[i] = i
  <2> DEFINE T == {i \in 0 .. n : off[i] = i}
  <2>1. 0 \in T
    BY <1>1, <1>3
  <2>2. ASSUME NEW i \in 0 .. n - 1, i \in T PROVE i + 1 \in T
    <3>1. i + 1 \in 1 .. n /\ i + 1 \in 0 .. n /\ (i + 1) - 1 = i
      BY <1>1
    <3>2. off[i + 1] = i + 1
      BY <1>3, <2>2, <3>1
    <3>3. QED
      BY <3>1, <3>2
  <2>3. 0 .. n \subseteq T
    <3> HIDE DEF T
    <3>1. QED
      BY <1>1, <2>1, <2>2, UpTo
  <2>4. QED
    BY <2>3
<1>5. off[n] = n
  BY <1>1, <1>4
<1>6. ASSUME NEW i \in 1 .. n PROVE all[i] = seqs[i][1]
  <2>1. i - 1 \in 0 .. n /\ (i - 1) + 1 = i
    BY <1>1
  <2>2. off[i - 1] = i - 1
    BY <1>4, <2>1
  <2>3. QED
    BY <1>3, <2>1, <2>2
<1>7. QED
  BY <1>1, <1>3, <1>5, <1>6 DEF n, all
==============================================================================
