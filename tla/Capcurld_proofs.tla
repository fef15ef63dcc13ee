--------------------------- MODULE Capcurld_proofs ---------------------------
(***************************************************************************)
(* What the runs check of the process capcurld, for any number of clients  *)
(* and any limits: the types, with the queue and the count of descriptors, *)
(* and that three descriptors for each client are enough.                  *)
(***************************************************************************)
EXTENDS Capcurld, FiniteSetTheorems, SequenceTheorems, TLAPS

Behind == {c \in Client : stage[c] \in {"answering", "done"}}

\* Each connection that idles was left behind by a session that has its
\* answer or is over.
IdleInv == idling <= Cardinality(Behind)

\* With three descriptors for each, no session was cut off for want of any.
HeardInv ==
  status = "up" /\ nofile >= 3 * Cardinality(Client) =>
    \A c \in Client : told[c] # "eof"

Inv == TypeOK /\ IdleInv /\ HeardInv

-----------------------------------------------------------------------------
(***************************************************************************)
(* Counting descriptors.                                                   *)
(***************************************************************************)
LEMMA AtMostThree == \A at : Descriptors(at) \in 0 .. 3
BY DEF Descriptors

LEMMA HeldMembers ==
  Held = {h \in Client \X (1 .. 3) : h[2] <= Descriptors(stage[h[1]])}
<1> DEFINE Members ==
      {h \in Client \X (1 .. 3) : h[2] <= Descriptors(stage[h[1]])}
<1>1. ASSUME NEW h \in Held PROVE h \in Members
  <2>1. PICK c \in Client : h \in {c} \X (1 .. Descriptors(stage[c]))
    BY <1>1 DEF Held
  <2>2. Descriptors(stage[c]) \in 0 .. 3
    BY AtMostThree
  <2>3. /\ h[1] = c /\ h[2] \in 1 .. Descriptors(stage[c])
        /\ h \in Client \X (1 .. 3)
    BY <2>1, <2>2
  <2>4. QED
    BY <2>2, <2>3
<1>2. ASSUME NEW h \in Members PROVE h \in Held
  <2>1. h \in {h[1]} \X (1 .. Descriptors(stage[h[1]]))
    BY AtMostThree
  <2>2. QED
    BY <2>1 DEF Held
<1>3. QED
  BY <1>1, <1>2

\* The numbers from a + 1 to b, for one client.
LEMMA Numbered ==
  ASSUME NEW c, NEW a \in Nat, NEW b \in Nat, a <= b
  PROVE  /\ IsFiniteSet({c} \X ((a + 1) .. b))
         /\ Cardinality({c} \X ((a + 1) .. b)) = b - a
<1> DEFINE l == a + 1
<1>1. l \in Int /\ b \in Int /\ 1 * (b - a) = b - a
  OBVIOUS
<1>2. IsFiniteSet(l .. b) /\ Cardinality(l .. b) = b - a
  <2>1. /\ IsFiniteSet(l .. b)
        /\ Cardinality(l .. b) = IF l > b THEN 0 ELSE b - l + 1
    BY <1>1, FS_Interval, Zenon
  <2>2. QED
    BY <2>1
<1>3. IsFiniteSet({c}) /\ Cardinality({c}) = 1
  BY FS_Singleton
<1>4. /\ IsFiniteSet({c} \X (l .. b))
      /\ Cardinality({c} \X (l .. b)) = Cardinality({c}) * Cardinality(l .. b)
  BY <1>2, <1>3, FS_Product, Zenon
<1>5. QED
  BY <1>1, <1>2, <1>3, <1>4

LEMMA AllHeld ==
  /\ IsFiniteSet(Client \X (1 .. 3))
  /\ Cardinality(Client \X (1 .. 3)) = 3 * Cardinality(Client)
  /\ Cardinality(Client) \in Nat
<1>1. IsFiniteSet(1 .. 3) /\ Cardinality(1 .. 3) = 3
  <2>1. /\ IsFiniteSet(1 .. 3)
        /\ Cardinality(1 .. 3) = IF 1 > 3 THEN 0 ELSE 3 - 1 + 1
    <3>1. 1 \in Int /\ 3 \in Int
      OBVIOUS
    <3>2. QED
      BY <3>1, FS_Interval, Zenon
  <2>2. QED
    BY <2>1
<1>2. IsFiniteSet(Client) /\ Cardinality(Client) \in Nat
  BY CapcurldAssumption, FS_CardinalityType
<1>3. /\ IsFiniteSet(Client \X (1 .. 3))
      /\ Cardinality(Client \X (1 .. 3)) = Cardinality(Client) * 3
  BY <1>1, <1>2, FS_Product
<1>4. QED
  BY <1>2, <1>3

LEMMA HeldFinite ==
  /\ IsFiniteSet(Held) /\ Cardinality(Held) \in Nat
  /\ IsFiniteSet(Behind) /\ Cardinality(Behind) \in Nat
<1>1. Held \in SUBSET (Client \X (1 .. 3))
  BY HeldMembers
<1>2. Behind \in SUBSET Client
  BY DEF Behind
<1>3. QED
  BY <1>1, <1>2, AllHeld, CapcurldAssumption, FS_Subset, FS_CardinalityType

\* Two disjoint finite sets count together.
LEMMA Together ==
  ASSUME NEW S, NEW T, IsFiniteSet(S), IsFiniteSet(T), S \cap T = {}
  PROVE  /\ IsFiniteSet(S \cup T)
         /\ Cardinality(S \cup T) = Cardinality(S) + Cardinality(T)
         /\ Cardinality(S) \in Nat /\ Cardinality(T) \in Nat
<1>1. Cardinality(S) \in Nat /\ Cardinality(T) \in Nat
  BY FS_CardinalityType
<1>2. Cardinality(S \cap T) = 0
  BY FS_EmptySet
<1>3. /\ IsFiniteSet(S \cup T)
      /\ Cardinality(S \cup T) =
           Cardinality(S) + Cardinality(T) - Cardinality(S \cap T)
  BY FS_Union
<1>4. QED
  BY <1>1, <1>2, <1>3

\* A client that has no answer yet leaves room for the rest of its three,
\* whatever the others hold and however many connections idle: a session that
\* has its answer holds two itself, and left one behind at most.
LEMMA Room ==
  ASSUME TypeOK, IdleInv,
         NEW c \in Client, stage[c] \notin {"answering", "done"}
  PROVE  Used + (3 - Descriptors(stage[c])) <= 3 * Cardinality(Client)
<1> DEFINE n == Descriptors(stage[c])
           Rest == {c} \X ((n + 1) .. 3)
           Past == Behind \X {3}
<1>1. n \in 0 .. 3
  BY AtMostThree
<1>2. IsFiniteSet(Rest) /\ Cardinality(Rest) = 3 - n
  <2>1. n \in Nat /\ 3 \in Nat /\ n <= 3
    BY <1>1
  <2>2. QED
    BY <2>1, Numbered, Zenon
<1>3. IsFiniteSet(Past) /\ Cardinality(Past) = Cardinality(Behind)
  <2>1. IsFiniteSet({3}) /\ Cardinality({3}) = 1
    BY FS_Singleton
  <2>2. Cardinality(Past) = Cardinality(Behind) * 1 /\ IsFiniteSet(Past)
    BY <2>1, HeldFinite, FS_Product
  <2>3. QED
    BY <2>2, HeldFinite
<1>4. Held \cap Past = {}
  <2>1. ASSUME NEW h \in Held, h \in Past PROVE FALSE
    <3>1. h[2] = 3 /\ stage[h[1]] \in {"answering", "done"}
      BY <2>1 DEF Behind
    <3>2. 3 <= Descriptors(stage[h[1]])
      BY <3>1, HeldMembers
    <3>3. QED
      BY <3>1, <3>2 DEF Descriptors
  <2>2. QED
    BY <2>1
<1>5. (Held \cup Past) \cap Rest = {}
  <2>1. ASSUME NEW h \in Held, h \in Rest PROVE FALSE
    <3>1. h[1] = c /\ h[2] \in (n + 1) .. 3
      BY <2>1
    <3>2. h[2] <= n
      BY <3>1, HeldMembers
    <3>3. QED
      BY <1>1, <3>1, <3>2
  <2>2. ASSUME NEW h \in Past, h \in Rest PROVE FALSE
    BY <2>2 DEF Behind
  <2>3. QED
    BY <2>1, <2>2
<1>6. (Held \cup Past) \cup Rest \in SUBSET (Client \X (1 .. 3))
  <2>1. Held \subseteq Client \X (1 .. 3)
    BY HeldMembers
  <2>2. Past \subseteq Client \X (1 .. 3)
    BY DEF Behind
  <2>3. Rest \subseteq Client \X (1 .. 3)
    BY <1>1
  <2>4. QED
    BY <2>1, <2>2, <2>3
<1>7. /\ IsFiniteSet(Held \cup Past)
      /\ Cardinality(Held \cup Past) = Cardinality(Held) + Cardinality(Behind)
  BY <1>3, <1>4, HeldFinite, Together
<1>8. Cardinality((Held \cup Past) \cup Rest)
        = Cardinality(Held) + Cardinality(Behind) + (3 - n)
  <2>1. Cardinality((Held \cup Past) \cup Rest)
          = Cardinality(Held \cup Past) + Cardinality(Rest)
    <3> HIDE DEF Rest, Past
    <3>1. QED
      BY <1>2, <1>5, <1>7, Together
  <2>2. QED
    BY <1>2, <1>7, <2>1
<1>9. Cardinality(Held) + Cardinality(Behind) + (3 - n)
        <= 3 * Cardinality(Client)
  BY <1>6, <1>8, AllHeld, FS_Subset
<1>10. QED
  BY <1>1, <1>9, AllHeld, HeldFinite DEF Used, TypeOK, IdleInv

\* What one client holds changes with its stage, and nothing else does.
LEMMA Moves ==
  ASSUME stage \in [Client -> Stage], NEW c \in Client, NEW to,
         stage' = [stage EXCEPT ![c] = to]
  PROVE  /\ Cardinality(Held') \in Nat
         /\ Cardinality(Held') =
              Cardinality(Held) - Descriptors(stage[c]) + Descriptors(to)
<1> DEFINE Others == {h \in Held : h[1] # c}
           Own(at) == {c} \X ((0 + 1) .. Descriptors(at))
<1>1. ASSUME NEW at
      PROVE  /\ IsFiniteSet(Own(at))
             /\ Cardinality(Own(at)) = Descriptors(at)
             /\ Others \cap Own(at) = {}
  <2>1. 0 \in Nat /\ Descriptors(at) \in Nat /\ 0 <= Descriptors(at)
        /\ Descriptors(at) - 0 = Descriptors(at)
    BY AtMostThree
  <2>2. /\ IsFiniteSet(Own(at))
        /\ Cardinality(Own(at)) = Descriptors(at) - 0
    BY <2>1, Numbered, Zenon
  <2>3. QED
    BY <2>1, <2>2
<1>2. IsFiniteSet(Others)
  BY HeldFinite, FS_Subset
<1>3. Held = Others \cup Own(stage[c])
  BY AtMostThree DEF Held
<1>4. Held' = Others \cup Own(to)
  <2>1. stage'[c] = to /\ \A d \in Client \ {c} : stage'[d] = stage[d]
    OBVIOUS
  <2>2. QED
    BY <2>1 DEF Held
<1>5. Cardinality(Held) = Cardinality(Others) + Descriptors(stage[c])
  BY <1>1, <1>2, <1>3, Together
<1>6. /\ Cardinality(Held') = Cardinality(Others) + Descriptors(to)
      /\ Cardinality(Others) \in Nat
  BY <1>1, <1>2, <1>4, Together
<1>7. QED
  BY <1>5, <1>6, AtMostThree

-----------------------------------------------------------------------------
(***************************************************************************)
(* What a step of a task does.                                             *)
(***************************************************************************)
Word == {NULL, "answer", "refusal", "eof", "gone"}

\* What every step of the task of c keeps to.
Advances(c, to) ==
  /\ stage[c] \in Live /\ to \in Live \union {"done"}
  /\ stage' = [stage EXCEPT ![c] = to]
  /\ stage[c] = "answering" => to = "done"
  /\ UNCHANGED <<process, backlog>>
  /\ told' \in [Client -> Word]
  /\ idling' \in Nat
  /\ idling' <= idling \/ (to = "answering" /\ idling' = idling + 1)
  /\ Used - idling + idling' - Descriptors(stage[c]) + Descriptors(to)
       <= nofile

LEMMA Counts ==
  /\ Descriptors("none") = 0 /\ Descriptors("queued") = 0
  /\ Descriptors("done") = 0 /\ Descriptors("minting") = 1
  /\ Descriptors("paired") = 3 /\ Descriptors("serving") = 2
  /\ Descriptors("fetching") = 3 /\ Descriptors("answering") = 2
BY DEF Descriptors

LEMMA UsedType ==
  ASSUME TypeOK
  PROVE  /\ Used \in Nat /\ nofile \in Nat /\ idling \in Nat
         /\ Used = idling + Cardinality(Held)
BY HeldFinite, CapcurldAssumption DEF TypeOK, Used

LEMMA EndAdvances ==
  ASSUME TypeOK, NEW c \in Client, stage[c] \in Live,
         NEW word \in Word, Ends(c, word), UNCHANGED idling
  PROVE  Advances(c, "done")
<1>1. told' \in [Client -> Word]
  BY DEF TypeOK, Ends, Word
<1>2. Descriptors(stage[c]) \in 0 .. 3 /\ Descriptors("done") = 0
  BY AtMostThree, Counts
<1>3. Used <= nofile
  BY DEF TypeOK
<1>4. Used - idling + idling' - Descriptors(stage[c]) + Descriptors("done")
        <= nofile
  BY <1>2, <1>3, UsedType
<1>5. QED
  BY <1>1, <1>4, UsedType DEF Advances, Ends

LEMMA GoAdvances ==
  ASSUME TypeOK, NEW c \in Client, stage[c] \in Live \ {"answering"},
         NEW to \in Live, NEW n \in Nat, Goes(c, to, n), UNCHANGED idling,
         Descriptors(to) <= Descriptors(stage[c]) + n
  PROVE  Advances(c, to)
<1>1. Descriptors(stage[c]) \in 0 .. 3 /\ Descriptors(to) \in 0 .. 3
  BY AtMostThree
<1>2. Used - idling + idling' - Descriptors(stage[c]) + Descriptors(to)
        <= nofile
  BY <1>1, UsedType DEF Goes
<1>3. told' \in [Client -> Word]
  BY DEF TypeOK, Goes, Word
<1>4. QED
  BY <1>2, <1>3, UsedType DEF Advances, Goes

LEMMA TaskAdvances ==
  ASSUME TypeOK, NEW c \in Client, Runs(c) \/ Asked(c)
  PROVE  \E to : Advances(c, to)
<1> USE DEF Live
<1>1. /\ "answer" \in Word /\ "refusal" \in Word
      /\ "eof" \in Word /\ "gone" \in Word
  BY DEF Word
<1>2. CASE MintDenied(c) \/ NoPair(c)
  BY <1>1, <1>2, EndAdvances DEF MintDenied, NoPair
<1>3. CASE Refuse(c) \/ NoConnection(c)
  BY <1>1, <1>3, EndAdvances DEF Refuse, NoConnection
<1>4. CASE \/ FetchFails(c) \/ Answer(c)
           \/ MintEof(c) \/ SendFails(c) \/ HeadEof(c) \/ WriteFails(c)
  BY <1>1, <1>4, EndAdvances
     DEF FetchFails, Answer, MintEof, SendFails, HeadEof, WriteFails, Abandoned
<1>5. CASE Mint(c)
  BY <1>5, GoAdvances, Counts DEF Mint
<1>6. CASE DropTheirs(c)
  BY <1>6, GoAdvances, Counts DEF DropTheirs
<1>7. CASE Fetch(c)
  <2>1. CASE idling > 0
    <3>1. /\ idling' = idling - 1 /\ idling' \in Nat /\ stage[c] = "serving"
          /\ Goes(c, "fetching", 0)
      BY <1>7, <2>1, UsedType DEF Fetch
    <3>2. told' \in [Client -> Word]
      BY <3>1 DEF TypeOK, Goes, Word
    <3>3. Used - idling + idling' - Descriptors(stage[c])
            + Descriptors("fetching") <= nofile
      BY <3>1, UsedType, Counts DEF Goes
    <3>4. Advances(c, "fetching")
      BY <3>1, <3>2, <3>3, UsedType DEF Advances, Goes
    <3>5. QED
      BY <3>4
  <2>2. CASE ~ (idling > 0)
    BY <1>7, <2>2, GoAdvances, Counts DEF Fetch
  <2>3. QED
    BY <2>1, <2>2
<1>8. CASE Fetched(c)
  <2>1. /\ stage[c] = "fetching" /\ Goes(c, "answering", 0)
        /\ idling' \in {idling, idling + 1}
    BY <1>8 DEF Fetched
  <2>2. told' \in [Client -> Word]
    BY <2>1 DEF TypeOK, Goes, Word
  <2>3. Used - idling + idling' - Descriptors(stage[c])
          + Descriptors("answering") <= nofile
    BY <2>1, UsedType, Counts DEF Goes
  <2>4. Advances(c, "answering")
    BY <2>1, <2>2, <2>3, UsedType DEF Advances, Goes
  <2>5. QED
    BY <2>4
<1>9. QED
  BY <1>2, <1>3, <1>4, <1>5, <1>6, <1>7, <1>8 DEF Runs, Asked
-----------------------------------------------------------------------------
(***************************************************************************)
(* The steps of the loop and of the clients, and those of the tasks.       *)
(***************************************************************************)
\* Every step but a task's and the process's end.
Queue ==
  \/ \E c \in Client : Connect(c)
  \/ Accept

Quiet ==
  \/ \E c \in Client : Leave(c)
  \/ AcceptFails \/ CloseIdle \/ OneShotOver \/ UNCHANGED vars

LEMMA StepKinds ==
  ASSUME TypeOK, [Next]_vars
  PROVE  \/ \E c \in Client : \E to : Advances(c, to)
         \/ Queue \/ Quiet \/ Killed
<1>1. CASE \E c \in Client : Runs(c) \/ Asked(c)
  BY <1>1, TaskAdvances
<1>2. CASE \E c \in Client : Connect(c) \/ Leave(c)
  BY <1>2 DEF Queue, Quiet
<1>3. CASE \/ Accept \/ AcceptFails \/ CloseIdle \/ OneShotOver \/ Killed
           \/ UNCHANGED vars
  BY <1>3 DEF Queue, Quiet
<1>4. QED
  BY <1>1, <1>2, <1>3 DEF Next

\* The parts of TypeOK: the values, the count, the queue.
Values ==
  /\ one_shot \in BOOLEAN /\ nofile \in FdLimits
  /\ denied \in Denials /\ refused \in Refusals
  /\ status \in {"up", "exited", "killed"}
  /\ stage \in [Client -> Stage]
  /\ told \in [Client -> Word]
  /\ idling \in Nat

Queued == {c \in Client : stage[c] = "queued"}

QueueInv ==
  /\ backlog \in Seq(Client)
  /\ {backlog[i] : i \in DOMAIN backlog} = Queued
  /\ \A i, j \in DOMAIN backlog : backlog[i] = backlog[j] => i = j

LEMMA Parts == TypeOK <=> Values /\ Used <= nofile /\ QueueInv
BY DEF TypeOK, Values, QueueInv, Queued, Word
LEMMA QueueStep ==
  ASSUME TypeOK, [Next]_vars
  PROVE  QueueInv'
<1>1. QueueInv /\ stage \in [Client -> Stage]
  BY Parts DEF Values
<1>2. Len(backlog) \in Nat /\ DOMAIN backlog = 1 .. Len(backlog)
  BY <1>1, LenProperties DEF QueueInv
<1>3. CASE \E c \in Client : \E to : Advances(c, to)
  <2>1. PICK c \in Client : \E to : Advances(c, to)
    BY <1>3
  <2>2. Queued' = Queued
    BY <1>1, <2>1 DEF Advances, Live, Queued
  <2>3. QED
    BY <1>1, <2>1, <2>2 DEF Advances, QueueInv
<1>4. CASE \E c \in Client : Connect(c)
  <2>1. PICK c \in Client : Connect(c)
    BY <1>4
  <2>2. c \notin Queued /\ Queued' = Queued \cup {c}
    BY <1>1, <2>1 DEF Connect, Queued
  <2>3. /\ backlog' \in Seq(Client) /\ Len(backlog') = Len(backlog) + 1
        /\ \A i \in 1 .. Len(backlog) : backlog'[i] = backlog[i]
        /\ backlog'[Len(backlog) + 1] = c
        /\ DOMAIN backlog' = 1 .. Len(backlog) + 1
    <3>1. backlog' = Append(backlog, c) /\ backlog \in Seq(Client)
      BY <1>1, <2>1 DEF Connect, QueueInv
    <3>2. QED
      BY <1>2, <3>1, AppendProperties, LenProperties
  <2>4. \A i \in DOMAIN backlog' : i \in DOMAIN backlog \/ i = Len(backlog) + 1
    BY <1>2, <2>3
  <2>5. {backlog'[i] : i \in DOMAIN backlog'} = Queued'
    BY <1>1, <1>2, <2>2, <2>3, <2>4 DEF QueueInv
  <2>6. \A i \in DOMAIN backlog : backlog'[i] # c
    BY <1>1, <1>2, <2>2, <2>3 DEF QueueInv
  <2>7. \A i, j \in DOMAIN backlog' : backlog'[i] = backlog'[j] => i = j
    BY <1>1, <1>2, <2>3, <2>4, <2>6 DEF QueueInv
  <2>8. QED
    BY <2>3, <2>5, <2>7 DEF QueueInv
<1>5. CASE Accept
  <2> DEFINE c == backlog[1]
  <2>1. /\ backlog # <<>> /\ 1 \in DOMAIN backlog /\ c \in Queued
        /\ stage' = [stage EXCEPT ![c] = "minting"]
        /\ backlog' = Tail(backlog)
    BY <1>1, <1>2, <1>5, EmptySeq DEF Accept, QueueInv
  <2>2. Queued' = Queued \ {c}
    BY <1>1, <2>1 DEF Queued
  <2>3. /\ backlog' \in Seq(Client)
        /\ DOMAIN backlog' = 1 .. Len(backlog) - 1
        /\ \A i \in DOMAIN backlog' : backlog'[i] = backlog[i + 1]
    BY <1>1, <1>2, <2>1, HeadTailProperties, LenProperties DEF QueueInv
  <2>4. \A i \in DOMAIN backlog' : i + 1 \in DOMAIN backlog /\ i + 1 # 1
    BY <1>2, <2>3
  <2>5. \A i \in DOMAIN backlog : i = 1 \/ i - 1 \in DOMAIN backlog'
    BY <1>2, <2>3
  <2>6. {backlog'[i] : i \in DOMAIN backlog'} = Queued'
    <3>1. ASSUME NEW i \in DOMAIN backlog' PROVE backlog'[i] \in Queued \ {c}
      BY <1>1, <2>1, <2>3, <2>4 DEF QueueInv
    <3>2. ASSUME NEW d \in Queued \ {c}
          PROVE  \E i \in DOMAIN backlog' : backlog'[i] = d
      <4>1. PICK i \in DOMAIN backlog : backlog[i] = d
        BY <1>1 DEF QueueInv
      <4>2. i - 1 \in DOMAIN backlog' /\ (i - 1) + 1 = i
        BY <1>2, <2>5, <4>1
      <4>3. QED
        BY <2>3, <4>1, <4>2
    <3>3. QED
      BY <2>2, <3>1, <3>2
  <2>7. \A i, j \in DOMAIN backlog' : backlog'[i] = backlog'[j] => i = j
    <3>1. SUFFICES ASSUME NEW i \in DOMAIN backlog', NEW j \in DOMAIN backlog',
                          backlog'[i] = backlog'[j]
                   PROVE  i = j
      OBVIOUS
    <3>2. i + 1 = j + 1
      BY <1>1, <2>3, <2>4, <3>1 DEF QueueInv
    <3>3. QED
      BY <1>2, <2>3, <3>2
  <2>8. QED
    BY <2>3, <2>6, <2>7 DEF QueueInv
<1>6. CASE Quiet
  BY <1>1, <1>6
     DEF Quiet, Leave, AcceptFails, CloseIdle, OneShotOver, vars,
         QueueInv, Queued
<1>7. CASE Killed
  <2>1. backlog' = <<>> /\ Queued' = {}
    BY <1>1, <1>7 DEF Killed, Queued
  <2>2. QED
    BY <2>1, EmptySeq DEF QueueInv
<1>8. QED
  BY <1>3, <1>4, <1>5, <1>6, <1>7, StepKinds DEF Queue

LEMMA ValuesStep ==
  ASSUME TypeOK, [Next]_vars
  PROVE  Values'
<1>1. Values /\ idling \in Nat
  BY Parts DEF Values
<1>2. CASE \E c \in Client : \E to : Advances(c, to)
  BY <1>1, <1>2 DEF Advances, Values, Live, Stage, process, settings
<1>3. CASE \E c \in Client : Connect(c)
  BY <1>1, <1>3 DEF Connect, Values, Stage, process, settings
<1>4. CASE Accept
  <2>1. Head(backlog) \in Client
    BY <1>4, Parts, EmptySeq, HeadTailProperties DEF Accept, QueueInv
  <2>2. QED
    BY <1>1, <1>4, <2>1 DEF Accept, Values, Stage, Live, process, settings
<1>5. CASE \E c \in Client : Leave(c)
  BY <1>1, <1>5 DEF Leave, Values, Word, process, settings
<1>6. CASE CloseIdle \/ OneShotOver
  BY <1>1, <1>6 DEF CloseIdle, OneShotOver, Values, process, settings
<1>7. CASE AcceptFails \/ UNCHANGED vars
  BY <1>1, <1>7 DEF AcceptFails, vars, Values, process, settings
<1>8. CASE Killed
  BY <1>1, <1>8 DEF Killed, Values, Word, Stage, settings
<1>9. QED
  BY <1>2, <1>3, <1>4, <1>5, <1>6, <1>7, <1>8, StepKinds DEF Queue, Quiet
LEMMA HeldStep ==
  ASSUME TypeOK, stage' = stage
  PROVE  Held' = Held /\ Behind' = Behind
BY DEF Held, Behind

LEMMA UsedStep ==
  ASSUME TypeOK, [Next]_vars
  PROVE  Used' <= nofile'
<1>1. /\ stage \in [Client -> Stage] /\ Used <= nofile
      /\ Used \in Nat /\ nofile \in Nat /\ idling \in Nat
      /\ Used = idling + Cardinality(Held) /\ Cardinality(Held) \in Nat
  BY UsedType, HeldFinite DEF TypeOK
<1>2. Used' = idling' + Cardinality(Held')
  BY DEF Used
<1>3. CASE \E c \in Client : \E to : Advances(c, to)
  <2>1. PICK c \in Client : \E to : Advances(c, to)
    BY <1>3
  <2>2. PICK to : Advances(c, to)
    BY <2>1
  <2>3. /\ Cardinality(Held') \in Nat
        /\ Cardinality(Held') =
             Cardinality(Held) - Descriptors(stage[c]) + Descriptors(to)
    BY <1>1, <2>2, Moves DEF Advances
  <2>4. /\ Used - idling + idling' - Descriptors(stage[c]) + Descriptors(to)
             <= nofile
        /\ nofile' = nofile /\ idling' \in Nat
    BY <2>2 DEF Advances, process, settings
  <2>5. Descriptors(stage[c]) \in 0 .. 3 /\ Descriptors(to) \in 0 .. 3
    BY AtMostThree
  <2>6. QED
    BY <1>1, <1>2, <2>3, <2>4, <2>5
<1>4. CASE Queue
  <2>1. /\ Cardinality(Held') \in Nat
        /\ Cardinality(Held') + idling' <= nofile
        /\ nofile' = nofile /\ idling' = idling
    <3>1. CASE \E c \in Client : Connect(c)
      <4>1. PICK c \in Client : Connect(c)
        BY <3>1
      <4>2. /\ stage[c] = "none" /\ stage' = [stage EXCEPT ![c] = "queued"]
            /\ nofile' = nofile /\ idling' = idling
        BY <4>1 DEF Connect, process, settings
      <4>3. Cardinality(Held') = Cardinality(Held)
                                   - Descriptors("none") + Descriptors("queued")
        BY <1>1, <4>2, Moves
      <4>4. Cardinality(Held') = Cardinality(Held)
        BY <1>1, <4>3, Counts
      <4>5. QED
        BY <1>1, <4>2, <4>4
    <3>2. CASE Accept
      <4>1. /\ backlog # <<>> /\ QueueInv /\ Used < nofile
            /\ DOMAIN backlog = 1 .. Len(backlog) /\ Len(backlog) \in Nat
            /\ stage' = [stage EXCEPT ![Head(backlog)] = "minting"]
        BY <3>2, Parts, LenProperties DEF Accept, QueueInv
      <4>2. Head(backlog) \in Queued
        BY <4>1, EmptySeq DEF QueueInv
      <4>3. Cardinality(Held') = Cardinality(Held) - 0 + 1
        BY <1>1, <4>1, <4>2, Moves, Counts DEF Queued
      <4>4. QED
        BY <1>1, <3>2, <4>1, <4>3 DEF Accept, process, settings
    <3>3. QED
      BY <1>4, <3>1, <3>2 DEF Queue
  <2>2. QED
    BY <1>1, <1>2, <2>1
<1>5. CASE Quiet
  <2>1. /\ stage' = stage /\ nofile' = nofile
        /\ idling' \in Nat /\ idling' <= idling
    BY <1>1, <1>5
       DEF Quiet, Leave, AcceptFails, CloseIdle, OneShotOver, vars, process,
           settings
  <2>2. QED
    BY <1>1, <1>2, <2>1, HeldStep
<1>6. CASE Killed
  <2>1. Held' = {}
    <3>1. \A c \in Client : stage'[c] \in {"none", "done"}
      BY <1>6 DEF Killed
    <3>2. \A c \in Client : Descriptors(stage'[c]) = 0
      BY <3>1, Counts
    <3>3. QED
      BY <3>2 DEF Held
  <2>2. Cardinality(Held') = 0 /\ idling' = 0 /\ nofile' = nofile
    BY <1>6, <2>1, FS_EmptySet DEF Killed, settings
  <2>3. QED
    BY <1>1, <1>2, <2>2
<1>7. QED
  BY <1>3, <1>4, <1>5, <1>6, StepKinds

LEMMA TypeStep ==
  ASSUME TypeOK, [Next]_vars
  PROVE  TypeOK'
BY Parts, ValuesStep, UsedStep, QueueStep
   DEF TypeOK, Values, QueueInv, Queued, Word
-----------------------------------------------------------------------------
(***************************************************************************)
(* What idles, and what is heard.                                          *)
(***************************************************************************)
LEMMA BehindGrows ==
  ASSUME stage \in [Client -> Stage], NEW c \in Client, NEW to,
         stage' = [stage EXCEPT ![c] = to], stage[c] # "done",
         stage[c] = "answering" => to = "done"
  PROVE  /\ Cardinality(Behind') \in Nat
         /\ Cardinality(Behind) <= Cardinality(Behind')
         /\ to = "answering" => Cardinality(Behind') = Cardinality(Behind) + 1
<1>1. IsFiniteSet(Behind) /\ Cardinality(Behind) \in Nat
  BY HeldFinite
<1>2. CASE to = "answering"
  <2>1. c \notin Behind /\ Behind' = Behind \cup {c}
    BY <1>2 DEF Behind
  <2>2. Cardinality(Behind \cup {c}) = Cardinality(Behind) + 1
    BY <1>1, <2>1, FS_AddElement
  <2>3. QED
    BY <1>1, <2>1, <2>2
<1>3. CASE to # "answering"
  <2>1. Behind \in SUBSET Behind' /\ Behind' \in SUBSET Client
    BY <1>3 DEF Behind
  <2>2. IsFiniteSet(Behind')
    BY <2>1, CapcurldAssumption, FS_Subset
  <2>3. QED
    BY <1>3, <2>1, <2>2, FS_Subset, FS_CardinalityType
<1>4. QED
  BY <1>2, <1>3

LEMMA IdleStep ==
  ASSUME TypeOK, IdleInv, [Next]_vars
  PROVE  IdleInv'
<1>1. /\ stage \in [Client -> Stage] /\ idling \in Nat
      /\ Cardinality(Behind) \in Nat /\ idling <= Cardinality(Behind)
  BY HeldFinite DEF TypeOK, IdleInv
<1>2. CASE \E c \in Client : \E to : Advances(c, to)
  <2>1. PICK c \in Client : \E to : Advances(c, to)
    BY <1>2
  <2>2. PICK to : Advances(c, to)
    BY <2>1
  <2>3. /\ stage[c] # "done" /\ stage' = [stage EXCEPT ![c] = to]
        /\ stage[c] = "answering" => to = "done"
        /\ idling' \in Nat
        /\ idling' <= idling \/ (to = "answering" /\ idling' = idling + 1)
    BY <2>2 DEF Advances, Live
  <2>4. /\ Cardinality(Behind') \in Nat
        /\ Cardinality(Behind) <= Cardinality(Behind')
        /\ to = "answering" => Cardinality(Behind') = Cardinality(Behind) + 1
    BY <1>1, <2>3, BehindGrows
  <2>5. QED
    BY <1>1, <2>3, <2>4 DEF IdleInv
<1>3. CASE Queue
  <2>1. idling' = idling /\ Behind' = Behind
    <3>1. CASE \E c \in Client : Connect(c)
      BY <1>1, <3>1 DEF Connect, Behind
    <3>2. CASE Accept
      <4>1. /\ backlog # <<>> /\ QueueInv
            /\ DOMAIN backlog = 1 .. Len(backlog) /\ Len(backlog) \in Nat
        BY <3>2, Parts, LenProperties DEF Accept, QueueInv
      <4>2. Head(backlog) \in Queued
        BY <4>1, EmptySeq DEF QueueInv
      <4>3. QED
        BY <1>1, <3>2, <4>2 DEF Accept, Queued, Behind
    <3>3. QED
      BY <1>3, <3>1, <3>2 DEF Queue
  <2>2. QED
    BY <1>1, <2>1 DEF IdleInv
<1>4. CASE Quiet
  <2>1. stage' = stage /\ idling' \in Nat /\ idling' <= idling
    BY <1>1, <1>4
       DEF Quiet, Leave, AcceptFails, CloseIdle, OneShotOver, vars
  <2>2. QED
    BY <1>1, <2>1, HeldStep DEF IdleInv
<1>5. CASE Killed
  <2>1. idling' = 0 /\ Behind' \in SUBSET Client
    BY <1>5 DEF Killed, Behind
  <2>2. Cardinality(Behind') \in Nat
    BY <2>1, CapcurldAssumption, FS_Subset, FS_CardinalityType
  <2>3. QED
    BY <2>1, <2>2 DEF IdleInv
<1>6. QED
  BY <1>2, <1>3, <1>4, <1>5, StepKinds

\* With three for each, a session that is minting can have its pair.
LEMMA PairFits ==
  ASSUME TypeOK, IdleInv, nofile >= 3 * Cardinality(Client),
         NEW c \in Client, stage[c] = "minting"
  PROVE  Used + 2 <= nofile
<1>1. Used + (3 - 1) <= 3 * Cardinality(Client)
  BY Room, Counts
<1>2. QED
  BY <1>1, UsedType, AllHeld

LEMMA HeardStep ==
  ASSUME Inv, [Next]_vars
  PROVE  HeardInv'
<1>1. TypeOK /\ IdleInv /\ HeardInv
  BY DEF Inv
<1>2. SUFFICES ASSUME status' = "up", nofile' >= 3 * Cardinality(Client),
                      NEW d \in Client, told'[d] = "eof"
               PROVE  FALSE
  BY DEF HeardInv
<1>3. CASE Killed \/ OneShotOver
  BY <1>2, <1>3 DEF Killed, OneShotOver
<1>4. CASE ~ (Killed \/ OneShotOver)
  <2>1. status = "up" /\ nofile = nofile'
    BY <1>2, <1>4
       DEF Next, vars, process, settings, Connect, Leave, Accept, AcceptFails,
           CloseIdle, Runs, Asked, DropTheirs, Fetched, FetchFails, Answer,
           MintEof, SendFails, HeadEof, WriteFails, Abandoned, Mint,
           MintDenied, NoPair, Refuse, Fetch, NoConnection, Goes, Ends
  <2>2. told[d] # "eof" /\ told \in [Client -> Word]
    BY <1>1, <1>2, <2>1 DEF HeardInv, TypeOK, Word
  <2>3. ASSUME NEW c \in Client, NoPair(c) PROVE FALSE
    <3>1. stage[c] = "minting" /\ Used + 2 > nofile
      BY <2>3 DEF NoPair
    <3>2. Used + 2 <= nofile
      BY <1>1, <1>2, <2>1, <3>1, PairFits
    <3>3. QED
      BY <1>1, <3>1, <3>2, UsedType
  <2>4. ASSUME NEW c \in Client, NEW word \in Word \ {"eof"}, Ends(c, word)
        PROVE  FALSE
    BY <1>2, <2>2, <2>4 DEF Ends, Word
  <2>5. ASSUME NEW c \in Client, Runs(c) \/ Asked(c)
        PROVE  FALSE
    <3>1. CASE \E n, to : Goes(c, to, n)
      BY <1>2, <2>2, <3>1 DEF Goes
    <3>2. CASE \E word \in Word \ {"eof"} : Ends(c, word)
      BY <2>4, <3>2
    <3>3. CASE DropTheirs(c) \/ Mint(c) \/ Fetch(c) \/ Fetched(c)
      BY <3>1, <3>3 DEF DropTheirs, Mint, Fetch, Fetched
    <3>4. CASE \/ FetchFails(c) \/ Answer(c)
               \/ MintDenied(c) \/ Refuse(c) \/ NoConnection(c)
               \/ MintEof(c) \/ SendFails(c) \/ HeadEof(c) \/ WriteFails(c)
      BY <3>2, <3>4
         DEF FetchFails, Answer, MintDenied, Refuse, NoConnection,
             MintEof, SendFails, HeadEof, WriteFails, Abandoned, Word
    <3>5. QED
      BY <2>3, <2>5, <3>3, <3>4 DEF Runs, Asked
  <2>6. ASSUME NEW c \in Client, Leave(c) PROVE FALSE
    BY <1>2, <2>2, <2>6 DEF Leave
  <2>7. CASE \/ \E c \in Client : Connect(c)
             \/ Accept \/ AcceptFails \/ CloseIdle \/ UNCHANGED vars
    BY <1>2, <2>2, <2>7 DEF Connect, Accept, AcceptFails, CloseIdle, vars
  <2>8. QED
    BY <1>4, <2>5, <2>6, <2>7 DEF Next
<1>5. QED
  BY <1>3, <1>4

-----------------------------------------------------------------------------
LEMMA InitInv == Init => Inv
<1> SUFFICES ASSUME Init PROVE Inv
  OBVIOUS
<1>1. PICK first \in Client :
        stage = [c \in Client |->
                   IF one_shot /\ c = first THEN "minting" ELSE "none"]
  BY DEF Init
<1>2. Values
  BY <1>1, CapcurldAssumption DEF Init, Values, Word, Stage, Live
<1>3. QueueInv
  <2>1. Queued = {} /\ backlog = <<>>
    BY <1>1 DEF Init, Queued
  <2>2. QED
    BY <2>1, EmptySeq DEF QueueInv
<1>4. Used <= nofile
  <2>1. Held \in SUBSET {<<first, 1>>}
    <3>1. ASSUME NEW h \in Held PROVE h = <<first, 1>>
      <4>1. /\ h \in Client \X (1 .. 3)
            /\ h[2] <= Descriptors(stage[h[1]])
        BY <3>1, HeldMembers
      <4>2. CASE h[1] = first /\ stage[h[1]] = "minting"
        <5>1. h[2] = 1
          BY <4>1, <4>2, Counts
        <5>2. QED
          BY <4>1, <4>2, <5>1
      <4>3. CASE stage[h[1]] = "none"
        BY <4>1, <4>3, Counts
      <4>4. QED
        BY <1>1, <4>1, <4>2, <4>3
    <3>2. QED
      BY <3>1
  <2>2. Cardinality(Held) <= 1 /\ Cardinality(Held) \in Nat
    <3>1. /\ IsFiniteSet({<<first, 1>>}) /\ Cardinality({<<first, 1>>}) = 1
      BY FS_Singleton
    <3>2. QED
      BY <2>1, <3>1, FS_Subset, HeldFinite
  <2>3. Cardinality(Idle) \in Nat
    BY CapcurldAssumption, FS_Subset, FS_CardinalityType
  <2>4. nofile \in Nat /\ nofile > 2 * Cardinality(Idle)
    BY CapcurldAssumption DEF Init
  <2>5. Used = Cardinality(Held)
    BY <2>2 DEF Init, Used
  <2>6. QED
    BY <2>2, <2>3, <2>4, <2>5
<1>5. IdleInv
  BY HeldFinite DEF Init, IdleInv
<1>6. HeardInv
  BY CapcurldAssumption DEF Init, HeardInv
<1>7. QED
  BY <1>2, <1>3, <1>4, <1>5, <1>6, Parts DEF Inv

LEMMA InvStep ==
  ASSUME Inv, [Next]_vars
  PROVE  Inv'
BY TypeStep, IdleStep, HeardStep DEF Inv

LEMMA InvAlways == Spec => []Inv
BY InitInv, InvStep, PTL DEF Spec

\* The variables keep their types, nobody is in the queue twice or besides
\* it, and accept, socketpair and connect never go beyond the limit.
THEOREM TypeCorrect == Spec => []TypeOK
<1>1. Inv => TypeOK
  BY DEF Inv
<1>2. QED
  BY InvAlways, <1>1, PTL

\* For any number of clients, three descriptors for each are enough: none of
\* accept, socketpair and a connection to the origin ever fails for want of
\* one, whatever connections idle in the pool.
THEOREM ThreeEachCorrect == Spec => []ThreeEach
<1>1. Inv => ThreeEach
  <2> SUFFICES ASSUME Inv, status = "up",
                      nofile >= 3 * Cardinality(Client), NEW c \in Client
               PROVE  /\ told[c] # "eof"
                      /\ stage[c] = "queued" => Used < nofile
                      /\ stage[c] = "minting" => Used + 2 <= nofile
                      /\ stage[c] = "serving" => idling > 0 \/ Used < nofile
    BY DEF ThreeEach
  <2>1. TypeOK /\ IdleInv /\ HeardInv
    BY DEF Inv
  <2>2. told[c] # "eof"
    BY <2>1 DEF HeardInv
  <2>3. ASSUME stage[c] = "queued" PROVE Used < nofile
    <3>1. Used + (3 - 0) <= 3 * Cardinality(Client)
      BY <2>1, <2>3, Room, Counts
    <3>2. QED
      BY <2>1, <3>1, UsedType, AllHeld
  <2>4. ASSUME stage[c] = "serving" PROVE Used < nofile
    <3>1. Used + (3 - 2) <= 3 * Cardinality(Client)
      BY <2>1, <2>4, Room, Counts
    <3>2. QED
      BY <2>1, <3>1, UsedType, AllHeld
  <2>5. QED
    BY <2>1, <2>2, <2>3, <2>4, PairFits
<1>2. QED
  BY InvAlways, <1>1, PTL
==============================================================================
