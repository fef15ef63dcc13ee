----------------------------- MODULE Mint_proofs -----------------------------
(***************************************************************************)
(* Proofs about the mint handshake: for every grant, every request and     *)
(* every client, and with either side ending at any point.                 *)
(***************************************************************************)
EXTENDS Mint, Induction

(***************************************************************************)
(* The inductive invariant.                                                *)
(***************************************************************************)
\* The client has still to learn how its mint ended.
Awaiting == cpc \in {"send", "recv"}

\* What the daemon has read of the client's messages, and what it has not.
ReqInv ==
  dpc = "recv" =>
    /\ Len(args) + Len(req) = put
    /\ \A i \in 1 .. Len(req) : req[i] = script[Len(args) + i]
    /\ \A i \in 1 .. Len(args) :
         script[i].kind = "arg" /\ args[i] = script[i].value

\* The request a descriptor is bound to, how it came about and what is
\* fetched for it.
Justified ==
  /\ minted \in Request
  /\ url = URL(endpoint.base, minted.target)
  /\ minted.method \in permitted(endpoint)
  /\ script[1].kind = "arg" /\ script[2].kind = "arg"
  /\ script[3].kind = "end"
  /\ minted = Bound(endpoint, [method |-> script[1].value,
                               target |-> script[2].value])
  /\ StartsWith(url.path, endpoint.base)
  /\ exact(endpoint.base) => url.path = endpoint.base
  /\ url.query = "given" => endpoint.allow_query

BoundInv ==
  /\ minted # NULL => Justified
  /\ dpc \in {"recv", "send_error"} => minted = NULL
  /\ dpc \in {"send_method", "send_target", "send_fd", "drop", "serving"} =>
       minted # NULL

\* Which message is the i-th of those in flight to the client.
Reply(i) ==
  \/ /\ rep[i].kind = "arg" /\ minted # NULL
     /\ \/ seen + i = 1 /\ rep[i].value = minted.method
        \/ seen + i = 2 /\ rep[i].value = minted.target
  \/ rep[i].kind = "fd" /\ minted # NULL /\ seen + i = 3
  \/ rep[i].kind = "error"

\* How many messages the daemon has sent, and what the last of them was.
Counted ==
  /\ dpc \in {"recv", "send_error", "send_method"} => seen + Len(rep) = 0
  /\ dpc = "send_target" => seen + Len(rep) = 1
  /\ dpc = "send_fd" => seen + Len(rep) = 2
  /\ dpc \in {"drop", "serving"} =>
       seen + Len(rep) = 3 /\ Len(rep) > 0 /\ rep[Len(rep)].kind = "fd"
  /\ dpc = "returned" => Len(rep) > 0 /\ rep[Len(rep)].kind # "arg"

RepInv == Awaiting => Counted /\ \A i \in 1 .. Len(rep) : Reply(i)

\* What the client has been told.
SeenInv ==
  /\ Awaiting /\ seen >= 1 => minted # NULL /\ reported.method = minted.method
  /\ Awaiting /\ seen >= 2 => reported.target = minted.target
  /\ cpc \in {"minted", "no_room"} => minted # NULL /\ reported = minted

\* A proper mint is not cut short.
ProperInv ==
  Mints =>
    /\ cpc = "send" /\ put < 3 => dpc \in {"recv", "crashed"}
    /\ cpc = "err" => dpc \in {"crashed", "no_pair"}

IInv ==
  TypeOK /\ ReqInv /\ BoundInv /\ RepInv /\ SeenInv /\ ProperInv

-----------------------------------------------------------------------------
(***************************************************************************)
(* Messages and grants.                                                    *)
(***************************************************************************)
LEMMA MessageType ==
  /\ \A v \in Value : arg(v) \in Message
  /\ end \in Message /\ error \in Message /\ fds \in Message
BY DEF arg, end, error, fds, Message, Kind, Value

LEMMA ScriptType ==
  ASSUME NEW asked \in Request
  PROVE  /\ MintScript(asked) \in Seq(Message) /\ Len(MintScript(asked)) = 3
         /\ MintScript(asked)[1] = arg(asked.method)
         /\ MintScript(asked)[2] = arg(asked.target)
         /\ MintScript(asked)[3] = end
<1>1. asked.method \in Value /\ asked.target \in Value
  BY DEF Request, Value
<1>2. arg(asked.method) \in Message /\ arg(asked.target) \in Message
  BY <1>1, MessageType
<1>3. QED
  BY <1>2, MessageType DEF MintScript

\* A word that a grant permits is a word.
LEMMA PermittedIsWord ==
  ASSUME NEW e \in Endpoint, Grantable(e), NEW w \in permitted(e)
  PROVE  w \in Word
<1>1. \A words \in SUBSET Word : MethodSet(words) \subseteq Word \union {NULL}
  BY ResolveAssumption DEF MethodSet
<1>2. e.methods \in SUBSET Word /\ e.fixed \in Request \union {NULL}
  BY DEF Endpoint
<1>3. CASE e.fixed = NULL \/ Canonical[e.fixed.method] = NULL
  BY <1>1, <1>2, <1>3 DEF permitted, Grantable
<1>4. CASE ~ (e.fixed = NULL \/ Canonical[e.fixed.method] = NULL)
  <2>1. e.fixed.method \in Word
    BY <1>2, <1>4 DEF Request
  <2>2. w = Canonical[e.fixed.method]
    BY <1>4 DEF permitted, MethodSet
  <2>3. QED
    BY <2>1, <2>2, <1>4, ResolveAssumption
<1>5. QED
  BY <1>3, <1>4

\* What is bound and what is fetched, where resolve does not deny.
LEMMA ResolveGrants ==
  ASSUME NEW e \in Endpoint, Grantable(e), NEW asked,
         resolve(e, asked) # NULL
  PROVE  LET url_ == resolve(e, asked)
             bound == Bound(e, asked)
         IN  /\ bound \in Request
             /\ bound.method \in permitted(e)
             /\ url_ = URL(e.base, bound.target)
             /\ url_.query \in {"none", "given"}
             /\ StartsWith(url_.path, e.base)
             /\ exact(e.base) => url_.path = e.base
             /\ url_.query = "given" => e.allow_query
<1> DEFINE r == Pinned(e, asked)
<1>1. /\ r \in Request
      /\ Canonical[r.method] \in permitted(e)
      /\ normalizes(r.target, e.allow_encoded_separators)
      /\ r.target.query # "none" => e.allow_query
      /\ resolve(e, asked) = join(e.base, r.target)
  BY DEF resolve
<1>2. /\ StartsWith(URL(e.base, r.target).path, e.base)
      /\ resolve(e, asked) = URL(e.base, r.target)
  BY <1>1 DEF join
<1>3. r.target \in RequestTarget /\ Canonical[r.method] \in Word
  BY <1>1, PermittedIsWord DEF Request
<1>4. BoundTarget(e, asked) = r.target
  BY DEF BoundTarget, Pinned
<1>5. /\ Bound(e, asked) \in Request
      /\ Bound(e, asked).method = Canonical[r.method]
      /\ Bound(e, asked).target = r.target
  BY <1>3, <1>4 DEF Bound, Request
<1>6. r.target.query \in {"none", "given"}
  BY <1>1, <1>3 DEF normalizes, RequestTarget
<1>7. exact(e.base) => URL(e.base, r.target).path = e.base
  BY DEF URL, Assembled, Grantable
<1>8. URL(e.base, r.target).query = r.target.query
  BY DEF URL
<1>9. QED
  BY <1>1, <1>2, <1>5, <1>6, <1>7, <1>8

-----------------------------------------------------------------------------
(***************************************************************************)
(* The two directions of the channel.                                      *)
(***************************************************************************)
LEMMA Received ==
  ASSUME NEW s \in Seq(Message), s # <<>>
  PROVE  /\ Len(s) \in Nat \ {0} /\ Head(s) = s[1] /\ Head(s) \in Message
         /\ Tail(s) \in Seq(Message) /\ Len(Tail(s)) = Len(s) - 1
         /\ \A i \in 1 .. Len(Tail(s)) : Tail(s)[i] = s[i + 1]
BY EmptySeq, HeadTailProperties

LEMMA Sent ==
  ASSUME NEW s \in Seq(Message), NEW m \in Message
  PROVE  /\ Append(s, m) \in Seq(Message) /\ Len(Append(s, m)) = Len(s) + 1
         /\ Append(s, m)[Len(s) + 1] = m
         /\ \A i \in 1 .. Len(s) : Append(s, m)[i] = s[i]
BY AppendProperties, LenProperties

-----------------------------------------------------------------------------
(***************************************************************************)
(* Type correctness.                                                       *)
(***************************************************************************)
TypeChannel ==
  /\ script \in Seq(Message) /\ put \in 0 .. Len(script)
  /\ req \in Seq(Message) /\ rep \in Seq(Message)
  /\ args \in Seq(Word \union RequestTarget) /\ Len(args) <= 2

TypeBound ==
  /\ minted \in Request \union {NULL}
  /\ url # NULL => minted # NULL /\ url.query \in {"none", "given"}

TypeControl ==
  /\ cpc \in {"send", "recv", "minted", "refused", "no_room", "err", "gone"}
  /\ dpc \in {"recv", "send_error", "send_method", "send_target", "send_fd",
              "drop", "serving", "returned", "no_pair", "crashed"}
  /\ held \in BOOLEAN /\ theirs \in BOOLEAN
  /\ held <=> cpc = "minted"

TypeReport ==
  /\ endpoint \in Endpoints /\ seen \in 0 .. 2
  /\ reported \in [method : Value, target : Value]

LEMMA TypeParts ==
  /\ TypeOK <=> TypeChannel /\ TypeBound /\ TypeControl /\ TypeReport
  /\ TypeOK' <=> TypeChannel' /\ TypeBound' /\ TypeControl' /\ TypeReport'
BY Zenon DEF TypeOK, TypeChannel, TypeBound, TypeControl, TypeReport

LEMMA InitInv == Init => IInv
<1> SUFFICES ASSUME Init PROVE IInv
  OBVIOUS
<1> USE DEF Init
<1>1. script \in Seq(Message) /\ Len(script) >= 2 /\ Len(script) \in Nat
  <2>1. CASE \E asked \in Asks : script = MintScript(asked)
    BY <2>1, MintAssumption, ScriptType
  <2>2. CASE script \in OtherScript
    BY <2>2, MintAssumption, LenProperties
  <2>3. QED
    BY <2>1, <2>2
<1>2. script[1] \in Message /\ script[2] \in Message
  BY <1>1, ElementOfSeq
<1>3. reported \in [method : Value, target : Value]
  BY <1>2 DEF Message
<1>4. TypeOK
  <2>1. TypeChannel
    BY <1>1, EmptySeq DEF TypeChannel
  <2>2. TypeBound /\ TypeReport
    BY <1>3 DEF TypeBound, TypeReport
  <2>3. TypeControl
    BY DEF TypeControl
  <2>4. QED
    BY <2>1, <2>2, <2>3, TypeParts
<1>5. ReqInv
  BY EmptySeq DEF ReqInv
<1>6. BoundInv /\ RepInv /\ SeenInv
  BY EmptySeq DEF BoundInv, RepInv, Counted, SeenInv, Awaiting
<1>7. ProperInv
  BY DEF ProperInv
<1>8. QED
  BY <1>4, <1>5, <1>6, <1>7 DEF IInv

\* What the client does to the variables' types.
LEMMA ClientType ==
  ASSUME TypeOK, ClientStep \/ ClientEnds
  PROVE  TypeOK'
<1>0. TypeChannel /\ TypeBound /\ TypeControl /\ TypeReport
  BY TypeParts
<1>1. TypeBound'
  <2>1. UNCHANGED <<minted, url>>
    BY DEF ClientStep, ClientSends, ClientSendFails, ClientSent, ClientArg,
           ClientFd, ClientNoRoom, ClientError, ClientEof, ClientEnds, daemon
  <2>2. QED
    BY <1>0, <2>1 DEF TypeBound
<1>2. TypeControl'
  <2>1. UNCHANGED <<dpc, theirs>>
    BY DEF ClientStep, ClientSends, ClientSendFails, ClientSent, ClientArg,
           ClientFd, ClientNoRoom, ClientError, ClientEof, ClientEnds, daemon
  <2>2. CASE ClientFd \/ ClientEnds
    BY <1>0, <2>1, <2>2 DEF ClientFd, ClientEnds, TypeControl
  <2>3. CASE ~ (ClientFd \/ ClientEnds)
    <3>1. /\ held' = held /\ cpc \in {"send", "recv"}
          /\ cpc' \in {"send", "recv", "refused", "no_room", "err"}
      BY <2>3
      DEF ClientStep, ClientSends, ClientSendFails, ClientSent, ClientArg,
          ClientNoRoom, ClientError, ClientEof, Receives
    <3>2. QED
      BY <1>0, <2>1, <3>1 DEF TypeControl
  <2>4. QED
    BY <2>2, <2>3
<1>3. TypeReport'
  <2>1. CASE ClientArg
    <3>1. rep # <<>> /\ Head(rep) \in Message
      BY <1>0, <2>1, Received DEF ClientArg, Receives, TypeChannel
    <3>2. Head(rep).value \in Value
      BY <3>1 DEF Message
    <3>3. reported' \in [method : Value, target : Value] /\ seen' \in 0 .. 2
      BY <1>0, <2>1, <3>2 DEF ClientArg, TypeReport
    <3>4. QED
      BY <1>0, <2>1, <3>3 DEF ClientArg, TypeReport
  <2>2. CASE ~ ClientArg
    <3>1. UNCHANGED <<endpoint, seen, reported>>
      BY <2>2 DEF ClientStep, ClientSends, ClientSendFails, ClientSent,
                  ClientFd, ClientNoRoom, ClientError, ClientEof, ClientEnds
    <3>2. QED
      BY <1>0, <3>1 DEF TypeReport
  <2>3. QED
    BY <2>1, <2>2
<1>4. TypeChannel'
  <2>1. CASE ClientSends
    <3>1. put \in Nat /\ Len(script) \in Nat /\ put + 1 \in 1 .. Len(script)
      BY <1>0, <2>1, LenProperties DEF ClientSends, TypeChannel
    <3>2. script[put + 1] \in Message
      BY <1>0, <3>1, ElementOfSeq DEF TypeChannel
    <3>3. req' \in Seq(Message) /\ put' \in 0 .. Len(script)
      BY <1>0, <2>1, <3>1, <3>2, Sent DEF ClientSends, TypeChannel
    <3>4. QED
      BY <1>0, <2>1, <3>3 DEF ClientSends, daemon, TypeChannel
  <2>2. CASE ClientArg \/ ClientFd \/ ClientNoRoom \/ ClientError
    <3>1. rep # <<>> /\ Tail(rep) \in Seq(Message)
      BY <1>0, <2>2, Received
      DEF ClientArg, ClientFd, ClientNoRoom, ClientError, Receives,
          TypeChannel
    <3>2. rep' = Tail(rep) /\ UNCHANGED <<script, put, req, args>>
      BY <2>2 DEF ClientArg, ClientFd, ClientNoRoom, ClientError, daemon
    <3>3. QED
      BY <1>0, <3>1, <3>2 DEF TypeChannel
  <2>3. CASE ClientSendFails \/ ClientSent \/ ClientEof \/ ClientEnds
    <3>1. rep' \in {rep, <<>>} /\ UNCHANGED <<script, put, req, args>>
      BY <2>3
      DEF ClientSendFails, ClientSent, ClientEof, ClientEnds, daemon
    <3>2. QED
      BY <1>0, <3>1, EmptySeq DEF TypeChannel
  <2>4. QED
    BY <2>1, <2>2, <2>3 DEF ClientStep
<1>5. QED
  BY <1>1, <1>2, <1>3, <1>4, TypeParts

\* What the daemon sends is a message.
LEMMA SendsType ==
  ASSUME TypeOK, BoundInv, SendError \/ SendMethod \/ SendTarget \/ SendFd
  PROVE  \E m \in Message : rep' = Append(rep, m)
<1>1. CASE SendError \/ SendFd
  BY <1>1, MessageType DEF SendError, SendFd, Sends
<1>2. CASE SendMethod \/ SendTarget
  <2>1. minted \in Request
    BY <1>2 DEF SendMethod, SendTarget, BoundInv, TypeOK
  <2>2. minted.method \in Value /\ minted.target \in Value
    BY <2>1 DEF Request, Value
  <2>3. QED
    BY <1>2, <2>2, MessageType DEF SendMethod, SendTarget, Sends
<1>3. QED
  BY <1>1, <1>2

Takes == MintArg \/ MintBroken \/ MintDenied \/ MintNoPair \/ MintGranted

Replies == SendError \/ SendMethod \/ SendTarget \/ SendFd

\* The steps after which both directions and the binding are what they were.
Quiet ==
  \/ MintEof \/ SendFails \/ DropTheirs \/ StreamFails
  \/ ServeNobody \/ ServeHolder \/ Crash

LEMMA QuietUnchanged ==
  ASSUME Quiet
  PROVE  UNCHANGED <<client, req, rep, args, minted, url>>
BY DEF Quiet, MintEof, SendFails, DropTheirs, StreamFails, ServeNobody,
       ServeHolder, Crash

LEMMA TakesUnchanged ==
  ASSUME Takes
  PROVE  /\ dpc = "recv" /\ req # <<>> /\ req' = Tail(req)
         /\ UNCHANGED <<client, rep>>
BY DEF Takes, MintArg, MintBroken, MintDenied, MintNoPair, MintGranted, Arrives

LEMMA RepliesUnchanged ==
  ASSUME Replies
  PROVE  UNCHANGED <<client, req, args, minted, url, theirs>>
BY DEF Replies, SendError, SendMethod, SendTarget, SendFd, Sends

LEMMA DaemonParts ==
  ServeStep \/ ServeHolder \/ Crash => Takes \/ Replies \/ Quiet
BY DEF ServeStep, Takes, Replies, Quiet

\* What is granted is what the client's first two messages asked for.
LEMMA Granted ==
  ASSUME TypeOK, MintGranted
  PROVE  /\ minted' = Bound(endpoint, Asked) /\ minted' \in Request
         /\ minted' # NULL /\ minted'.method \in permitted(endpoint)
         /\ url' = URL(endpoint.base, minted'.target)
         /\ url'.query \in {"none", "given"}
         /\ StartsWith(url'.path, endpoint.base)
         /\ exact(endpoint.base) => url'.path = endpoint.base
         /\ url'.query = "given" => endpoint.allow_query
<1>1. endpoint \in Endpoint /\ Grantable(endpoint)
  BY MintAssumption DEF TypeOK
<1>2. /\ resolve(endpoint, Asked) # NULL
      /\ minted' = Bound(endpoint, Asked) /\ url' = resolve(endpoint, Asked)
  BY DEF MintGranted
<1>3. NULL \notin Request
  BY ResolveAssumption DEF Request
<1>4. QED
  BY <1>1, <1>2, <1>3, ResolveGrants

LEMMA DaemonType ==
  ASSUME TypeOK, BoundInv, ServeStep \/ ServeHolder \/ Crash
  PROVE  TypeOK'
<1>0. TypeChannel /\ TypeBound /\ TypeControl /\ TypeReport
  BY TypeParts
<1>1. TypeBound'
  <2>1. CASE MintGranted
    BY <2>1, Granted DEF TypeBound
  <2>2. CASE ~ MintGranted
    <3>1. UNCHANGED <<minted, url>>
      BY <2>2, DaemonParts, QuietUnchanged, RepliesUnchanged
      DEF Takes, MintArg, MintBroken, MintDenied, MintNoPair
    <3>2. QED
      BY <1>0, <3>1 DEF TypeBound
  <2>3. QED
    BY <2>1, <2>2
<1>2. TypeReport' /\ UNCHANGED client
  <2>1. UNCHANGED client
    BY DaemonParts, QuietUnchanged, RepliesUnchanged, TakesUnchanged
  <2>2. QED
    BY <1>0, <2>1 DEF TypeReport, client
<1>3. TypeControl'
  <2>1. /\ dpc' \in {"recv", "send_error", "send_method", "send_target",
                     "send_fd", "drop", "serving", "returned", "no_pair",
                     "crashed"}
        /\ theirs' \in BOOLEAN
    BY <1>0
    DEF TypeControl, ServeStep, MintArg, MintBroken, MintEof, MintDenied,
        MintGranted, MintNoPair, SendError, SendMethod, SendTarget, SendFd,
        Sends, SendFails, DropTheirs, StreamFails, ServeNobody, ServeHolder,
        Crash
  <2>2. QED
    BY <1>0, <1>2, <2>1 DEF TypeControl, client
<1>4. req' \in Seq(Message)
  <2>1. CASE Takes
    BY <1>0, <2>1, TakesUnchanged, Received DEF TypeChannel
  <2>2. CASE Replies \/ Quiet
    BY <1>0, <2>2, QuietUnchanged, RepliesUnchanged DEF TypeChannel
  <2>3. QED
    BY <2>1, <2>2, DaemonParts
<1>5. rep' \in Seq(Message)
  <2>1. CASE Replies
    <3>1. PICK m \in Message : rep' = Append(rep, m)
      BY <2>1, SendsType DEF Replies
    <3>2. rep \in Seq(Message)
      BY <1>0 DEF TypeChannel
    <3>3. QED
      BY <3>1, <3>2, Sent
  <2>2. CASE Takes \/ Quiet
    BY <1>0, <2>2, QuietUnchanged, TakesUnchanged DEF TypeChannel
  <2>3. QED
    BY <2>1, <2>2, DaemonParts
<1>6. args' \in Seq(Word \union RequestTarget) /\ Len(args') <= 2
  <2>1. CASE MintArg
    <3>1. req # <<>> /\ Head(req) \in Message /\ Len(args) \in Nat
      BY <1>0, <2>1, Received, LenProperties DEF MintArg, Arrives, TypeChannel
    <3>2. Head(req).value \in Word \union RequestTarget \union {NULL}
      BY <3>1 DEF Message, Value
    <3>3. CASE Len(args) < 2 /\ Head(req).value # NULL
      <4>1. /\ Head(req).value \in Word \union RequestTarget
            /\ args' = Append(args, Head(req).value)
        BY <2>1, <3>2, <3>3 DEF MintArg
      <4>2. QED
        BY <1>0, <3>1, <3>3, <4>1, AppendProperties DEF TypeChannel
    <3>4. CASE ~ (Len(args) < 2 /\ Head(req).value # NULL)
      BY <1>0, <2>1, <3>4 DEF MintArg, TypeChannel
    <3>5. QED
      BY <3>3, <3>4
  <2>2. CASE ~ MintArg
    <3>1. UNCHANGED args
      BY <2>2, DaemonParts, QuietUnchanged, RepliesUnchanged
      DEF Takes, MintGranted, MintBroken, MintDenied, MintNoPair
    <3>2. QED
      BY <1>0, <3>1 DEF TypeChannel
  <2>3. QED
    BY <2>1, <2>2
<1>7. TypeChannel'
  BY <1>0, <1>2, <1>4, <1>5, <1>6 DEF TypeChannel, client
<1>8. QED
  BY <1>1, <1>2, <1>3, <1>7, TypeParts

-----------------------------------------------------------------------------
(***************************************************************************)
(* The other parts of the invariant.                                       *)
(***************************************************************************)
Client == ClientStep \/ ClientEnds

LEMMA ClientUnchanged ==
  ASSUME Client
  PROVE  UNCHANGED <<endpoint, script, daemon>>
BY DEF Client, ClientStep, ClientSends, ClientSendFails, ClientSent, ClientArg,
       ClientFd, ClientNoRoom, ClientError, ClientEof, ClientEnds, daemon

LEMMA NextParts ==
  Next => Client \/ Takes \/ Replies \/ Quiet \/ UNCHANGED vars
BY DEF Next, Client, Takes, Replies, Quiet, ServeStep, Finished

LEMMA ScriptUnchanged ==
  ASSUME [Next]_vars
  PROVE  UNCHANGED <<endpoint, script>>
BY NextParts, ClientUnchanged, TakesUnchanged, RepliesUnchanged, QuietUnchanged
DEF client, vars

\* The lengths of what is in flight, and the types of their elements.
LEMMA Lengths ==
  ASSUME TypeOK
  PROVE  /\ Len(req) \in Nat /\ Len(rep) \in Nat /\ Len(args) \in Nat
         /\ Len(script) \in Nat /\ put \in Nat /\ seen \in Nat
BY LenProperties DEF TypeOK

LEMMA ReqStep ==
  ASSUME TypeOK, ReqInv, [Next]_vars
  PROVE  ReqInv'
<1>0. Len(req) \in Nat /\ Len(args) \in Nat /\ put \in Nat
  BY Lengths
<1>1. SUFFICES ASSUME dpc' = "recv"
               PROVE  /\ Len(args') + Len(req') = put'
                      /\ \A i \in 1 .. Len(req') :
                           req'[i] = script'[Len(args') + i]
                      /\ \A i \in 1 .. Len(args') :
                           /\ script'[i].kind = "arg"
                           /\ args'[i] = script'[i].value
  BY DEF ReqInv
<1>2. script' = script
  BY ScriptUnchanged
<1>3. CASE ClientSends
  <2>1. dpc = "recv" /\ args' = args /\ put' = put + 1
    BY <1>1, <1>3 DEF ClientSends, daemon
  <2>2. script[put + 1] \in Message
    BY <1>0, <1>3, Lengths, ElementOfSeq DEF ClientSends, TypeOK
  <2>3. /\ Len(req') = Len(req) + 1 /\ req'[Len(req) + 1] = script[put + 1]
        /\ \A i \in 1 .. Len(req) : req'[i] = req[i]
    BY <1>3, <2>2, Sent DEF ClientSends, TypeOK
  <2>4. /\ Len(args) + Len(req) = put
        /\ \A i \in 1 .. Len(req) : req[i] = script[Len(args) + i]
        /\ \A i \in 1 .. Len(args) :
             script[i].kind = "arg" /\ args[i] = script[i].value
    BY <2>1 DEF ReqInv
  <2>5. \A i \in 1 .. Len(req') : req'[i] = script[Len(args) + i]
    <3>1. SUFFICES ASSUME NEW i \in 1 .. Len(req')
                   PROVE  req'[i] = script[Len(args) + i]
      OBVIOUS
    <3>2. CASE i \in 1 .. Len(req)
      BY <2>3, <2>4, <3>2
    <3>3. CASE i = Len(req) + 1
      <4>1. Len(args) + i = put + 1
        BY <1>0, <2>4, <3>3
      <4>2. QED
        BY <2>3, <3>3, <4>1
    <3>4. QED
      BY <1>0, <2>3, <3>1, <3>2, <3>3
  <2>6. Len(args') + Len(req') = put'
    <3>1. Len(args) + Len(req) = put /\ Len(req') = Len(req) + 1
      BY <2>3, <2>4
    <3>2. Len(args) \in Nat /\ Len(req) \in Nat
      BY <1>0
    <3>3. QED
      BY <2>1, <3>1, <3>2
  <2>7. QED
    BY <1>2, <2>1, <2>4, <2>5, <2>6
<1>4. CASE Client /\ ~ ClientSends
  <2>1. UNCHANGED <<dpc, args, req, put>>
    BY <1>4
    DEF Client, ClientStep, ClientSendFails, ClientSent, ClientArg, ClientFd,
        ClientNoRoom, ClientError, ClientEof, ClientEnds, daemon
  <2>2. QED
    BY <1>1, <1>2, <2>1 DEF ReqInv
<1>5. CASE Takes
  <2>1. /\ dpc = "recv" /\ req # <<>> /\ req' = Tail(req) /\ put' = put
    BY <1>5, TakesUnchanged DEF client
  <2>2. MintArg /\ args' = Append(args, Head(req).value)
    BY <1>1, <1>5
    DEF Takes, MintArg, MintBroken, MintDenied, MintNoPair, MintGranted
  <2>3. /\ Len(req') = Len(req) - 1 /\ Head(req) = req[1] /\ Len(req) >= 1
        /\ \A i \in 1 .. Len(req') : req'[i] = req[i + 1]
        /\ Head(req) \in Message
    BY <1>0, <2>1, Received DEF TypeOK
  <2>4. Head(req).kind = "arg" /\ Head(req).value # NULL
    BY <1>1, <2>2 DEF MintArg, Arrives
  <2>5. Head(req).value \in Word \union RequestTarget
    BY <2>3, <2>4 DEF Message, Value
  <2>6. /\ Len(args') = Len(args) + 1
        /\ args'[Len(args) + 1] = Head(req).value
        /\ \A i \in 1 .. Len(args) : args'[i] = args[i]
    BY <2>2, <2>5, AppendProperties DEF TypeOK
  <2>7. Head(req) = script[Len(args) + 1]
    BY <1>0, <2>1, <2>3 DEF ReqInv
  <2>8. /\ Len(args) + Len(req) = put
        /\ \A i \in 1 .. Len(req) : req[i] = script[Len(args) + i]
        /\ \A i \in 1 .. Len(args) :
             script[i].kind = "arg" /\ args[i] = script[i].value
    BY <2>1 DEF ReqInv
  <2>9. \A i \in 1 .. Len(req') : req'[i] = script[Len(args') + i]
    BY <1>0, <2>3, <2>6, <2>8
  <2>10. \A i \in 1 .. Len(args') :
           script[i].kind = "arg" /\ args'[i] = script[i].value
    BY <1>0, <2>4, <2>6, <2>7, <2>8
  <2>11. Len(args') + Len(req') = put'
    BY <1>0, <2>1, <2>3, <2>6, <2>8
  <2>12. QED
    BY <1>2, <2>9, <2>10, <2>11
<1>6. CASE Replies \/ Quiet
  BY <1>1, <1>6
  DEF Replies, Quiet, SendError, SendMethod, SendTarget, SendFd, Sends, MintEof,
      SendFails, DropTheirs, StreamFails, ServeNobody, ServeHolder, Crash
<1>7. CASE UNCHANGED vars
  BY <1>1, <1>7 DEF ReqInv, vars, client, daemon
<1>8. QED
  BY <1>3, <1>4, <1>5, <1>6, <1>7, NextParts

\* The two arguments that the daemon resolves are the client's first two.
LEMMA AskedIsScript ==
  ASSUME TypeOK, ReqInv, MintGranted
  PROVE  /\ script[1].kind = "arg" /\ script[2].kind = "arg"
         /\ script[3].kind = "end"
         /\ Asked = [method |-> script[1].value, target |-> script[2].value]
<1>1. /\ dpc = "recv" /\ req # <<>> /\ Head(req).kind = "end" /\ Len(args) = 2
  BY DEF MintGranted, Arrives
<1>2. Head(req) = req[1] /\ Len(req) \in Nat \ {0}
  BY <1>1, Received DEF TypeOK
<1>3. req[1] = script[3]
  BY <1>1, <1>2 DEF ReqInv
<1>4. QED
  BY <1>1, <1>2, <1>3 DEF ReqInv, Asked

LEMMA BoundStep ==
  ASSUME TypeOK, ReqInv, BoundInv, [Next]_vars
  PROVE  BoundInv'
<1>1. script' = script /\ endpoint' = endpoint
  BY ScriptUnchanged
<1>2. CASE MintGranted
  <2>1. dpc' = "send_method"
    BY <1>2 DEF MintGranted
  <2>2. minted' # NULL /\ Justified'
    BY <1>1, <1>2, Granted, AskedIsScript DEF Justified
  <2>3. QED
    BY <2>1, <2>2 DEF BoundInv
<1>3. CASE UNCHANGED <<minted, url>>
  <2>1. minted' # NULL => Justified'
    BY <1>1, <1>3 DEF BoundInv, Justified
  <2>2. CASE Client \/ UNCHANGED vars
    <3>1. dpc' = dpc
      BY <2>2, ClientUnchanged DEF daemon, vars
    <3>2. QED
      BY <1>3, <2>1, <3>1 DEF BoundInv
  <2>3. CASE (Takes /\ ~ MintGranted) \/ MintEof
    <3>1. dpc = "recv" /\ dpc' \in {"recv", "send_error", "no_pair"}
      BY <2>3, TakesUnchanged
      DEF Takes, MintArg, MintBroken, MintDenied, MintNoPair, MintEof
    <3>2. QED
      BY <1>3, <2>1, <3>1 DEF BoundInv
  <2>4. CASE Replies
    BY <1>3, <2>1, <2>4
    DEF Replies, SendError, SendMethod, SendTarget, SendFd, Sends, BoundInv
  <2>5. CASE Quiet /\ ~ MintEof
    BY <1>3, <2>1, <2>5
    DEF Quiet, SendFails, DropTheirs, StreamFails, ServeNobody, ServeHolder,
        Crash, BoundInv
  <2>6. CASE MintGranted
    BY <1>2, <2>6
  <2>7. QED
    BY <2>2, <2>3, <2>4, <2>5, <2>6, NextParts
<1>4. MintGranted \/ UNCHANGED <<minted, url>>
  BY NextParts, ClientUnchanged, RepliesUnchanged, QuietUnchanged
  DEF Takes, MintArg, MintBroken, MintDenied, MintNoPair, daemon, vars
<1>5. QED
  BY <1>2, <1>3, <1>4

\* What the client takes from the channel is the message that was due.
LEMMA NextReply ==
  ASSUME TypeOK, RepInv, cpc = "recv", rep # <<>>
  PROVE  /\ Awaiting
         /\ Len(rep) \in Nat \ {0} /\ Head(rep) = rep[1] /\ Reply(1)
         /\ Head(rep).kind = "arg" => minted # NULL /\ seen \in {0, 1}
         /\ Head(rep).kind = "arg" /\ seen = 0 =>
              Head(rep).value = minted.method
         /\ Head(rep).kind = "arg" /\ seen = 1 =>
              Head(rep).value = minted.target
         /\ Head(rep).kind = "fd" => minted # NULL /\ seen = 2
<1>1. Len(rep) \in Nat \ {0} /\ Head(rep) = rep[1] /\ seen \in Nat
  BY Received, Lengths DEF TypeOK
<1>2. Awaiting /\ Reply(1)
  BY <1>1 DEF RepInv, Awaiting
<1>3. QED
  BY <1>1, <1>2 DEF Reply

LEMMA RepClient ==
  ASSUME TypeOK, RepInv, Client
  PROVE  RepInv'
<1>1. SUFFICES ASSUME Awaiting' PROVE RepInv'
  BY DEF RepInv
<1>2. UNCHANGED <<minted, dpc>>
  BY ClientUnchanged DEF daemon
<1>3. CASE ClientArg
  <2>1. cpc = "recv" /\ rep # <<>> /\ Head(rep).kind = "arg" /\ rep' = Tail(rep)
    BY <1>3 DEF ClientArg, Receives
  <2>2. /\ Awaiting /\ Len(rep) \in Nat \ {0} /\ Head(rep) = rep[1]
        /\ seen \in {0, 1}
    BY <2>1, NextReply
  <2>3. seen' = seen + 1
    BY <1>3, <2>2 DEF ClientArg
  <2>4. /\ Len(rep') = Len(rep) - 1
        /\ \A i \in 1 .. Len(rep') : rep'[i] = rep[i + 1]
    BY <2>1, Received DEF TypeOK
  <2>5. \A i \in 1 .. Len(rep') : Reply(i)'
    <3>1. SUFFICES ASSUME NEW i \in 1 .. Len(rep') PROVE Reply(i)'
      OBVIOUS
    <3>2. i + 1 \in 1 .. Len(rep) /\ seen' + i = seen + (i + 1)
      BY <2>2, <2>3, <2>4
    <3>3. Reply(i + 1)
      BY <2>2, <3>2 DEF RepInv
    <3>4. QED
      BY <1>2, <2>4, <3>2, <3>3 DEF Reply
  <2>6. seen' + Len(rep') = seen + Len(rep)
    BY <2>2, <2>3, <2>4
  <2>7. rep[Len(rep)].kind # "arg" =>
          /\ Len(rep') > 0
          /\ rep'[Len(rep')] = rep[Len(rep)]
    BY <2>1, <2>2, <2>4
  <2>8. Counted
    BY <2>2 DEF RepInv
  <2>9. Counted'
    BY <1>2, <2>6, <2>7, <2>8 DEF Counted
  <2>10. QED
    BY <2>5, <2>9 DEF RepInv
<1>4. CASE ClientSends \/ ClientSent
  BY <1>2, <1>4 DEF ClientSends, ClientSent, RepInv, Counted, Reply, Awaiting
<1>5. CASE \/ ClientSendFails \/ ClientFd \/ ClientNoRoom
           \/ ClientError \/ ClientEof \/ ClientEnds
  BY <1>1, <1>5
  DEF ClientSendFails, ClientFd, ClientNoRoom, ClientError, ClientEof,
      ClientEnds, Awaiting
<1>6. QED
  BY <1>3, <1>4, <1>5 DEF Client, ClientStep

\* A message is appended where it is due.
LEMMA RepReplies ==
  ASSUME TypeOK, BoundInv, RepInv, Replies
  PROVE  RepInv'
<1>1. SUFFICES ASSUME Awaiting' PROVE RepInv'
  BY DEF RepInv
<1>2. Awaiting /\ UNCHANGED <<seen, minted>>
  BY <1>1, RepliesUnchanged DEF Awaiting, client
<1>3. Len(rep) \in Nat /\ seen \in Nat
  BY Lengths
<1>. PICK due \in Nat : due = Len(rep) + 1
  BY <1>3
<1>4. PICK m \in Message : rep' = Append(rep, m)
  BY SendsType DEF Replies
<1>5. /\ Len(rep') = Len(rep) + 1 /\ rep'[due] = m
      /\ \A i \in 1 .. Len(rep) : rep'[i] = rep[i]
  BY <1>4, Sent DEF TypeOK
<1>6. \A i \in 1 .. Len(rep) : Reply(i)'
  BY <1>2, <1>5 DEF RepInv, Reply
<1>7. Counted
  BY <1>2 DEF RepInv
<1>8. ASSUME Reply(due)'
      PROVE  \A i \in 1 .. Len(rep') : Reply(i)'
  <2>1. \A i \in 1 .. Len(rep') : i \in 1 .. Len(rep) \/ i = due
    BY <1>3, <1>5
  <2>2. QED
    BY <1>6, <1>8, <2>1
<1>9. /\ seen' + Len(rep') = seen + Len(rep) + 1
      /\ Len(rep') > 0 /\ rep'[Len(rep')] = m
  BY <1>2, <1>3, <1>5
<1>10. /\ SendError => rep' = Append(rep, error)
       /\ SendMethod => rep' = Append(rep, arg(minted.method))
       /\ SendTarget => rep' = Append(rep, arg(minted.target))
       /\ SendFd => rep' = Append(rep, fds)
  BY DEF SendError, SendMethod, SendTarget, SendFd, Sends
<1>11. \A n \in Message : rep' = Append(rep, n) => m = n
  BY <1>3, <1>5, Sent DEF TypeOK
<1>12. CASE SendError
  <2>1. dpc' = "returned" /\ m = error
    BY <1>10, <1>11, <1>12, MessageType DEF SendError, Sends
  <2>2. Reply(due)'
    BY <1>5, <2>1 DEF Reply, error
  <2>3. Counted'
    BY <1>9, <2>1 DEF Counted, error
  <2>4. QED
    BY <1>8, <2>2, <2>3 DEF RepInv
<1>13. CASE SendMethod \/ SendTarget
  <2>1. minted \in Request /\ minted # NULL
    BY <1>13 DEF SendMethod, SendTarget, BoundInv, TypeOK
  <2>2. arg(minted.method) \in Message /\ arg(minted.target) \in Message
    BY <2>1, MessageType DEF Request, Value
  <2>3. CASE SendMethod
    <3>1. /\ dpc = "send_method" /\ dpc' = "send_target"
          /\ m = arg(minted.method)
      BY <1>10, <1>11, <2>2, <2>3 DEF SendMethod, Sends
    <3>2. seen + Len(rep) = 0
      BY <1>7, <3>1 DEF Counted
    <3>3. Reply(due)'
      BY <1>2, <1>3, <1>5, <2>1, <3>1, <3>2 DEF Reply, arg
    <3>4. Counted'
      BY <1>3, <1>9, <3>1, <3>2 DEF Counted
    <3>5. QED
      BY <1>8, <3>3, <3>4 DEF RepInv
  <2>4. CASE SendTarget
    <3>1. /\ dpc = "send_target" /\ dpc' = "send_fd"
          /\ m = arg(minted.target)
      BY <1>10, <1>11, <2>2, <2>4 DEF SendTarget, Sends
    <3>2. seen + Len(rep) = 1
      BY <1>7, <3>1 DEF Counted
    <3>3. Reply(due)'
      BY <1>2, <1>3, <1>5, <2>1, <3>1, <3>2 DEF Reply, arg
    <3>4. Counted'
      BY <1>3, <1>9, <3>1, <3>2 DEF Counted
    <3>5. QED
      BY <1>8, <3>3, <3>4 DEF RepInv
  <2>5. QED
    BY <1>13, <2>3, <2>4
<1>14. CASE SendFd
  <2>1. /\ dpc = "send_fd" /\ dpc' = "drop" /\ minted # NULL /\ m = fds
    BY <1>10, <1>11, <1>14, MessageType DEF SendFd, Sends, BoundInv
  <2>2. seen + Len(rep) = 2
    BY <1>7, <2>1 DEF Counted
  <2>3. Reply(due)'
    BY <1>2, <1>3, <1>5, <2>1, <2>2 DEF Reply, fds
  <2>4. Counted'
    BY <1>3, <1>9, <2>1, <2>2 DEF Counted, fds
  <2>5. QED
    BY <1>8, <2>3, <2>4 DEF RepInv
<1>15. QED
  BY <1>12, <1>13, <1>14 DEF Replies

LEMMA RepStep ==
  ASSUME TypeOK, BoundInv, RepInv, [Next]_vars
  PROVE  RepInv'
<1>1. SUFFICES ASSUME Awaiting' PROVE RepInv'
  BY DEF RepInv
<1>2. Len(rep) \in Nat /\ seen \in Nat
  BY Lengths
<1>3. CASE Takes
  <2>1. dpc = "recv" /\ Awaiting /\ UNCHANGED <<rep, seen>>
    BY <1>1, <1>3, TakesUnchanged DEF Awaiting, client
  <2>2. dpc' \in {"recv", "send_error", "send_method", "no_pair"}
    BY <1>3, <2>1
    DEF Takes, MintArg, MintBroken, MintDenied, MintNoPair, MintGranted
  <2>3. seen + Len(rep) = 0 /\ Len(rep) = 0
    BY <1>2, <2>1 DEF RepInv, Counted
  <2>4. Counted'
    BY <2>1, <2>2, <2>3 DEF Counted
  <2>5. QED
    BY <2>1, <2>3, <2>4 DEF RepInv
<1>4. CASE Quiet
  <2>1. Awaiting /\ ~ Gone /\ UNCHANGED <<cpc, rep, seen, minted, held>>
    BY <1>1, <1>4, QuietUnchanged DEF Awaiting, Gone, client
  <2>2. Counted /\ \A i \in 1 .. Len(rep) : Reply(i)'
    BY <2>1 DEF RepInv, Reply
  <2>3. CASE Crash
    BY <2>2, <2>1, <2>3 DEF Crash, RepInv, Counted
  <2>4. CASE DropTheirs
    BY <2>2, <2>1, <2>4 DEF DropTheirs, RepInv, Counted
  <2>5. CASE StreamFails
    BY <2>2, <2>1, <2>5 DEF StreamFails, RepInv, Counted
  <2>6. CASE ServeHolder
    BY <2>1, <2>6 DEF ServeHolder, TypeOK, Awaiting
  <2>7. CASE ServeNobody
    <3>1. dpc = "serving" /\ ~ InFlight
      BY <2>7 DEF ServeNobody, Referenced
    <3>2. Len(rep) > 0 /\ rep[Len(rep)].kind = "fd"
      BY <2>2, <3>1 DEF Counted
    <3>3. QED
      BY <1>2, <3>1, <3>2 DEF InFlight
  <2>8. CASE MintEof \/ SendFails
    BY <2>1, <2>8 DEF MintEof, SendFails
  <2>9. QED
    BY <1>4, <2>3, <2>4, <2>5, <2>6, <2>7, <2>8 DEF Quiet
<1>5. CASE UNCHANGED vars
  BY <1>5 DEF vars, client, daemon, RepInv, Counted, Reply, Awaiting
<1>6. QED
  BY <1>3, <1>4, <1>5, RepClient, RepReplies, NextParts

LEMMA SeenStep ==
  ASSUME TypeOK, BoundInv, RepInv, SeenInv, [Next]_vars
  PROVE  SeenInv'
<1>1. CASE ClientArg
  <2>1. /\ cpc = "recv" /\ rep # <<>> /\ Head(rep).kind = "arg"
        /\ UNCHANGED <<minted, held>>
    BY <1>1 DEF ClientArg, Receives, daemon
  <2>2. /\ Awaiting /\ minted # NULL /\ seen \in {0, 1}
        /\ seen = 0 => Head(rep).value = minted.method
        /\ seen = 1 => Head(rep).value = minted.target
    BY <2>1, NextReply
  <2>3. /\ seen' = seen + 1 /\ cpc' = "recv"
        /\ reported' = IF seen = 0
                         THEN [reported EXCEPT !.method = Head(rep).value]
                         ELSE [reported EXCEPT !.target = Head(rep).value]
    BY <1>1, <2>1, <2>2 DEF ClientArg
  <2>4. reported \in [method : Value, target : Value]
    BY DEF TypeOK
  <2>5. CASE seen = 0
    <3>1. seen' = 1 /\ reported'.method = minted.method
      BY <2>2, <2>3, <2>4, <2>5
    <3>2. QED
      BY <2>1, <2>2, <2>3, <3>1 DEF SeenInv
  <2>6. CASE seen = 1
    <3>1. reported.method = minted.method
      BY <2>2, <2>6 DEF SeenInv
    <3>2. reported'.method = minted.method /\ reported'.target = minted.target
      BY <2>2, <2>3, <2>4, <2>6, <3>1
    <3>3. QED
      BY <2>1, <2>2, <2>3, <3>2 DEF SeenInv
  <2>7. QED
    BY <2>2, <2>5, <2>6
<1>2. CASE ClientFd \/ ClientNoRoom
  <2>1. /\ cpc = "recv" /\ rep # <<>> /\ Head(rep).kind = "fd"
        /\ cpc' \in {"minted", "no_room"} /\ UNCHANGED <<minted, reported>>
    BY <1>2 DEF ClientFd, ClientNoRoom, Receives, daemon
  <2>2. minted # NULL /\ seen = 2 /\ Awaiting
    BY <2>1, NextReply
  <2>3. reported.method = minted.method /\ reported.target = minted.target
    BY <2>2 DEF SeenInv
  <2>4. /\ reported \in [method : Value, target : Value]
        /\ minted \in [method : Word, target : RequestTarget]
    BY <2>2 DEF TypeOK, Request
  <2>5. reported = minted
    BY <2>3, <2>4
  <2>6. QED
    BY <2>1, <2>2, <2>5 DEF SeenInv, Awaiting
<1>3. CASE Client /\ ~ (ClientArg \/ ClientFd \/ ClientNoRoom)
  <2>1. /\ UNCHANGED <<minted, reported, seen>>
        /\ Awaiting' => Awaiting
        /\ cpc' \notin {"minted", "no_room"}
    BY <1>3, ClientUnchanged
    DEF Client, ClientStep, ClientSends, ClientSendFails, ClientSent,
        ClientError, ClientEof, ClientEnds, Receives, Awaiting, daemon
  <2>2. QED
    BY <2>1 DEF SeenInv
<1>4. CASE Takes
  <2>1. /\ dpc = "recv" /\ UNCHANGED <<cpc, seen, reported>>
    BY <1>4, TakesUnchanged DEF client
  <2>2. minted = NULL
    BY <2>1 DEF BoundInv
  <2>3. Awaiting => seen = 0
    BY <2>1, Lengths DEF RepInv, Counted
  <2>4. cpc \notin {"minted", "no_room"}
    BY <2>2 DEF SeenInv
  <2>5. QED
    BY <2>1, <2>3, <2>4 DEF SeenInv, Awaiting
<1>5. CASE Replies \/ Quiet \/ UNCHANGED vars
  <2>1. UNCHANGED <<cpc, seen, reported, minted>>
    BY <1>5, RepliesUnchanged, QuietUnchanged DEF client, daemon, vars
  <2>2. QED
    BY <2>1 DEF SeenInv, Awaiting
<1>6. QED
  BY <1>1, <1>2, <1>3, <1>4, <1>5, NextParts

\* A proper mint is read to its end before anything else is said of it.
LEMMA ProperTakes ==
  ASSUME TypeOK, ReqInv, Mints, Takes, put < 3
  PROVE  dpc' = "recv"
<1>1. /\ dpc = "recv" /\ req # <<>> /\ Len(args) \in Nat /\ put \in Nat
      /\ Len(req) \in Nat \ {0} /\ Head(req) = req[1]
  BY TakesUnchanged, Lengths, Received DEF TypeOK
<1>2. Len(args) + Len(req) = put /\ req[1] = script[Len(args) + 1]
  <2>1. 1 \in 1 .. Len(req)
    BY <1>1
  <2>2. QED
    BY <1>1, <2>1 DEF ReqInv
<1>3. Len(args) = 0 \/ Len(args) = 1
  <2>1. \A l, r, p \in Nat : l + r = p /\ p < 3 /\ r # 0 => l = 0 \/ l = 1
    OBVIOUS
  <2>2. QED
    BY <1>1, <1>2, <2>1
<1>4. PICK asked \in Request : script = MintScript(asked)
  BY MintAssumption DEF Mints
<1>5. /\ asked.method # NULL /\ asked.target # NULL
  BY ResolveAssumption DEF Request
<1>6. script[1] = arg(asked.method) /\ script[2] = arg(asked.target)
  BY <1>4, ScriptType
<1>7. Head(req) = arg(asked.method) \/ Head(req) = arg(asked.target)
  <2>1. CASE Len(args) = 0
    BY <1>1, <1>2, <1>6, <2>1
  <2>2. CASE Len(args) = 1
    BY <1>1, <1>2, <1>6, <2>2
  <2>3. QED
    BY <1>3, <2>1, <2>2
<1>8. Head(req).kind = "arg" /\ Head(req).value # NULL
  BY <1>5, <1>7 DEF arg
<1>9. MintArg
  BY <1>8 DEF Takes, MintBroken, MintDenied, MintNoPair, MintGranted, Arrives
<1>10. Len(args) < 2
  BY <1>3
<1>11. QED
  BY <1>1, <1>8, <1>9, <1>10 DEF MintArg

LEMMA ProperStep ==
  ASSUME TypeOK, ReqInv, RepInv, ProperInv, [Next]_vars
  PROVE  ProperInv'
<1>1. SUFFICES ASSUME Mints
               PROVE  /\ cpc' = "send" /\ put' < 3 =>
                           dpc' \in {"recv", "crashed"}
                      /\ cpc' = "err" => dpc' \in {"crashed", "no_pair"}
  BY ScriptUnchanged DEF ProperInv, Mints
<1>2. /\ cpc = "send" /\ put < 3 => dpc \in {"recv", "crashed"}
      /\ cpc = "err" => dpc \in {"crashed", "no_pair"}
  BY <1>1 DEF ProperInv
<1>3. Len(script) = 3 /\ put \in Nat
  BY <1>1, MintAssumption, ScriptType, Lengths DEF Mints
<1>4. CASE Client
  <2>1. dpc' = dpc
    BY <1>4, ClientUnchanged DEF daemon
  <2>2. CASE ClientSends
    BY <1>2, <1>3, <2>1, <2>2 DEF ClientSends
  <2>3. CASE ClientSendFails
    BY <1>2, <1>3, <2>1, <2>3 DEF ClientSendFails, Over
  <2>4. CASE ClientArg
    <3>1. cpc = "recv" /\ rep # <<>> /\ Head(rep).kind = "arg"
      BY <2>4 DEF ClientArg, Receives
    <3>2. seen \in {0, 1}
      BY <3>1, NextReply
    <3>3. QED
      BY <2>4, <3>1, <3>2 DEF ClientArg
  <2>5. CASE ClientEof
    <3>1. cpc = "recv" /\ rep = <<>> /\ Over /\ Len(rep) = 0
      BY <2>5, EmptySeq DEF ClientEof
    <3>2. dpc # "returned"
      BY <3>1 DEF RepInv, Counted, Awaiting
    <3>3. QED
      BY <2>1, <2>5, <3>1, <3>2 DEF ClientEof, Over
  <2>6. CASE \/ ClientSent \/ ClientFd \/ ClientNoRoom
             \/ ClientError \/ ClientEnds
    BY <2>6 DEF ClientSent, ClientFd, ClientNoRoom, ClientError, ClientEnds
  <2>7. QED
    BY <1>4, <2>2, <2>3, <2>4, <2>5, <2>6 DEF Client, ClientStep
<1>5. CASE Takes
  <2>1. dpc = "recv" /\ UNCHANGED <<cpc, put>>
    BY <1>5, TakesUnchanged DEF client
  <2>2. cpc # "err"
    BY <1>2, <2>1
  <2>3. put < 3 => dpc' = "recv"
    BY <1>1, <1>5, ProperTakes
  <2>4. QED
    BY <2>1, <2>2, <2>3
<1>6. CASE Replies
  <2>1. /\ dpc \in {"send_error", "send_method", "send_target", "send_fd"}
        /\ UNCHANGED <<cpc, put>>
    BY <1>6, RepliesUnchanged
    DEF Replies, SendError, SendMethod, SendTarget, SendFd, client
  <2>2. QED
    BY <1>2, <2>1
<1>7. CASE Quiet
  <2>1. UNCHANGED <<cpc, put>>
    BY <1>7, QuietUnchanged DEF client
  <2>2. CASE MintEof \/ SendFails
    BY <2>1, <2>2 DEF MintEof, SendFails, Gone
  <2>3. CASE Crash
    BY <2>3 DEF Crash
  <2>4. CASE DropTheirs \/ StreamFails \/ ServeNobody \/ ServeHolder
    BY <1>2, <2>1, <2>4 DEF DropTheirs, StreamFails, ServeNobody, ServeHolder
  <2>5. QED
    BY <1>7, <2>2, <2>3, <2>4 DEF Quiet
<1>8. CASE UNCHANGED vars
  BY <1>2, <1>8 DEF vars, client, daemon
<1>9. QED
  BY <1>4, <1>5, <1>6, <1>7, <1>8, NextParts

LEMMA TypeStep ==
  ASSUME TypeOK, BoundInv, [Next]_vars
  PROVE  TypeOK'
<1>1. CASE UNCHANGED vars
  <2>1. TypeChannel' /\ TypeBound' /\ TypeControl' /\ TypeReport'
    BY <1>1, TypeParts
    DEF vars, client, daemon, TypeChannel, TypeBound, TypeControl, TypeReport
  <2>2. QED
    BY <2>1, TypeParts
<1>2. CASE ClientStep \/ ClientEnds
  BY <1>2, ClientType
<1>3. CASE ServeStep \/ ServeHolder \/ Crash
  BY <1>3, DaemonType
<1>4. QED
  BY <1>1, <1>2, <1>3 DEF Next, Finished

LEMMA Inductive == IInv /\ [Next]_vars => IInv'
<1>1. SUFFICES ASSUME IInv, [Next]_vars PROVE IInv'
  OBVIOUS
<1>2. TypeOK /\ ReqInv /\ BoundInv /\ RepInv /\ SeenInv /\ ProperInv
  BY <1>1, Zenon DEF IInv
<1>3. TypeOK' /\ ReqInv'
  BY <1>1, <1>2, TypeStep, ReqStep
<1>4. BoundInv' /\ RepInv'
  BY <1>1, <1>2, BoundStep, RepStep
<1>5. SeenInv' /\ ProperInv'
  BY <1>1, <1>2, SeenStep, ProperStep
<1>6. QED
  BY <1>3, <1>4, <1>5, Zenon DEF IInv

LEMMA Invariant == Spec => []IInv
BY InitInv, Inductive, PTL DEF Spec

-----------------------------------------------------------------------------
(***************************************************************************)
(* The walk of the URL parser over a path without dots.                    *)
(***************************************************************************)
Slash(parts, i) == IF i = Len(parts) THEN <<"">> ELSE <<>>

\* What part i does to the path walked up to it.
LEMMA WalkCases ==
  ASSUME NEW parts, NEW i, NEW w
  PROVE  /\ parts[i] \notin {".", ".."} =>
              walk(parts, i, w) = Append(w, parts[i])
         /\ parts[i] = "." => walk(parts, i, w) = w \o Slash(parts, i)
         /\ parts[i] = ".." => walk(parts, i, w) = up(w) \o Slash(parts, i)
BY Zenon DEF walk, Slash

\* The path above is no longer.
LEMMA UpFacts ==
  ASSUME NEW w \in Seq(Part)
  PROVE  up(w) \in Seq(Part) /\ Len(up(w)) <= Len(w)
<1>1. CASE w = <<>>
  BY <1>1 DEF up
<1>2. CASE w # <<>>
  BY <1>2, FrontFacts DEF up
<1>3. QED
  BY <1>1, <1>2

\* Only the last part leaves a slash behind.
LEMMA SlashFacts ==
  ASSUME NEW parts, NEW i
  PROVE  /\ Slash(parts, i) \in Seq(Part) /\ Len(Slash(parts, i)) \in {0, 1}
         /\ i # Len(parts) => Len(Slash(parts, i)) = 0
<1>1. "" \in Part
  BY DEF Part
<1>2. /\ <<"">> \in Seq(Part) /\ Len(<<"">>) = 1
      /\ <<>> \in Seq(Part) /\ Len(<<>>) = 0
  BY <1>1, One, EmptySeq, Zenon
<1>3. QED
  BY <1>2 DEF Slash

\* A part adds one to what is walked, at most; dots but the last add nothing.
LEMMA WalkFacts ==
  ASSUME NEW parts \in Seq(Part), NEW i \in 1 .. Len(parts),
         NEW w \in Seq(Part)
  PROVE  /\ walk(parts, i, w) \in Seq(Part)
         /\ Len(walk(parts, i, w)) <= Len(w) + 1
         /\ parts[i] \in {".", ".."} /\ i # Len(parts) =>
              Len(walk(parts, i, w)) <= Len(w)
<1> DEFINE s == Slash(parts, i)
<1>1. /\ s \in Seq(Part) /\ Len(s) \in {0, 1} /\ Len(w) \in Nat
      /\ i # Len(parts) => Len(s) = 0
  BY SlashFacts
<1>2. CASE parts[i] \notin {".", ".."}
  BY <1>2, WalkCases, AppendProperties
<1>3. ASSUME NEW v \in Seq(Part), Len(v) <= Len(w), parts[i] \in {".", ".."},
             walk(parts, i, w) = v \o s
      PROVE  /\ walk(parts, i, w) \in Seq(Part)
             /\ Len(walk(parts, i, w)) <= Len(w) + 1
             /\ i # Len(parts) => Len(walk(parts, i, w)) <= Len(w)
  <2>1. v \o s \in Seq(Part) /\ Len(v \o s) = Len(v) + Len(s)
    BY <1>1, ConcatProperties, Zenon
  <2>2. Len(v) \in Nat /\ Len(v) <= Len(w) /\ walk(parts, i, w) = v \o s
    BY <1>3
  <2>3. Len(v) + Len(s) <= Len(w) + 1
    <3>1. /\ Len(v) \in Nat /\ Len(w) \in Nat /\ Len(v) <= Len(w)
      BY <1>1, <2>2
    <3>2. Len(s) \in {0, 1}
      BY <1>1
    <3>3. CASE Len(s) = 0
      BY <3>1, <3>3
    <3>4. CASE Len(s) = 1
      BY <3>1, <3>4
    <3>5. QED
      BY <3>2, <3>3, <3>4
  <2>4. i # Len(parts) => Len(v) + Len(s) <= Len(w)
    BY <1>1, <2>2
  <2>5. QED
    BY <2>1, <2>2, <2>3, <2>4
<1>4. CASE parts[i] = "."
  <2>1. walk(parts, i, w) = w \o s /\ Len(w) <= Len(w)
    BY <1>1, <1>4, WalkCases
  <2>2. QED
    BY <1>3, <1>4, <2>1
<1>5. CASE parts[i] = ".."
  <2>1. /\ walk(parts, i, w) = up(w) \o s
        /\ up(w) \in Seq(Part) /\ Len(up(w)) <= Len(w)
    BY <1>5, UpFacts, WalkCases
  <2>2. QED
    BY <1>3, <1>5, <2>1
<1>6. QED
  BY <1>2, <1>3, <1>4, <1>5

\* The path after every part.
Walks(parts, w) ==
  w = [i \in 0 .. Len(parts) |->
         IF i = 0 THEN <<>> ELSE walk(parts, i, w[i - 1])]

\* There are such walks, and Parsed is the end of one.
LEMMA Walking ==
  ASSUME NEW parts \in Seq(Part)
  PROVE  \E w \in [0 .. Len(parts) -> Seq(Part)] :
           /\ w[0] = <<>>
           /\ \A i \in 1 .. Len(parts) : w[i] = walk(parts, i, w[i - 1])
           /\ Parsed(parts) = w[Len(parts)]
<1> DEFINE n == Len(parts)
           step == [i \in 1 .. n |-> [w \in Seq(Part) |-> walk(parts, i, w)]]
           w == CHOOSE v : Walks(parts, v)
<1>1. n \in Nat /\ <<>> \in Seq(Part) /\ step \in Steps(n, Seq(Part))
  BY WalkFacts, LenProperties DEF Steps
<1>2. PICK f \in [0 .. n -> Seq(Part)] :
        f[0] = <<>> /\ \A i \in 1 .. n : f[i] = step[i][f[i - 1]]
  <2> HIDE DEF n, step
  <2>1. \E f \in Values(n, Seq(Part)) : Follows(f, n, <<>>, step)
    BY <1>1, Recursion, Zenon
  <2>2. QED
    BY <2>1 DEF Values, Follows
<1>3. \A i \in 1 .. n : step[i][f[i - 1]] = walk(parts, i, f[i - 1])
  <2>1. ASSUME NEW i \in 1 .. n PROVE f[i - 1] \in Seq(Part)
    <3>1. i - 1 \in 0 .. n
      BY <1>1
    <3>2. QED
      BY <3>1
  <2>2. QED
    BY <2>1
<1>4. Walks(parts, f)
  <2> HIDE DEF step
  <2> QED
    BY <1>1, <1>2, <1>3 DEF Walks
<1>5. Walks(parts, w)
  BY <1>4, Zenon
<1>5a. Parsed(parts) = w[Len(parts)]
  BY Zenon DEF Parsed, Walks
<1> HIDE DEF w
<1>6. w \in [0 .. n -> Seq(Part)]
  <2> DEFINE S == {i \in 0 .. n : w[i] \in Seq(Part)}
  <2>1. 0 \in S
    BY <1>1, <1>5 DEF Walks
  <2>2. ASSUME NEW i \in 0 .. n - 1, i \in S PROVE i + 1 \in S
    <3>1. i + 1 \in 1 .. n /\ i + 1 \in 0 .. n /\ (i + 1) - 1 = i
      BY <1>1
    <3>2. w[i + 1] = walk(parts, i + 1, w[i])
      BY <1>5, <3>1 DEF Walks
    <3>3. QED
      BY <2>2, <3>1, <3>2, WalkFacts
  <2>3. 0 .. n \subseteq S
    <3> HIDE DEF S
    <3> QED
      BY <1>1, <2>1, <2>2, UpTo
  <2>4. QED
    BY <1>5, <2>3 DEF Walks
<1>7. /\ w[0] = <<>>
      /\ \A i \in 1 .. Len(parts) : w[i] = walk(parts, i, w[i - 1])
  <2>1. \A i \in 0 .. n :
          w[i] = IF i = 0 THEN <<>> ELSE walk(parts, i, w[i - 1])
    BY <1>5 DEF Walks
  <2>2. \A i \in 1 .. n : i \in 0 .. n /\ i # 0
    BY <1>1
  <2>3. 0 \in 0 .. n
    BY <1>1
  <2>4. QED
    BY <2>1, <2>2, <2>3
<1>8. QED
  BY <1>5a, <1>6, <1>7

\* A path without dots is walked as it is written.
LEMMA NoDots ==
  ASSUME NEW parts \in Seq(Part),
         \A i \in 1 .. Len(parts) : parts[i] \notin {".", ".."}
  PROVE  Parsed(parts) = parts
<1> DEFINE n == Len(parts)
<1>1. n \in Nat
  BY LenProperties
<1>2. PICK w \in [0 .. Len(parts) -> Seq(Part)] :
        /\ w[0] = <<>>
        /\ \A i \in 1 .. Len(parts) : w[i] = walk(parts, i, w[i - 1])
        /\ Parsed(parts) = w[Len(parts)]
  BY Walking
<1> DEFINE S == {i \in 0 .. n : /\ Len(w[i]) = i
                                /\ \A j \in 1 .. i : w[i][j] = parts[j]}
<1>3. 0 \in S
  BY <1>1, <1>2
<1>4. ASSUME NEW i \in 0 .. n - 1, i \in S PROVE i + 1 \in S
  <2>1. i + 1 \in 1 .. n /\ i + 1 \in 0 .. n /\ (i + 1) - 1 = i /\ i \in Nat
    BY <1>1
  <2>2. w[i + 1] = Append(w[i], parts[i + 1])
    BY <1>2, <2>1, WalkCases
  <2>3. w[i] \in Seq(Part) /\ parts[i + 1] \in Part
    BY <1>2, <2>1, ElementOfSeq
  <2>4. Len(w[i]) = i /\ \A j \in 1 .. i : w[i][j] = parts[j]
    BY <1>4
  <2>5. /\ Len(w[i + 1]) = i + 1 /\ w[i + 1][i + 1] = parts[i + 1]
        /\ \A j \in 1 .. i : w[i + 1][j] = w[i][j]
    BY <2>2, <2>3, <2>4, AppendProperties
  <2>6. \A j \in 1 .. i + 1 : j \in 1 .. i \/ j = i + 1
    BY <2>1
  <2>7. QED
    BY <2>1, <2>4, <2>5, <2>6
<1>5. n \in S
  <2> HIDE DEF S, n
  <2>1. 0 .. n \subseteq S
    BY <1>1, <1>3, <1>4, UpTo
  <2>2. QED
    BY <1>1, <2>1
<1>6. w[n] \in Seq(Part)
  BY <1>1, <1>2
<1>7. w[n] = parts
  BY <1>5, <1>6, SeqEqual
<1>8. QED
  BY <1>2, <1>7

\* A path that the walk leaves as it is has no dots.
LEMMA DotsGo ==
  ASSUME NEW parts \in Seq(Part), Parsed(parts) = parts,
         NEW j \in 1 .. Len(parts)
  PROVE  parts[j] \notin {".", ".."}
<1> SUFFICES ASSUME parts[j] \in {".", ".."} PROVE FALSE
  OBVIOUS
<1> DEFINE n == Len(parts)
<1>1. n \in Nat \ {0} /\ j \in 1 .. n /\ n \in 1 .. n
  BY LenProperties
<1>2. PICK w \in [0 .. Len(parts) -> Seq(Part)] :
        /\ w[0] = <<>>
        /\ \A i \in 1 .. Len(parts) : w[i] = walk(parts, i, w[i - 1])
        /\ Parsed(parts) = w[Len(parts)]
  BY Walking
<1>3. \A i \in 0 .. n : w[i] \in Seq(Part) /\ Len(w[i]) \in Nat
  BY <1>2, LenProperties
<1>4. CASE j = n
  <2>1. n - 1 \in 0 .. n
    BY <1>1
  <2> DEFINE q == <<"">>
  <2>2. "" \in Part
    BY DEF Part
  <2>3. q \in Seq(Part) /\ Len(q) = 1 /\ q[1] = ""
    BY <2>2, One
  <2>4. Slash(parts, n) = q /\ parts = walk(parts, n, w[n - 1])
    BY <1>1, <1>2 DEF Slash
  <2> HIDE DEF q
  <2>5. PICK v \in Seq(Part) : parts = v \o q
    <3>1. CASE parts[n] = "."
      <4>1. parts = w[n - 1] \o q
        BY <2>4, <3>1, WalkCases, Zenon
      <4>2. QED
        BY <1>3, <2>1, <4>1
    <3>2. CASE parts[n] = ".."
      <4>1. parts = up(w[n - 1]) \o q
        BY <2>4, <3>2, WalkCases, Zenon
      <4>2. QED
        BY <1>3, <2>1, <4>1, UpFacts
    <3>3. QED
      BY <1>4, <3>1, <3>2
  <2>6. /\ Len(v \o q) = Len(v) + Len(q)
        /\ \A i \in 1 .. Len(v) + Len(q) :
             (v \o q)[i] = IF i <= Len(v) THEN v[i] ELSE q[i - Len(v)]
    BY <2>3, ConcatProperties, Zenon
  <2>7. n = Len(v) + 1 /\ Len(v) \in Nat
    BY <2>3, <2>5, <2>6, LenProperties
  <2>8. n \in 1 .. Len(v) + Len(q) /\ ~ (n <= Len(v)) /\ n - Len(v) = 1
    <3>1. Len(q) = 1
      BY <2>3
    <3>2. ASSUME NEW m, NEW k \in Nat, m = k + 1
          PROVE  m \in 1 .. k + 1 /\ ~ (m <= k) /\ m - k = 1
      BY <3>2
    <3>3. QED
      BY <2>7, <3>1, <3>2
  <2>9. parts[n] = q[1]
    BY <2>5, <2>6, <2>8
  <2>10. QED
    BY <1>4, <2>3, <2>9
<1>5. CASE j # n
  <2> DEFINE S == {i \in 0 .. n : /\ Len(w[i]) <= i
                                  /\ i >= j => Len(w[i]) <= i - 1}
  <2>1. 0 \in S
    BY <1>1, <1>2
  <2>2. ASSUME NEW i \in 0 .. n - 1, i \in S PROVE i + 1 \in S
    <3>1. i + 1 \in 1 .. n /\ i + 1 \in 0 .. n /\ (i + 1) - 1 = i /\ i \in Nat
          /\ i \in 0 .. n
      BY <1>1
    <3>2. w[i + 1] = walk(parts, i + 1, w[i])
      BY <1>2, <3>1
    <3>3. /\ Len(w[i + 1]) <= Len(w[i]) + 1
          /\ i + 1 = j => Len(w[i + 1]) <= Len(w[i])
      BY <1>3, <1>5, <3>1, <3>2, WalkFacts
    <3>4. Len(w[i + 1]) \in Nat /\ Len(w[i]) \in Nat
      BY <1>3, <3>1
    <3>5. Len(w[i]) <= i /\ (i >= j => Len(w[i]) <= i - 1)
      BY <2>2
    <3>6. Len(w[i + 1]) <= i + 1
      BY <3>1, <3>3, <3>4, <3>5
    <3>7. i + 1 >= j => Len(w[i + 1]) <= (i + 1) - 1
      <4>1. CASE i + 1 = j
        BY <3>1, <3>3, <3>4, <3>5, <4>1
      <4>2. CASE i >= j
        BY <3>1, <3>3, <3>4, <3>5, <4>2
      <4>3. QED
        BY <1>1, <3>1, <4>1, <4>2
    <3>8. QED
      BY <3>1, <3>6, <3>7
  <2>3. n \in S
    <3> HIDE DEF S, n
    <3>1. n \in Nat
      BY <1>1
    <3>2. 0 .. n \subseteq S
      BY <2>1, <2>2, <3>1, UpTo
    <3>3. QED
      BY <3>1, <3>2
  <2>4. Len(w[n]) <= n - 1
    BY <1>1, <2>3
  <2>5. QED
    BY <1>1, <1>2, <2>4
<1>6. QED
  BY <1>4, <1>5

\* What normalize_target accepts, encoded separators refused: segments of one
\* part each, none of them a dot.
LEMMA Checked ==
  ASSUME NEW target \in RequestTarget, normalizes(target, FALSE)
  PROVE  /\ target.path \in Seq(Seq(Part)) /\ target.path # <<>>
         /\ \A i \in 1 .. Len(target.path) :
              /\ Len(target.path[i]) = 1
              /\ target.path[i][1] \notin {".", ".."}
<1> DEFINE path == target.path
<1>1. path \in Seq(Seq(Part) \ {<<>>}) /\ path # <<>>
  BY DEF RequestTarget
<1>2. \A i \in DOMAIN path :
        \/ path[i] = seg("")
        \/ path[i] \notin {seg("."), seg("..")} /\ ~ Separated(path[i])
  BY DEF normalizes, check_path
<1> HIDE DEF path
<1>3. Seq(Seq(Part) \ {<<>>}) \subseteq Seq(Seq(Part))
  OBVIOUS
<1>4. ASSUME NEW i \in 1 .. Len(path)
      PROVE  Len(path[i]) = 1 /\ path[i][1] \notin {".", ".."}
  <2> DEFINE s == path[i]
  <2>1. s \in Seq(Part) /\ s # <<>> /\ i \in DOMAIN path
    BY <1>1, ElementOfSeq
  <2>2. CASE s = seg("")
    <3>1. Len(<<"">>) = 1 /\ <<"">>[1] = ""
      OBVIOUS
    <3>2. QED
      BY <2>2, <3>1 DEF seg
  <2>3. CASE s \notin {seg("."), seg("..")} /\ ~ Separated(s)
    <3>1. Len(s) \in Nat \ {0}
      <4> HIDE DEF s
      <4> QED
        BY <2>1, EmptySeq
    <3>2. Len(s) = 1
      <4>1. ~ (Len(s) > 1)
        BY <2>3, Zenon DEF Separated
      <4>2. ASSUME NEW k \in Nat \ {0}, ~ (k > 1) PROVE k = 1
        BY <4>2
      <4> HIDE DEF s
      <4>3. QED
        BY <3>1, <4>1, <4>2, Zenon
    <3>3. ASSUME NEW p \in {".", ".."}, s[1] = p PROVE FALSE
      <4>1. p \in Part
        BY DEF Part
      <4>2. <<p>> \in Seq(Part) /\ Len(<<p>>) = 1 /\ <<p>>[1] = p
        BY <4>1, One
      <4>3. s = <<p>>
        <5> HIDE DEF s
        <5>1. \A j \in 1 .. Len(s) : s[j] = <<p>>[j]
          BY <3>2, <3>3, <4>2
        <5>2. QED
          BY <2>1, <3>2, <4>2, <5>1, SeqEqual
      <4>4. QED
        BY <2>3, <4>3 DEF seg
    <3>4. QED
      BY <3>2, <3>3
  <2>4. QED
    BY <1>2, <2>1, <2>2, <2>3
<1>5. QED
  BY <1>1, <1>3, <1>4 DEF path

\* What is accepted, with encoded separators refused, is left as it was
\* written behind a base that is itself as the parser leaves it.
LEMMA Unrepaired ==
  ASSUME NEW base \in Seq(Part), base # <<>>, Parsed(base) = base,
         NEW target \in RequestTarget, normalizes(target, FALSE),
         NEW written, written = Assembled(base, target)
  PROVE  Parsed(written) = written /\ StartsWith(written, base)
<1>1. Len(base) \in Nat \ {0}
  BY EmptySeq
<1>2. CASE exact(base)
  <2>1. written = base
    BY <1>2 DEF Assembled
  <2>2. IsPrefix(base, base)
    BY <1>1, Prefixed
  <2>3. QED
    BY <1>1, <1>2, <2>1, <2>2 DEF StartsWith
<1>3. CASE ~ exact(base)
  <2> DEFINE path == target.path
             f == Front(base)
             t == FlattenSeq(path)
  <2>1. /\ path \in Seq(Seq(Part)) /\ path # <<>>
        /\ \A i \in 1 .. Len(path) :
             Len(path[i]) = 1 /\ path[i][1] \notin {".", ".."}
    BY Checked
  <2>2. Len(path) \in Nat \ {0}
    BY <2>1, EmptySeq
  <2>3. /\ f \in Seq(Part) /\ Len(f) = Len(base) - 1
        /\ \A i \in 1 .. Len(f) : f[i] \notin {".", ".."}
    <3>1. f \in Seq(Part) /\ Len(f) = Len(base) - 1
      BY FrontFacts
    <3>2. \A i \in 1 .. Len(base) - 1 : f[i] = base[i]
      BY FrontFacts
    <3>3. \A i \in 1 .. Len(base) - 1 : base[i] \notin {".", ".."}
      BY <1>1, DotsGo
    <3>4. QED
      BY <3>1, <3>2, <3>3
  <2>4. /\ t \in Seq(Part) /\ Len(t) = Len(path)
        /\ \A i \in 1 .. Len(t) : t[i] \notin {".", ".."}
    <3> HIDE DEF path
    <3>1. /\ t \in Seq(Part) /\ Len(t) = Len(path)
          /\ \A i \in 1 .. Len(path) : t[i] = path[i][1]
      BY <2>1, FlattenOnes
    <3>2. QED
      BY <2>1, <3>1
  <2>5. written = f \o t
    BY <1>3 DEF Assembled
  <2> HIDE DEF f, t, path
  <2>6. f \o t \in Seq(Part) /\ Len(f \o t) = Len(f) + Len(t)
    BY <2>3, <2>4, ConcatProperties, Zenon
  <2>7. \A i \in 1 .. Len(f) + Len(t) :
          (f \o t)[i] = IF i <= Len(f) THEN f[i] ELSE t[i - Len(f)]
    BY <2>3, <2>4, ConcatProperties, ZenonT(30)
  <2>8. Len(f) \in Nat /\ Len(t) \in Nat \ {0}
    BY <1>1, <2>2, <2>3, <2>4
  <2>9. ASSUME NEW i \in 1 .. Len(f \o t)
        PROVE  (f \o t)[i] \notin {".", ".."}
    <3>1. CASE i <= Len(f)
      <4>1. i \in 1 .. Len(f) /\ i \in 1 .. Len(f) + Len(t)
        BY <2>6, <2>8, <3>1
      <4>2. (f \o t)[i] = f[i]
        BY <2>7, <3>1, <4>1
      <4>3. QED
        BY <2>3, <4>1, <4>2
    <3>2. CASE ~ (i <= Len(f))
      <4>1. i - Len(f) \in 1 .. Len(t) /\ i \in 1 .. Len(f) + Len(t)
        BY <2>6, <2>8, <3>2
      <4>2. (f \o t)[i] = t[i - Len(f)]
        BY <2>7, <3>2, <4>1
      <4>3. QED
        BY <2>4, <4>1, <4>2
    <3>3. QED
      BY <3>1, <3>2
  <2>10. Parsed(f \o t) = f \o t
    BY <2>6, <2>9, NoDots
  <2>11. Len(f \o t) >= Len(base) /\ Len(f) <= Len(f \o t)
    BY <1>1, <2>3, <2>6, <2>8
  <2>12. \A i \in 1 .. Len(f) : (f \o t)[i] = f[i]
    <3>1. \A i \in 1 .. Len(f) : i \in 1 .. Len(f) + Len(t) /\ i <= Len(f)
      BY <2>8
    <3>2. QED
      BY <2>7, <3>1
  <2>13. IsPrefix(f, f \o t)
    <3> DEFINE g == f \o t
    <3> HIDE DEF g
    <3>1. /\ g \in Seq(Part) /\ Len(f) <= Len(g)
          /\ \A i \in 1 .. Len(f) : g[i] = f[i]
      BY <2>6, <2>11, <2>12 DEF g
    <3>2. QED
      BY <2>3, <3>1, Prefixed DEF g
  <2>14. StartsWith(f \o t, base)
    BY <1>3, <2>11, <2>13 DEF StartsWith, f
  <2>15. QED
    BY <2>5, <2>10, <2>14
<1>4. QED
  BY <1>2, <1>3

-----------------------------------------------------------------------------
(***************************************************************************)
(* Theorems.                                                               *)
(***************************************************************************)
\* Every reachable state of the handshake is well typed, whatever the client
\* sends: read_mint_request takes no more than two arguments and no text that
\* is not UTF-8, and what is fetched comes with what it was minted for.
THEOREM TypeCorrect == Spec => []TypeOK
<1>1. IInv => TypeOK
  BY DEF IInv
<1>2. QED
  BY <1>1, Invariant, PTL

\* What mint() reports to its caller, what serve_request compares a request
\* with and the URL that is fetched are one request, and the one the client
\* asked for, or the endpoint's own where it pins one.
THEOREM ReportIsBindingCorrect == Spec => []ReportIsBinding
<1>1. IInv => ReportIsBinding
  BY DEF IInv, SeenInv, BoundInv, Justified, ReportIsBinding
<1>2. QED
  BY <1>1, Invariant, PTL

\* Whatever the parser makes of a URL, what Grant::join lets through lies
\* under the base, is the base of an exact grant, and has a query only where
\* the grant allows one.
THEOREM ConfinedCorrect == Spec => []Confined
<1>1. IInv => Confined
  BY DEF IInv, BoundInv, Justified, Confined
<1>2. QED
  BY <1>1, Invariant, PTL

\* A proper mint ends in an error that is neither a descriptor nor a reason
\* only if the daemon died, if socketpair failed in serve_connection, or if
\* the client, told what it was to get, had no room for the one descriptor
\* that mint() expects.
THEOREM MintIsAnsweredCorrect == Spec => []MintIsAnswered
<1>1. IInv => MintIsAnswered
  BY DEF IInv, ProperInv, SeenInv, MintIsAnswered
<1>2. QED
  BY <1>1, Invariant, PTL

\* "Everything here rejects; there is no repair": where encoded separators
\* are refused, Url::parse leaves every accepted target, however long, as it
\* was written behind the base, up to how a character is percent-encoded, and
\* the re-check in join finds nothing.
THEOREM NothingRepairedCorrect == Spec => []NothingRepaired
<1>1. TypeOK => NothingRepaired
  <2> SUFFICES ASSUME TypeOK, Pinned(endpoint, Asked) \in Request,
                      ~ endpoint.allow_encoded_separators,
                      normalizes(Pinned(endpoint, Asked).target, FALSE)
               PROVE  LET target == Pinned(endpoint, Asked).target
                          written == Assembled(endpoint.base, target)
                      IN  /\ Parsed(written) = written
                          /\ StartsWith(written, endpoint.base)
    BY Zenon DEF NothingRepaired
  <2> DEFINE target == Pinned(endpoint, Asked).target
  <2>1. target \in RequestTarget /\ normalizes(target, FALSE)
    BY DEF Request
  <2>2. endpoint \in Endpoint /\ Grantable(endpoint)
    BY MintAssumption DEF TypeOK
  <2>3. /\ endpoint.base \in Seq(Part) /\ endpoint.base # <<>>
        /\ Parsed(endpoint.base) = endpoint.base
    BY <2>2 DEF Endpoint, Grantable
  <2> HIDE DEF target
  <2>4. /\ Parsed(Assembled(endpoint.base, target)) =
             Assembled(endpoint.base, target)
        /\ StartsWith(Assembled(endpoint.base, target), endpoint.base)
    BY <2>1, <2>3, Unrepaired, Zenon
  <2>5. QED
    BY <2>4 DEF target
<1>2. QED
  BY <1>1, TypeCorrect, PTL
==============================================================================
