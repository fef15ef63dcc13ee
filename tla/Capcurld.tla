------------------------------ MODULE Capcurld ------------------------------
(***************************************************************************)
(* The process capcurld: the accept loop or the one session of -1, a task  *)
(* per client, and the descriptors and origin connections they share.      *)
(* What passes in a session is in Mint and Daemon; here it is what a       *)
(* session holds and how it ends.                                          *)
(***************************************************************************)
EXTENDS Naturals, Sequences, FiniteSets

CONSTANTS
  Client,    \* the processes that connect, once each
  Idle,      \* those that may stay and say nothing
  Denials,   \* the sets of clients whose mint may be denied
  Refusals,  \* those whose request may be refused before the origin leg
  FdLimits,  \* how many descriptors the process may have besides its own
  NULL

ASSUME CapcurldAssumption ==
  /\ IsFiniteSet(Client) /\ Idle \subseteq Client
  /\ Denials \subseteq SUBSET Client /\ Refusals \subseteq SUBSET Client
  /\ FdLimits \subseteq Nat
  /\ \A n \in FdLimits : n > 2 * Cardinality(Idle)
  /\ NULL \notin {"answer", "refusal", "eof", "gone"}

VARIABLES
  one_shot,  \* option -1: the client is on stdin, and nobody listens
  nofile,    \* the descriptor limit
  denied,    \* the clients whose mint does not resolve
  refused,   \* the clients whose request the daemon will not send
  status,    \* "up", "exited", or "killed"
  backlog,   \* clients that have connected and are not accepted, in order
  stage,     \* where the task of each client is
  told,      \* what each client has heard: NULL, "answer", "refusal", "eof";
             \* "gone" once it has left
  idling     \* origin connections the HTTP client keeps for reuse

settings == <<one_shot, nofile, denied, refused>>

process == <<settings, status>>

vars == <<process, backlog, stage, told, idling>>

Live == {"minting", "paired", "serving", "fetching", "answering"}

Stage == Live \union {"none", "queued", "done"}

\* Mutant: the daemon's copy of the client's end is kept.
DescriptorsWithTheirs(at) ==
  CASE at = "minting"   -> 1
    [] at = "paired"    -> 3
    [] at = "serving"   -> 3
    [] at = "fetching"  -> 4
    [] at = "answering" -> 3
    [] OTHER            -> 0

\* The channel; both ends of the socketpair; the daemon's end; and with it
\* the connection to the origin, of which the HTTP client is taken to open
\* one for a request.
Descriptors(at) ==
  CASE at = "minting"   -> 1
    [] at = "paired"    -> 3
    [] at = "serving"   -> 2
    [] at = "fetching"  -> 3
    [] at = "answering" -> 2
    [] OTHER            -> 0

\* The descriptors of the tasks, numbered for each; and all that are taken.
Held == UNION {{c} \X (1 .. Descriptors(stage[c])) : c \in Client}

Used == idling + Cardinality(Held)

\* The task of c goes on to a stage that needs n descriptors more.
Goes(c, to, n) ==
  /\ Used + n <= nofile
  /\ stage' = [stage EXCEPT ![c] = to]
  /\ UNCHANGED <<process, backlog, told>>

\* The task of c ends, and c hears of it if it is there.
Ends(c, word) ==
  /\ stage' = [stage EXCEPT ![c] = "done"]
  /\ told' = [told EXCEPT ![c] = IF @ = NULL THEN word ELSE @]
  /\ UNCHANGED <<process, backlog>>

Here(c) == told[c] # "gone"

-----------------------------------------------------------------------------
(***************************************************************************)
(* The listener.                                                           *)
(***************************************************************************)
Connect(c) ==
  /\ status = "up" /\ ~ one_shot /\ stage[c] = "none"
  /\ backlog' = Append(backlog, c)
  /\ stage' = [stage EXCEPT ![c] = "queued"]
  /\ UNCHANGED <<process, told, idling>>

\* Mutant: a connection is served before the next is accepted.
AcceptInTurn ==
  /\ status = "up" /\ backlog # <<>> /\ Used < nofile
  /\ \A c \in Client : stage[c] \notin Live
  /\ stage' = [stage EXCEPT ![Head(backlog)] = "minting"]
  /\ backlog' = Tail(backlog)
  /\ UNCHANGED <<process, told, idling>>

\* Mutant: what is accepted stays in the queue.
AcceptTwice ==
  /\ status = "up" /\ backlog # <<>> /\ Used < nofile
  /\ stage' = [stage EXCEPT ![Head(backlog)] = "minting"]
  /\ UNCHANGED <<process, backlog, told, idling>>

\* accept takes a descriptor, and the task is spawned.
Accept ==
  /\ status = "up" /\ backlog # <<>> /\ Used < nofile
  /\ stage' = [stage EXCEPT ![Head(backlog)] = "minting"]
  /\ backlog' = Tail(backlog)
  /\ UNCHANGED <<process, told, idling>>

\* accept fails: the connection stays queued and the loop tries again.
AcceptFails ==
  /\ status = "up" /\ backlog # <<>> /\ Used = nofile
  /\ UNCHANGED vars

-----------------------------------------------------------------------------
(***************************************************************************)
(* serve_connection, as far as it takes and returns descriptors.  What a   *)
(* client sent before it left is still read and acted on.                  *)
(***************************************************************************)
Mint(c) ==
  /\ stage[c] = "minting" /\ c \notin denied
  /\ Goes(c, "paired", 2) /\ UNCHANGED idling

\* The mint is broken or denied, and the client told so.
MintDenied(c) ==
  /\ stage[c] = "minting" /\ c \in denied
  /\ Ends(c, "refusal") /\ UNCHANGED idling

\* socketpair fails: the channel is closed and nothing was said.
NoPair(c) ==
  /\ stage[c] = "minting" /\ c \notin denied /\ Used + 2 > nofile
  /\ Ends(c, "eof") /\ UNCHANGED idling

DropTheirs(c) ==
  stage[c] = "paired" /\ Goes(c, "serving", 0) /\ UNCHANGED idling

\* A request that is refused before the origin leg.  A refusal fits what a
\* socket buffers, so that nobody has to read it for the task to end.
Refuse(c) ==
  /\ stage[c] = "serving" /\ c \in refused
  /\ Ends(c, "refusal") /\ UNCHANGED idling

\* A connection that idles is used, or else a new one.
Fetch(c) ==
  /\ stage[c] = "serving" /\ c \notin refused
  /\ IF idling > 0
       THEN idling' = idling - 1 /\ Goes(c, "fetching", 0)
       ELSE Goes(c, "fetching", 1) /\ UNCHANGED idling

\* Mutant: the request waits for a descriptor, and holds on to its own.
NoConnectionRetries(c) ==
  /\ stage[c] = "serving" /\ c \notin refused /\ idling = 0 /\ Used = nofile
  /\ UNCHANGED vars

\* "could not connect to the origin"
NoConnection(c) ==
  /\ stage[c] = "serving" /\ c \notin refused /\ idling = 0 /\ Used = nofile
  /\ Ends(c, "refusal") /\ UNCHANGED idling

\* The answer is read to its end; the origin closes the connection behind
\* it, or it is kept.
Fetched(c) ==
  /\ stage[c] = "fetching"
  /\ Goes(c, "answering", 0) /\ idling' \in {idling, idling + 1}

FetchFails(c) ==
  stage[c] = "fetching" /\ Ends(c, "refusal") /\ UNCHANGED idling

\* The relayed answer is written, which may take a client that reads it.
Answer(c) ==
  /\ stage[c] = "answering" /\ Here(c)
  /\ Ends(c, "answer") /\ UNCHANGED idling

CloseIdle ==
  /\ idling > 0 /\ status = "up" /\ idling' = idling - 1
  /\ UNCHANGED <<process, backlog, stage, told>>

\* The client ends, wherever its session is, and so does whoever it gave its
\* descriptor to.
Leave(c) ==
  /\ stage[c] # "none" /\ told[c] = NULL
  /\ told' = [told EXCEPT ![c] = "gone"]
  /\ UNCHANGED <<process, backlog, stage, idling>>

\* Nobody is there to read from or write to.
Abandoned(c, at) ==
  /\ stage[c] = at /\ ~ Here(c)
  /\ Ends(c, "gone") /\ UNCHANGED idling

\* "client closed the channel"
MintEof(c) == Abandoned(c, "minting")

SendFails(c) == Abandoned(c, "paired")

\* "capability closed before a complete request head"
HeadEof(c) == Abandoned(c, "serving")

WriteFails(c) == Abandoned(c, "answering")

-----------------------------------------------------------------------------
\* Mutant: -1 serves until a request has succeeded.
OneShotAnswered ==
  /\ one_shot /\ status = "up" /\ \E c \in Client : told[c] = "answer"
  /\ status' = "exited" /\ idling' = 0
  /\ UNCHANGED <<settings, backlog, stage, told>>

\* With -1 the process ends with the session, however that went.
OneShotOver ==
  /\ one_shot /\ status = "up" /\ \A c \in Client : stage[c] \notin Live
  /\ status' = "exited" /\ idling' = 0
  /\ UNCHANGED <<settings, backlog, stage, told>>

\* The process dies, and every connection to it, accepted or not.
Killed ==
  /\ status = "up" /\ status' = "killed"
  /\ stage' = [c \in Client |-> IF stage[c] = "none" THEN "none" ELSE "done"]
  /\ told' = [c \in Client |->
                IF stage[c] # "none" /\ told[c] = NULL THEN "eof" ELSE told[c]]
  /\ backlog' = <<>> /\ idling' = 0
  /\ UNCHANGED settings

Init ==
  /\ one_shot \in BOOLEAN /\ nofile \in FdLimits
  /\ denied \in Denials /\ refused \in Refusals
  /\ status = "up"
  /\ backlog = <<>> /\ told = [c \in Client |-> NULL] /\ idling = 0
  /\ \E first \in Client :
       stage = [c \in Client |->
                  IF one_shot /\ c = first THEN "minting" ELSE "none"]

\* What waits for nothing but the runtime and the origin, whose answer has
\* a timeout; and what waits for the client.
Runs(c) == \/ DropTheirs(c) \/ Fetched(c) \/ FetchFails(c)
           \/ MintEof(c) \/ SendFails(c) \/ HeadEof(c) \/ WriteFails(c)

Asked(c) == \/ Mint(c) \/ MintDenied(c) \/ NoPair(c)
            \/ Refuse(c) \/ Fetch(c) \/ NoConnection(c) \/ Answer(c)

Next ==
  \/ \E c \in Client : Connect(c) \/ Leave(c) \/ Runs(c) \/ Asked(c)
  \/ Accept \/ AcceptFails \/ CloseIdle \/ OneShotOver \/ Killed

Spec == Init /\ [][Next]_vars

\* The loop runs in block_on and the tasks on the workers, so that a loop
\* that spins on a failing accept does not keep them from running.  The HTTP
\* client closes what idles.
FairSpec ==
  /\ Spec /\ WF_vars(Accept) /\ WF_vars(CloseIdle) /\ WF_vars(OneShotOver)
  /\ \A c \in Client : WF_vars(Runs(c))
  /\ \A c \in Client \ Idle : WF_vars(Asked(c))

-----------------------------------------------------------------------------
(***************************************************************************)
(* Properties                                                              *)
(***************************************************************************)
\* The variables keep their types, the queue holds those who are queued, and
\* the limit on descriptors is kept.
TypeOK ==
  /\ one_shot \in BOOLEAN /\ nofile \in FdLimits
  /\ denied \in Denials /\ refused \in Refusals
  /\ status \in {"up", "exited", "killed"}
  /\ stage \in [Client -> Stage]
  /\ told \in [Client -> {NULL, "answer", "refusal", "eof", "gone"}]
  /\ idling \in Nat /\ Used <= nofile
  /\ backlog \in Seq(Client)
  /\ {backlog[i] : i \in DOMAIN backlog} = {c \in Client : stage[c] = "queued"}
  /\ \A i, j \in DOMAIN backlog : backlog[i] = backlog[j] => i = j

\* Three descriptors for each client there will be are enough: nobody meets
\* the limit, whatever connections idle and whatever sessions overlap, while
\* a fetch takes one descriptor.
ThreeEach ==
  status = "up" /\ nofile >= 3 * Cardinality(Client) =>
    \A c \in Client :
      /\ told[c] # "eof"
      /\ stage[c] = "queued" => Used < nofile
      /\ stage[c] = "minting" => Used + 2 <= nofile
      /\ stage[c] = "serving" => idling > 0 \/ Used < nofile

\* Who connects is accepted, though others sit on their sessions and though
\* accept may have failed in between.
EveryoneIsAccepted ==
  \A c \in Client : stage[c] = "queued" ~> stage[c] # "queued"

\* Who connects, keeps asking and reads hears something in the end, if only
\* that the channel is closed, however few descriptors there are: a session
\* that finds none left ends and frees its own.
EveryoneIsTold ==
  \A c \in Client \ Idle : stage[c] # "none" ~> told[c] # NULL

\* With -1 the process ends once its one client is served, refused or gone.
OneShotExits ==
  \A c \in Client \ Idle : one_shot /\ stage[c] # "none" ~> status # "up"
=============================================================================
