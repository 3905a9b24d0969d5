------------------------------ MODULE McpClient ------------------------------
(***************************************************************************)
(* The clients of one MCP server (internal/mcp/client.go, registry.go): a  *)
(* process on two pipes, requests with increasing IDs, one call at a time  *)
(* under a mutex.  A call whose deadline passes leaves its decoder on the  *)
(* pipe and the client poisoned; Recreate replaces a poisoned client.      *)
(*                                                                         *)
(* The server answers requests in any order or never, sends notifications  *)
(* and other output on its own, and may die.                               *)
(***************************************************************************)
EXTENDS ToolCallers, Integers, Sequences, FiniteSets

CONSTANTS
  MaxGen,     \* processes that can be started in one behaviour
  MaxNotices  \* what the server sends unasked in one behaviour

ASSUME BoundsOK == MaxGen \in Nat \ {0} /\ MaxNotices \in Nat

VARIABLES
  pc,        \* of each caller; "result" when a call is over
  result,    \* "ok", "toolerror", "notfound" or "error"
  expired,   \* the deadline of the caller's context has passed
  mine,      \* the client the caller has got from the registry
  again,     \* it is on its second call, with a recreated client
  cur,       \* the registered client, 0: the server did not start
  client,    \* the clients that were ever started
  holder,    \* mu of each client
  registry,  \* mu of the registry
  executed,  \* history: how often the server ran a call's tool
  got,       \* history: the caller whose response this one received
  notices

mcp == <<pc, result, expired, mine, again, cur, client, holder, registry, executed,
         got, notices>>

Gens == 1..MaxGen

\* A notification, and output that is no JSON.
Notice  == 0
Garbage == -1

\* owners[i] made the request with ID i; asked are the requests the server has
\* not answered, pipe the IDs of what it has sent, decoders the goroutines
\* that read from the pipe.
Fresh ==
  [poisoned |-> FALSE, alive |-> TRUE, owners |-> <<>>, asked |-> {}, pipe |-> <<>>,
   decoders |-> 0]

Pipes == Seq(Nat \cup {Garbage})

Clients ==
  [poisoned : BOOLEAN, alive : BOOLEAN, owners : Seq(Callers), asked : SUBSET Nat,
   pipe : Pipes, decoders : Nat]

\* A deadline that passes while Start fetches the schemas of the tools leaves a
\* client that is poisoned from the start.
Born(poisoned) ==
  [Fresh EXCEPT !.poisoned = poisoned, !.decoders = IF poisoned THEN 1 ELSE 0]

\* StartAll: the server did not start, or it did.
McpInit ==
  /\ result = [c \in Callers |-> "none"]
  /\ expired = [c \in Callers |-> FALSE]
  /\ mine = [c \in Callers |-> 0] /\ again = [c \in Callers |-> FALSE]
  /\ cur \in {0, 1}
  /\ \E poisoned \in BOOLEAN : client = [g \in Gens |-> IF g = 1 THEN Born(poisoned) ELSE Fresh]
  /\ holder = [g \in Gens |-> None] /\ registry = None
  /\ executed = [c \in Callers |-> 0] /\ got = [c \in Callers |-> None]
  /\ notices = 0

McpPcs == {"get", "lock", "read", "recreate", "starting", "result"}

McpTypeOK ==
  /\ result \in [Callers -> {"none", "ok", "toolerror", "notfound", "error"}]
  /\ expired \in [Callers -> BOOLEAN] /\ again \in [Callers -> BOOLEAN]
  /\ mine \in [Callers -> 0..MaxGen] /\ cur \in 0..MaxGen
  /\ client \in [Gens -> Clients]
  /\ holder \in [Gens -> Callers \cup {None}] /\ registry \in Callers \cup {None}
  /\ executed \in [Callers -> Nat] /\ got \in [Callers -> Callers \cup {None}]
  /\ notices \in 0..MaxNotices
  /\ \A c \in Callers : pc[c] \in {"lock", "read", "recreate"} => mine[c] \in Gens

-----------------------------------------------------------------------------
Goes(c, to) == pc' = [pc EXCEPT ![c] = to] /\ UNCHANGED result

Returns(c, r) ==
  /\ pc' = [pc EXCEPT ![c] = "result"]
  /\ result' = [result EXCEPT ![c] = r]

\* Registry.Get, which waits for a Recreate.
Get(c) ==
  /\ pc[c] = "get" /\ registry = None
  /\ again' = [again EXCEPT ![c] = FALSE]
  /\ mine' = [mine EXCEPT ![c] = cur]
  /\ IF cur = 0 THEN Returns(c, "notfound") ELSE Goes(c, "lock")
  /\ UNCHANGED <<expired, cur, client, holder, registry, executed, got, notices>>

\* Mutant: the poisoned client is used as long as its process lives.
SoundIfAlive(g) == client[g].alive

Sound(g) == ~client[g].poisoned

\* Mutant: every failed call makes a new client and is sent again.
RetryAnyway(c, r) ==
  IF r \in {"poisoned", "error"} /\ ~again[c] THEN Goes(c, "recreate")
  ELSE Returns(c, IF r = "poisoned" THEN "error" ELSE r)

\* execMCP: a poisoned client is recreated and the call made once more.
CallReturns(c, r) ==
  IF r = "poisoned" /\ ~again[c] THEN Goes(c, "recreate")
  ELSE Returns(c, IF r = "poisoned" THEN "error" ELSE r)

\* Client.Call takes the mutex, refuses a poisoned client and writes the
\* request.  It does not look at its context before.
Send(c) ==
  LET g == mine[c]
      id == Len(client[g].owners) + 1 IN
  /\ pc[c] = "lock" /\ holder[g] = None
  /\ IF ~Sound(g)
     THEN CallReturns(c, "poisoned") /\ UNCHANGED <<client, holder>>
     ELSE IF ~client[g].alive
     THEN CallReturns(c, "error") /\ UNCHANGED <<client, holder>>
     ELSE /\ client' = [client EXCEPT ![g].owners = Append(@, c),
                                      ![g].asked = @ \cup {id},
                                      ![g].decoders = @ + 1]
          /\ holder' = [holder EXCEPT ![g] = c]
          /\ Goes(c, "read")
  /\ UNCHANGED <<expired, mine, again, cur, registry, executed, got, notices>>

RequestOf(c) == Len(client[mine[c]].owners)

\* Mutant: the next message on the pipe is the answer.
AnyAnswers(c, id) == id \notin {Notice, Garbage}

\* A message is the answer when it has the ID of the request; a notification,
\* which has none, never is.
Answers(c, id) == id = RequestOf(c)

\* What is left of the pipe after its next message.  A json.Decoder does not get
\* past what is no JSON: it returns the same error from then on.
AfterHead(pipe) == IF pipe = <<>> \/ Head(pipe) = Garbage THEN pipe ELSE Tail(pipe)

\* readResponse gets the next message on the pipe.  Anything but the answer is
\* an error that leaves the client as it is.
Receive(c) ==
  LET g == mine[c] IN
  /\ pc[c] = "read" /\ client[g].pipe # <<>>
  /\ LET id == Head(client[g].pipe) IN
     IF Answers(c, id)
     THEN /\ got' = [got EXCEPT ![c] = client[g].owners[id]]
          /\ \E r \in {"ok", "toolerror", "error"} : CallReturns(c, r)
     ELSE CallReturns(c, "error") /\ UNCHANGED got
  /\ client' = [client EXCEPT ![g].pipe = AfterHead(@), ![g].decoders = @ - 1]
  /\ holder' = [holder EXCEPT ![g] = None]
  /\ UNCHANGED <<expired, mine, again, cur, registry, executed, notices>>

\* The process is gone and so is the pipe.
ReceiveEof(c) ==
  LET g == mine[c] IN
  /\ pc[c] = "read" /\ client[g].pipe = <<>> /\ ~client[g].alive
  /\ client' = [client EXCEPT ![g].decoders = @ - 1]
  /\ holder' = [holder EXCEPT ![g] = None]
  /\ CallReturns(c, "error")
  /\ UNCHANGED <<expired, mine, again, cur, registry, executed, got, notices>>

\* The deadline passes first: the decoder stays, the client is poisoned.
GiveUp(c) ==
  /\ pc[c] = "read" /\ expired[c]
  /\ client' = [client EXCEPT ![mine[c]].poisoned = TRUE]
  /\ holder' = [holder EXCEPT ![mine[c]] = None]
  /\ CallReturns(c, "error")
  /\ UNCHANGED <<expired, mine, again, cur, registry, executed, got, notices>>

-----------------------------------------------------------------------------
\* Mutant: whoever saw a poisoned client replaces the registered one.
AlwaysStale(c) == TRUE

StillStale(c) == cur = mine[c]

\* Registry.Recreate: somebody else may have done it.
UseFresh(c) ==
  /\ pc[c] = "recreate" /\ registry = None /\ ~StillStale(c)
  /\ mine' = [mine EXCEPT ![c] = cur] /\ again' = [again EXCEPT ![c] = TRUE]
  /\ Goes(c, "lock")
  /\ UNCHANGED <<expired, cur, client, holder, registry, executed, got, notices>>

\* Close kills the process; the registry stays locked until Start is over.
CloseStale(c) ==
  /\ pc[c] = "recreate" /\ registry = None /\ StillStale(c)
  /\ registry' = c
  /\ client' = [client EXCEPT ![cur].alive = FALSE]
  /\ Goes(c, "starting")
  /\ UNCHANGED <<expired, mine, again, cur, holder, executed, got, notices>>

\* Start brings up a client, or the handshake fails.
StartClient(c) ==
  /\ pc[c] = "starting" /\ cur < MaxGen
  /\ \E poisoned \in {FALSE} \cup {expired[c]} :
       client' = [client EXCEPT ![cur + 1] = Born(poisoned)]
  /\ cur' = cur + 1 /\ registry' = None
  /\ mine' = [mine EXCEPT ![c] = cur + 1] /\ again' = [again EXCEPT ![c] = TRUE]
  /\ Goes(c, "lock")
  /\ UNCHANGED <<expired, holder, executed, got, notices>>

StartFails(c) ==
  /\ pc[c] = "starting"
  /\ registry' = None
  /\ Returns(c, "error")
  /\ UNCHANGED <<expired, mine, again, cur, client, holder, executed, got, notices>>

McpCall(c) ==
  \/ Get(c) \/ Send(c)
  \/ Receive(c) \/ ReceiveEof(c) \/ GiveUp(c)
  \/ UseFresh(c) \/ CloseStale(c) \/ StartClient(c) \/ StartFails(c)

-----------------------------------------------------------------------------
\* The server and the decoders that nobody waits for.

Respond(g) ==
  /\ client[g].alive
  /\ \E id \in client[g].asked :
       /\ client' = [client EXCEPT ![g].asked = @ \ {id}, ![g].pipe = Append(@, id)]
       /\ executed' = [executed EXCEPT ![client[g].owners[id]] = @ + 1]
  /\ UNCHANGED <<pc, result, expired, mine, again, cur, holder, registry, got, notices>>

Notify(g) ==
  /\ g = cur /\ client[g].alive /\ notices < MaxNotices
  /\ notices' = notices + 1
  /\ \E m \in {Notice, Garbage} : client' = [client EXCEPT ![g].pipe = Append(@, m)]
  /\ UNCHANGED <<pc, result, expired, mine, again, cur, holder, registry, executed, got>>

Die(g) ==
  /\ g = cur /\ client[g].alive
  /\ client' = [client EXCEPT ![g].alive = FALSE]
  /\ UNCHANGED <<pc, result, expired, mine, again, cur, holder, registry, executed, got,
                 notices>>

LeftoverDecodes(g) ==
  /\ client[g].decoders > (IF holder[g] = None THEN 0 ELSE 1)
  /\ client[g].pipe # <<>> \/ ~client[g].alive
  /\ client' = [client EXCEPT ![g].decoders = @ - 1, ![g].pipe = AfterHead(@)]
  /\ UNCHANGED <<pc, result, expired, mine, again, cur, holder, registry, executed, got,
                 notices>>

McpEnvironment ==
  \E g \in Gens : Respond(g) \/ Notify(g) \/ Die(g) \/ LeftoverDecodes(g)

-----------------------------------------------------------------------------
(* Who uses a client, and what its pipe still owes.                         *)

\* Nobody has a client that was not started, and the server answers requests
\* it was sent.
ClientsKnown ==
  /\ \A c \in Callers : mine[c] <= cur
  /\ \A g \in Gens : client[g].asked \subseteq DOMAIN client[g].owners

\* mu: a client's holder is the one caller that reads from it, and the last
\* request is his.
ReadersHold ==
  /\ \A g \in Gens : holder[g] # None => pc[holder[g]] = "read" /\ mine[holder[g]] = g
  /\ \A c \in Callers : pc[c] = "read" =>
       LET owners == client[mine[c]].owners IN
       holder[mine[c]] = c /\ owners # <<>> /\ owners[Len(owners)] = c

\* A decoder without a caller is only on the pipe of a poisoned client.
DecodersHeld ==
  \A g \in Gens :
    /\ client[g].decoders <= 1
    /\ holder[g] # None => client[g].decoders = 1
    /\ holder[g] = None /\ Sound(g) => client[g].decoders = 0

\* A caller gives up a client only when it is poisoned.
GivenUp == \A c \in Callers : pc[c] = "recreate" => client[mine[c]].poisoned

-----------------------------------------------------------------------------
\* client.go:33-36: whatever timed out, came late or was sent unasked before, a
\* result is the server's answer to the caller's own request.
OwnResponse == \A c \in Callers : got[c] \in {c, None}

\* client.go:309-312: no two goroutines ever decode from one pipe.
OneDecoder == \A g \in Gens : client[g].decoders <= 1

\* registry.go:72-76: a client is replaced only when it is poisoned, and then
\* once, however many callers found it so: nobody's healthy process is killed.
OnlyPoisonedReplaced ==
  [][\A c \in Callers :
       pc[c] = "recreate" /\ pc'[c] = "starting" => client[cur].poisoned]_mcp
=============================================================================
