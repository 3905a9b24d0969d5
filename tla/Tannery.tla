------------------------------- MODULE Tannery -------------------------------
(***************************************************************************)
(* The tannery's HTTP API (internal/cli/api_tannery.go, the /queues part   *)
(* of cmd_serve.go) over the queues of the curings: webhooks and POST      *)
(* /intake with their backpressure and redeliveries, the operator's        *)
(* requeue, drain and delete calls, `leather dlq requeue` on a stopped     *)
(* serve, and `leather workflow run`, which waits until the queues are     *)
(* quiet.  Queues are static; single-use ones are in CuringPrefix, and so  *)
(* are the stages of a handler and its output in CuringWorker.             *)
(*                                                                         *)
(* An item is known by its ID: with a delivery ID it is that and the index *)
(* of the route, and a redelivery has the same one.                        *)
(***************************************************************************)
EXTENDS Routing

CONSTANTS Setups   \* the installations that are checked, see SetupOK

VARIABLES
  setup,
  up,       \* the process runs
  queue,    \* queue[n]: the slice of the queue n
  file,     \* file[n]: its file
  hides,    \* the hides in the store
  req,      \* req[c]: the request of client c
  held,     \* items taken from a queue: [item, pc]
  op,       \* what the operator's call has in hand
  watch,    \* the workflow command
  left,     \* queues it has still to read
  faults,   \* failed saves so far
  crashes,
  answered, \* history: IDs whose request was answered with 202
  done,     \* IDs with an artifact
  withdrawn,\* IDs an operator drained
  failed,   \* history: IDs whose last save failed and was not made up for
  lost      \* history: IDs a crash took out of a hand

work    == <<queue, file, held>>
watcher == <<watch, left>>
history == <<answered, done, withdrawn, failed, lost>>
vars    == <<setup, up, work, hides, req, op, watcher, faults, crashes, history>>

\* `clients[c]`: what c sends, `delivery` the ID it has for it, if any.
\* Every curing has a queue, and no route a pattern.
RouteTo(queues) ==
  [source : STRING, event : STRING, curing : STRING, queue : queues, pattern : {<<>>}]

SetupOK(s) ==
  /\ s.queues \subseteq Seq({"q1", "q2", "q3"})
  /\ s.maxDepth \in [s.queues -> Nat] /\ s.attempts \in Nat \ {0}
  /\ ValidateTannery(s.routes, s.defs, s.queues)
  /\ s.routes \in Seq(RouteTo(s.queues))
  /\ \A d \in s.defs : d.queue \in s.queues /\ d.prefix = <<>>
  /\ IsFiniteSet(DOMAIN s.clients)
  /\ \A c \in DOMAIN s.clients :
       /\ s.clients[c].kind \in {"webhook", "intake"}
       /\ s.clients[c].delivery \in Nat /\ s.clients[c].sends \in Nat
  /\ s.ops \subseteq {"requeue", "drain", "delete", "cli"}
  /\ s.workflow \in BOOLEAN

ASSUME SetupsOK == \A s \in Setups : SetupOK(s)

Clients == DOMAIN setup.clients
Live(q) == <<q, "live">>
Dlq(q)  == <<q, "dlq">>
Names   == setup.queues \X {"live", "dlq"}
Ids(s)  == {s[i].id : i \in DOMAIN s}

Client(c) == setup.clients[c]

\* The queues a client's request goes to, in the order of the routes.
Destinations(c) ==
  IF Client(c).kind = "webhook"
    THEN LET rs == MatchAll(setup.routes, Client(c).source, Client(c).event)
         IN  [i \in DOMAIN rs |-> rs[i].queue]
    ELSE LET r == ResolveRouting(Client(c), setup.routes, setup.defs, setup.queues)
         IN  IF r = Refused THEN <<>> ELSE IF Routed(r) THEN <<r.queue>> ELSE <<>>

Accepts(c) ==
  IF Client(c).kind = "webhook"
    THEN Destinations(c) # <<>>
    ELSE ResolveRouting(Client(c), setup.routes, setup.defs, setup.queues) # Refused

Idle == [pc |-> "idle", items |-> <<>>]

Init ==
  /\ setup \in Setups
  /\ up = TRUE
  /\ queue = [n \in Names |-> <<>>] /\ file = queue
  /\ hides = {} /\ held = {} /\ op = Idle
  /\ req = [c \in Clients |-> [pc |-> "idle", sent |-> 0, i |-> 1]]
  /\ watch = "off" /\ left = {}
  /\ faults = 0 /\ crashes = 0
  /\ answered = {} /\ done = {} /\ withdrawn = {} /\ failed = {} /\ lost = {}

-----------------------------------------------------------------------------
(* A queue: every operation writes the whole slice.                        *)

SaveFails == faults < setup.faults /\ faults' = faults + 1

Push(n, it) ==
  /\ queue' = [queue EXCEPT ![n] = Append(@, it)]
  /\ file' = [file EXCEPT ![n] = queue'[n]]
  /\ faults' = faults

\* The item stays in the slice, and the caller gets the error.
PushFails(n, it) ==
  /\ SaveFails
  /\ queue' = [queue EXCEPT ![n] = Append(@, it)] /\ file' = file

Pop(n) ==
  /\ queue[n] # <<>>
  /\ queue' = [queue EXCEPT ![n] = Tail(@)]
  /\ file' = [file EXCEPT ![n] = queue'[n]]
  /\ faults' = faults

-----------------------------------------------------------------------------
(***************************************************************************)
(* Mutants: a queue that is full takes one item more; a requeue that only  *)
(* reports a failure; an idle check that does not look at the handlers.    *)
(***************************************************************************)
FullAbove(q) == setup.maxDepth[q] > 0 /\ Len(queue[Live(q)]) > setup.maxDepth[q]

ReportOnly(it) ==
  /\ op' = [op EXCEPT !.pc = "requeue", !.items = Tail(@)]
  /\ UNCHANGED <<queue, file, faults, failed>>

OnlyQueues == TRUE

-----------------------------------------------------------------------------
(* Requests.                                                               *)

Becomes(c, pc, i) == req' = [req EXCEPT ![c].pc = pc, ![c].i = i]

Id(c, i) ==
  IF Client(c).delivery # 0 THEN <<Client(c).delivery, i>> ELSE <<c, req[c].sent, i>>

Hide(c) == <<c, req[c].sent>>
Dest(c) == Destinations(c)[req[c].i]
NewItem(c) == [id |-> Id(c, req[c].i), hide |-> Hide(c), tries |-> 0]

\* The stage of a request before its i-th queue, given that of a check or a send.
At(c, i, stage) ==
  CASE i <= Len(Destinations(c)) -> stage
    [] i > Len(Destinations(c)) /\ stage = "check" -> "put"
    [] OTHER -> "answer"

Enqueues(c) == IF Client(c).delivery # 0 THEN "scan" ELSE "send"

\* A request whose body, signature and routing are accepted.
Receive(c) ==
  /\ up /\ req[c].pc = "idle" /\ req[c].sent < Client(c).sends /\ Accepts(c)
  /\ req' = [req EXCEPT ![c] = [pc |-> At(c, 1, "check"), sent |-> @.sent + 1, i |-> 1]]
  /\ UNCHANGED <<setup, up, work, hides, op, watcher, faults, crashes, history>>

Full(q) == setup.maxDepth[q] > 0 /\ Len(queue[Live(q)]) >= setup.maxDepth[q]

\* 503 when a queue is full; the queues are read one by one.
CheckDepth(c) ==
  /\ req[c].pc = "check"
  /\ IF Full(Dest(c)) THEN Becomes(c, "idle", 1)
     ELSE LET pc == At(c, req[c].i + 1, "check")
          IN  Becomes(c, pc, IF pc = "put" THEN 1 ELSE req[c].i + 1)
  /\ UNCHANGED <<setup, up, work, hides, op, watcher, faults, crashes, history>>

\* One hide for all routes.
PutHide(c) ==
  /\ req[c].pc = "put"
  /\ \/ hides' = hides \cup {Hide(c)} /\ Becomes(c, At(c, 1, Enqueues(c)), 1) /\ faults' = faults
     \/ hides' = hides /\ Becomes(c, "idle", 1) /\ SaveFails
  /\ UNCHANGED <<setup, up, work, op, watcher, crashes, history>>

\* EnqueueIfAbsent: an item with the ID is in the queue, and the route is done,
\* or not.
Scan(c) ==
  /\ req[c].pc = "scan"
  /\ IF Id(c, req[c].i) \in Ids(queue[Live(Dest(c))])
       THEN Becomes(c, At(c, req[c].i + 1, "scan"), req[c].i + 1)
       ELSE Becomes(c, "send", req[c].i)
  /\ UNCHANGED <<setup, up, work, hides, op, watcher, faults, crashes, history>>

\* A failed save is a 500; a webhook takes its hide back, the intake leaves it.
Send(c) ==
  /\ req[c].pc = "send"
  /\ \/ /\ Push(Live(Dest(c)), NewItem(c))
        /\ Becomes(c, At(c, req[c].i + 1, Enqueues(c)), req[c].i + 1)
        /\ UNCHANGED <<hides, failed>>
     \/ /\ PushFails(Live(Dest(c)), NewItem(c))
        /\ Becomes(c, "idle", 1)
        /\ failed' = failed \cup {Id(c, req[c].i)}
        /\ hides' = IF Client(c).kind = "webhook" THEN hides \ {Hide(c)} ELSE hides
  /\ UNCHANGED <<setup, up, held, op, watcher, crashes, answered, done, withdrawn, lost>>

Answer(c) ==
  /\ req[c].pc = "answer"
  /\ Becomes(c, "idle", 1)
  /\ answered' = answered \cup {Id(c, i) : i \in DOMAIN Destinations(c)}
  /\ UNCHANGED <<setup, up, work, hides, op, watcher, faults, crashes, done, withdrawn,
                 failed, lost>>

-----------------------------------------------------------------------------
(* The workers.  A taken item is counted as active a moment later.         *)

Polls == up /\ watch \in {"off", "look", "settle", "again"}

Take(q) ==
  /\ Polls /\ \E d \in setup.defs : d.queue = q
  /\ Pop(Live(q))
  /\ held' = held \cup {[item |-> Head(queue[Live(q)]), from |-> q, pc |-> "taken"]}
  /\ UNCHANGED <<setup, up, hides, req, op, watcher, crashes, history>>

Begin(h) ==
  /\ h.pc = "taken"
  /\ held' = (held \ {h}) \cup {[h EXCEPT !.pc = "active"]}
  /\ UNCHANGED <<setup, up, queue, file, hides, req, op, watcher, faults, crashes, history>>

Succeed(h) ==
  /\ h.pc = "active" /\ h.item.hide \in hides
  /\ held' = held \ {h}
  /\ hides' = hides \ {h.item.hide} /\ done' = done \cup {h.item.id}
  /\ UNCHANGED <<setup, up, queue, file, req, op, watcher, faults, crashes, answered,
                 withdrawn, failed, lost>>

\* Attempts are counted up to the maximum: from there on every failure ends alike.
Tried(it) == [it EXCEPT !.tries = IF @ < setup.attempts THEN @ + 1 ELSE @]

\* Back to the queue, or to the dead letters: at once when the hide is missing.
Fail(h) ==
  /\ h.pc = "active"
  /\ held' = held \ {h}
  /\ LET it == Tried(h.item)
         n  == IF h.item.hide \in hides /\ it.tries < setup.attempts
                 THEN Live(h.from) ELSE Dlq(h.from)
     IN  \/ Push(n, it) /\ failed' = failed
         \/ PushFails(n, it) /\ failed' = failed \cup {it.id}
  /\ UNCHANGED <<setup, up, hides, req, op, watcher, crashes, answered, done, withdrawn, lost>>

-----------------------------------------------------------------------------
(* The operator.                                                           *)

May(what) == up /\ op = Idle /\ what \in setup.ops

\* Drain: a failed save leaves the file, but not the slice.
Drained(n) ==
  /\ queue[n] # <<>>
  /\ queue' = [queue EXCEPT ![n] = <<>>]

\* POST /queues/{q}/requeue
Requeue(q) ==
  /\ May("requeue") /\ Drained(Dlq(q))
  /\ \/ /\ file' = [file EXCEPT ![Dlq(q)] = <<>>]
        /\ op' = [pc |-> "requeue", q |-> q, items |-> queue[Dlq(q)]]
        /\ UNCHANGED <<faults, failed>>
     \/ /\ SaveFails /\ file' = file /\ op' = op
        /\ failed' = failed \cup Ids(queue[Dlq(q)])
  /\ UNCHANGED <<setup, up, held, hides, req, watcher, crashes, answered, done, withdrawn, lost>>

NextItem(items) == IF items = <<>> THEN Idle ELSE [op EXCEPT !.pc = "requeue", !.items = items]

RequeueItem ==
  /\ op.pc = "requeue"
  /\ \/ Push(Live(op.q), Head(op.items)) /\ op' = NextItem(Tail(op.items))
     \/ PushFails(Live(op.q), Head(op.items)) /\ op' = [op EXCEPT !.pc = "rollback"]
  /\ UNCHANGED <<setup, up, held, hides, req, watcher, crashes, history>>

\* The item goes back to the dead letters.
RollBack(it) ==
  /\ \/ Push(Dlq(op.q), it) /\ failed' = failed
     \/ PushFails(Dlq(op.q), it) /\ failed' = failed \cup {it.id}
  /\ op' = NextItem(Tail(op.items))

RequeueFails ==
  /\ op.pc = "rollback" /\ RollBack(Head(op.items))
  /\ UNCHANGED <<setup, up, held, hides, req, watcher, crashes, answered, done, withdrawn, lost>>

\* DELETE /queues/{n}?confirm=yes
DrainQueue(n) ==
  /\ May("drain") /\ Drained(n)
  /\ \/ /\ file' = [file EXCEPT ![n] = <<>>] /\ withdrawn' = withdrawn \cup Ids(queue[n])
        /\ UNCHANGED <<faults, failed>>
     \/ /\ SaveFails /\ file' = file /\ withdrawn' = withdrawn
        /\ failed' = failed \cup Ids(queue[n])
  /\ UNCHANGED <<setup, up, held, hides, req, op, watcher, crashes, answered, done, lost>>

\* DELETE /hides/{id}
DeleteHide(h) ==
  /\ May("delete") /\ h \in hides
  /\ hides' = hides \ {h}
  /\ UNCHANGED <<setup, up, work, req, op, watcher, faults, crashes, history>>

\* leather dlq requeue, which no lock keeps from running beside a serve; here the
\* operator has stopped it.  The item has its attempts back.
CliTake(q) ==
  /\ ~up /\ op = Idle /\ "cli" \in setup.ops
  /\ \E id \in Ids(queue[Dlq(q)]) :
       LET known == {it \in Range(queue[Dlq(q)]) : it.id = id}
           first == Head(Select(queue[Dlq(q)], known))
       IN  /\ queue' = [queue EXCEPT ![Dlq(q)] = Select(@, Range(@) \ known)]
           /\ op' = [pc |-> "cli", q |-> q, items |-> <<[first EXCEPT !.tries = 0]>>]
  /\ file' = queue'
  /\ UNCHANGED <<setup, up, held, hides, req, watcher, faults, crashes, history>>

\* A failure is printed, and the item is in neither queue.
CliPut ==
  /\ op.pc = "cli"
  /\ \/ Push(Live(op.q), Head(op.items)) /\ failed' = failed
     \/ SaveFails /\ failed' = failed \cup Ids(op.items) /\ UNCHANGED <<queue, file>>
  /\ op' = Idle
  /\ UNCHANGED <<setup, up, held, hides, req, watcher, crashes, answered, done, withdrawn, lost>>

-----------------------------------------------------------------------------
(* The process dies at any moment and is started again.                    *)

Crash ==
  /\ up /\ crashes < setup.crashes
  /\ up' = FALSE /\ crashes' = crashes + 1
  /\ queue' = file
  /\ lost' = lost \cup {h.item.id : h \in held} \cup Ids(op.items)
  /\ held' = {} /\ op' = Idle
  /\ req' = [c \in Clients |-> [req[c] EXCEPT !.pc = "idle", !.i = 1]]
  /\ UNCHANGED <<setup, file, hides, watcher, faults, answered, done, withdrawn, failed>>

Boot ==
  /\ ~up /\ op = Idle
  /\ up' = TRUE
  /\ UNCHANGED <<setup, work, hides, req, op, watcher, faults, crashes, history>>

-----------------------------------------------------------------------------
(***************************************************************************)
(* leather workflow run: idle() reads the depth of every declared queue    *)
(* and then the number of active handlers.                                 *)
(***************************************************************************)
Active == {h \in held : h.pc = "active"}

Looks(w, queues) ==
  /\ watch' = w /\ left' = queues
  /\ UNCHANGED <<setup, up, work, hides, req, op, faults, crashes, history>>

\* The item of the command is queued.
StartWatch ==
  /\ setup.workflow /\ watch = "off" /\ answered # {}
  /\ Looks("look", setup.queues)

\* Not idle: both rounds begin again from the first.
ReadQueue(q) ==
  /\ watch \in {"look", "again"} /\ q \in left
  /\ IF queue[Live(q)] = <<>> THEN Looks(watch, left \ {q}) ELSE Looks("look", setup.queues)

NoneActive == Active = {}

ReadActive ==
  /\ watch \in {"look", "again"} /\ left = {}
  /\ IF NoneActive
       THEN Looks(IF watch = "look" THEN "settle" ELSE "drain", {})
       ELSE Looks("look", setup.queues)

\* The settle delay is longer than the moment between taking an item and counting it.
Settle ==
  /\ watch = "settle" /\ \A h \in held : h.pc # "taken"
  /\ Looks("again", setup.queues)

\* cancel, Supervisor.Drain, checkDLQs.
EndWatch ==
  /\ watch = "drain" /\ held = {}
  /\ Looks(IF \A q \in setup.queues : queue[Dlq(q)] = <<>> THEN "ok" ELSE "dead", {})

TimeOut ==
  /\ setup.timeout /\ watch \in {"look", "settle", "again"}
  /\ Looks("late", {})

-----------------------------------------------------------------------------
RequestStep(c) == CheckDepth(c) \/ PutHide(c) \/ Scan(c) \/ Send(c) \/ Answer(c)

HandlerStep(h) == Begin(h) \/ Succeed(h) \/ Fail(h)

OpStep == RequeueItem \/ RequeueFails \/ CliPut

WatchStep ==
  \/ StartWatch \/ ReadActive \/ Settle \/ EndWatch
  \/ \E q \in setup.queues : ReadQueue(q)

Next ==
  \/ \E c \in Clients : Receive(c) \/ RequestStep(c)
  \/ \E q \in setup.queues : Take(q) \/ Requeue(q) \/ CliTake(q)
  \/ \E h \in held : HandlerStep(h)
  \/ \E n \in Names : DrainQueue(n)
  \/ \E h \in hides : DeleteHide(h)
  \/ OpStep \/ WatchStep \/ TimeOut \/ Crash \/ Boot

\* Workers poll, handlers and the workflow command go on.
Fairness ==
  /\ \A q \in {<<"q1">>, <<"q2">>, <<"q3">>} : WF_vars(q \in setup.queues /\ Take(q))
  /\ WF_vars(\E h \in held : HandlerStep(h))
  /\ WF_vars(WatchStep)

Spec == Init /\ [][Next]_vars /\ Fairness

-----------------------------------------------------------------------------
\* Items that were never tried: those that backpressure let in.
FreshIn(s) == {i \in DOMAIN s : s[i].tries = 0}
Fresh(q)   == FreshIn(queue[Live(q)])

\* Which routes of which clients lead to q, and which of these have passed the
\* check and still have their item to send.
Places(q) ==
  UNION {{<<c, i>> : i \in {j \in DOMAIN Destinations(c) : Destinations(c)[j] = q}} : c \in Clients}

Passed(c, i) ==
  CASE req[c].pc = "check" -> i < req[c].i
    [] req[c].pc = "put" -> TRUE
    [] req[c].pc \in {"scan", "send"} -> i >= req[c].i
    [] OTHER -> FALSE

Admitted(q) == {p \in Places(q) : Passed(p[1], p[2])}

\* max_depth holds up to the items of requests that read the depth at the same
\* time: the check comes before the hide is written and the item enqueued, and a
\* request with two routes to the queue reads it twice before it sends.  All items
\* but the one that found the last place may overshoot (api_tannery.go:453-469,
\* 788-797).
Bound(q) == setup.maxDepth[q] - 1 + Cardinality(Places(q))

DepthBounded ==
  "cli" \notin setup.ops =>
    \A q \in setup.queues : setup.maxDepth[q] > 0 =>
      Cardinality(Fresh(q)) + Cardinality(Admitted(q)) <= Bound(q)

\* An item whose request was answered with 202 is in a file, in somebody's hands,
\* done or withdrawn, across redeliveries, requeues and restarts; exempt is what a
\* crash took out of a hand, and what was saved last by a save that failed (T2.4:
\* a requeue makes up for it in the dead-letter queue).
InFiles == UNION {Ids(file[n]) : n \in Names}

HeldIds == {h.item.id : h \in held}
Kept    == InFiles \cup HeldIds \cup Ids(op.items) \cup done \cup withdrawn \cup failed \cup lost

AnsweredIsKept == answered \subseteq Kept

\* A workflow of one stage and one attempt ends, with the timeout or quiet: nothing
\* is queued or in a handler when it stops the workers, and what it reports is what
\* happened (cmd_workflow.go:374-423).  With a second attempt the two rounds can
\* miss the item twice.
Finished == held = {} /\ \A q \in setup.queues : queue[Live(q)] = <<>>

WorkflowCompletes ==
  /\ [][watch' = "drain" => Finished']_watch
  /\ (watch = "look") ~> \/ watch = "late"
                         \/ Finished /\ watch = (IF answered \subseteq done THEN "ok" ELSE "dead")

-----------------------------------------------------------------------------
(***************************************************************************)
(* The inductive invariant of the two; TanneryProofs proves it.            *)
(***************************************************************************)
ItemId == (Nat \X Nat) \cup (Clients \X Nat \X Nat)
Item   == [id : ItemId, hide : Clients \X Nat, tries : Nat]

Stages  == {"idle", "check", "put", "scan", "send", "answer"}
Request == [pc : Stages, sent : Nat, i : Nat \ {0}]

OpType == [pc : {"requeue", "rollback", "cli"}, q : setup.queues, items : Seq(Item) \ {<<>>}]

\* Requests, workers and operators are at one of their stages; an operator whose
\* call is not over has an item in hand, `dlq requeue` exactly one.
TypeOK ==
  /\ setup \in Setups
  /\ up \in BOOLEAN
  /\ queue \in [Names -> Seq(Item)] /\ file \in [Names -> Seq(Item)]
  /\ held \subseteq [item : Item, from : setup.queues, pc : {"taken", "active"}]
  /\ hides \subseteq Clients \X Nat
  /\ req \in [Clients -> Request]
  /\ op = Idle \/ op \in OpType
  /\ op.pc = "cli" => Tail(op.items) = <<>>
  /\ answered \cup done \cup withdrawn \cup failed \cup lost \subseteq ItemId

\* A request at its i-th queue has one; when it answers, it has been at all.
AtQueue ==
  \A c \in Clients :
    /\ req[c].pc \in {"check", "scan", "send"} => req[c].i <= Len(Destinations(c))
    /\ req[c].pc = "put" => req[c].i = 1
    /\ req[c].pc = "answer" => req[c].i = Len(Destinations(c)) + 1

\* Whatever was enqueued before the present queue of a request is kept already,
\* and so is whatever a redelivery may find queued.
SentIsKept ==
  \A c \in Clients : req[c].pc \in {"scan", "send", "answer"} =>
    \A j \in 1..req[c].i - 1 : Id(c, j) \in Kept

QueuedIsKept == \A n \in Names : Ids(queue[n]) \subseteq Kept

\* What the slice does not have, the next save takes out of the file: its last
\* save has failed.
FileBehind == \A n \in Names : Ids(file[n]) \subseteq Ids(queue[n]) \cup failed

\* Only `dlq requeue` gives an item its attempts back.
TriedItems ==
  "cli" \notin setup.ops =>
    /\ op.pc # "cli"
    /\ \A i \in DOMAIN op.items : op.items[i].tries # 0
    /\ \A q \in setup.queues : FreshIn(queue[Dlq(q)]) = {} /\ FreshIn(file[Dlq(q)]) = {}

\* What a restart loads is within the bound too.
FileBounded ==
  "cli" \notin setup.ops =>
    \A q \in setup.queues : setup.maxDepth[q] > 0 =>
      Cardinality(FreshIn(file[Live(q)])) <= Bound(q)

Inductive ==
  /\ TypeOK /\ AtQueue
  /\ SentIsKept /\ QueuedIsKept /\ FileBehind /\ AnsweredIsKept
  /\ TriedItems /\ FileBounded /\ DepthBounded
==============================================================================
