-------------------------------- MODULE Serve --------------------------------
(***************************************************************************)
(* `leather serve` (internal/cli/cmd_serve.go, RunServe): start, the loop  *)
(* over signals, the reload on SIGHUP, and the shutdown, over the          *)
(* scheduler, the handlers of the agents and the HTTP polling worker.  The *)
(* queue files outlive the process.                                        *)
(***************************************************************************)
EXTENDS HttpPoll

CONSTANTS
  Setups     \* the instances that are checked; `boots` bounds the starts of the
             \* process, `edits` the changes of files, `contents` are what they
             \* may become

VARIABLES
  setup,
  phase,    \* see Phases
  boots,
  disk,     \* disk[a]: the agent's files
  edits,    \* changes of files so far
  loaded,   \* loaded[a]: the files as LoadDir read them
  fresh,    \* history: agents whose files have not changed since LoadDir
  hashes,   \* agentHashes[a]: the content of the files at the registration, if any
  todo,     \* agents the start or the reload has yet to register
  worker,   \* a worker definition is in the worker directory
  timedOut  \* history: the drain of this process timed out

serveVars ==
  <<setup, phase, boots, disk, edits, loaded, fresh, hashes, todo, worker, timedOut>>
vars == <<schedVars, queueVars, pollVars, serveVars>>

ASSUME SetupsOK ==
  \A s \in Setups :
    /\ s.files \in [Agents -> AgentFile] /\ s.queued \in Seq(Item) /\ s.keys \subseteq Keys
    /\ s.contents \in [Agents -> SUBSET AgentFile]
    /\ s.edits \in Nat /\ s.boots \in Nat /\ s.maxJobs \in Nat
    /\ s.reloads \in BOOLEAN /\ s.stops \in BOOLEAN
    /\ s.worker \in {"none", "later", "start"}

Phases == {"down", "starting", "serving", "reloading", "replacing", "draining", "stopping",
           "cancelled"}
Up    == phase # "down"
Ticks == phase \notin {"down", "starting", "cancelled"}

Init ==
  /\ setup \in Setups
  /\ SchedInit /\ QueueInit /\ NoPoller
  /\ queue = [n \in Names |-> IF n = "in" THEN setup.queued ELSE <<>>]
  /\ file = queue
  /\ accepted = KeysOf(setup.queued)
  /\ phase = "down" /\ boots = 0
  /\ disk = setup.files /\ edits = 0 /\ loaded = disk /\ fresh = Agents
  /\ hashes = [a \in Agents |-> {}]
  /\ worker = (setup.worker = "start") /\ todo = {} /\ timedOut = FALSE

-----------------------------------------------------------------------------
(***************************************************************************)
(* Mutants: a known agent is never compared; a drain without a limit.      *)
(***************************************************************************)
KnownIsUnchanged(a) == jobs[a] # NoJob
NoLimit == FALSE

-----------------------------------------------------------------------------
(* Start.                                                                  *)

\* An agent that does not load is only of interest when it has a job.
LoadDir ==
  /\ loaded' = disk /\ fresh' = Agents
  /\ todo' = {a \in Agents : disk[a].kind # "none" \/ jobs[a] # NoJob}

\* Configuration, agents, lock, queues; the supervisor's workers are made,
\* which seeds them, before the agents are registered.
Boot ==
  /\ phase = "down" /\ boots < setup.boots
  /\ boots' = boots + 1
  /\ LoadDir
  /\ phase' = "starting"
  /\ IF worker THEN NewPoller ELSE UNCHANGED pollVars
  /\ UNCHANGED <<schedVars, queueVars, setup, disk, edits, hashes, worker, timedOut>>

Put(a, f) == /\ regs < MaxReg /\ regs' = regs + 1
             /\ jobs' = [jobs EXCEPT ![a] = Registered(f)]

\* registerAgentJob and the hash of the files as they are now.  An agent without
\* a schedule is not registered, and that is no error.
RegisterAgent(a, f) ==
  CASE f.kind \in {"cron", "once"} -> Put(a, f) /\ hashes' = [hashes EXCEPT ![a] = {disk[a]}]
    [] f.kind = "unscheduled" -> /\ jobs' = [jobs EXCEPT ![a] = NoJob] /\ regs' = regs
                                 /\ hashes' = [hashes EXCEPT ![a] = {disk[a]}]
    [] f.kind = "refused" -> /\ jobs' = [jobs EXCEPT ![a] = NoJob] /\ regs' = regs
                             /\ hashes' = IF jobs[a] = NoJob THEN hashes
                                          ELSE [hashes EXCEPT ![a] = {}]

RegisterAtStart(a) ==
  /\ phase = "starting" /\ (NoPoller \/ Seeded) /\ a \in todo
  /\ todo' = todo \ {a}
  /\ RegisterAgent(a, loaded[a])
  /\ UNCHANGED <<due, slots, queueVars, pollVars, setup, phase, boots, disk, edits, loaded,
                 fresh, worker, timedOut>>

\* sup.Start, sched.Start, and the loop.
StartWorker == pc' = IF Seeded THEN "idle" ELSE pc

StartServing ==
  /\ phase = "starting" /\ (NoPoller \/ Seeded) /\ todo = {}
  /\ phase' = "serving" /\ StartWorker
  /\ UNCHANGED <<schedVars, queueVars, left, taken, listed, seen, setup, boots, disk, edits,
                 loaded, fresh, hashes, todo, worker, timedOut>>

-----------------------------------------------------------------------------
(* The directories change, and SIGHUP has them read again.                 *)

\* A change may be taken back.
Edit(a) ==
  /\ edits < setup.edits /\ edits' = edits + 1
  /\ \E f \in setup.contents[a] \ {disk[a]} : disk' = [disk EXCEPT ![a] = f]
  /\ fresh' = fresh \ {a}
  /\ UNCHANGED <<schedVars, queueVars, pollVars, setup, phase, boots, loaded, hashes, todo,
                 worker, timedOut>>

AddWorker ==
  /\ setup.worker = "later" /\ ~worker
  /\ worker' = TRUE
  /\ UNCHANGED <<schedVars, queueVars, pollVars, setup, phase, boots, disk, edits, loaded, fresh,
                 hashes, todo, timedOut>>

Reload ==
  /\ phase = "serving" /\ setup.reloads
  /\ phase' = "reloading" /\ LoadDir
  /\ UNCHANGED <<schedVars, queueVars, pollVars, setup, boots, disk, edits, hashes, worker, timedOut>>

IsUnchanged(a) == jobs[a] # NoJob /\ hashes[a] = {disk[a]}

Deregister(a) ==
  /\ jobs' = [jobs EXCEPT ![a] = NoJob] /\ regs' = regs
  /\ hashes' = [hashes EXCEPT ![a] = {}]

\* An agent that did not load is removed; one whose files have the content they
\* had at its registration stays; the others are registered anew.
Sync(a) ==
  /\ phase = "reloading" /\ a \in todo
  /\ todo' = todo \ {a}
  /\ CASE loaded[a].kind = "none" -> Deregister(a)
       [] loaded[a].kind # "none" /\ IsUnchanged(a) -> UNCHANGED <<regs, jobs, hashes>>
       [] OTHER -> RegisterAgent(a, loaded[a])
  /\ UNCHANGED <<due, slots, queueVars, pollVars, setup, phase, boots, disk, edits, loaded,
                 fresh, worker, timedOut>>

\* old.Drain waits for the old worker, which stops when the context is cancelled.
ReplaceWorker ==
  /\ phase = "reloading" /\ todo = {} /\ NoPoller
  /\ IF worker THEN phase' = "replacing" /\ NewPoller
               ELSE phase' = "serving" /\ UNCHANGED pollVars
  /\ UNCHANGED <<schedVars, queueVars, setup, boots, disk, edits, loaded, fresh, hashes, todo,
                 worker, timedOut>>

EndReload ==
  /\ phase = "replacing" /\ Seeded
  /\ phase' = "serving" /\ StartWorker
  /\ UNCHANGED <<schedVars, queueVars, left, taken, listed, seen, setup, boots, disk, edits,
                 loaded, fresh, hashes, todo, worker, timedOut>>

-----------------------------------------------------------------------------
(* Shutdown.                                                               *)

Becomes(p) ==
  /\ phase' = p
  /\ UNCHANGED <<schedVars, queueVars, pollVars, setup, boots, disk, edits, loaded, fresh, hashes,
                 todo, worker>>

JobsDone == setup.maxJobs > 0 /\ jobCount >= setup.maxJobs

\* A signal or the run duration, or enough jobs.
Stop == /\ phase = "serving" /\ (setup.stops \/ JobsDone)
        /\ Becomes("draining") /\ timedOut' = timedOut

\* sched.Drain: no handler is running, or the time is over.  The scheduler goes
\* on with its ticks.
TimeIsOver == TRUE

DrainEnds == /\ phase = "draining" /\ (Busy = {} \/ TimeIsOver)
             /\ Becomes("stopping") /\ timedOut' = (Busy # {})

\* Supervisor.Drain, then cancel().
CancelContext ==
  /\ phase = "stopping" /\ NoPoller
  /\ Becomes("cancelled") /\ timedOut' = timedOut

\* What only the process knew is gone.
Unsaved == UNION {KeysOf(queue[n]) \ KeysOf(file[n]) : n \in Names}

ProcessEnds ==
  /\ phase' = "down"
  /\ gone' = gone \cup Held \cup KeysOf(taken) \cup Unsaved
  /\ queue' = file
  /\ regs' = 0 /\ due' = {}
  /\ jobs' = [a \in Agents |-> NoJob] /\ slots' = [s \in Slots |-> NoRun]
  /\ Stopped
  /\ todo' = {} /\ hashes' = [a \in Agents |-> {}] /\ jobCount' = 0 /\ timedOut' = FALSE
  /\ UNCHANGED <<file, done, accepted, setup, boots, disk, edits, loaded, fresh, worker>>

Exit  == phase = "cancelled" /\ ProcessEnds /\ faults' = faults
Crash == Up /\ ProcessEnds /\ faults' = faults

-----------------------------------------------------------------------------
MainStep ==
  \/ \E a \in Agents : RegisterAtStart(a) \/ Sync(a)
  \/ StartServing \/ ReplaceWorker \/ EndReload \/ DrainEnds \/ CancelContext \/ Exit

Tick == (Ticks /\ CollectDue) \/ \E x \in due : StartDue(x, Handler(x))

Work(s) ==
  \/ TakeItem(s) \/ FindsEmpty(s)
  \/ ExpansionFails(s) \/ RunSucceeds(s) \/ RunFails(s)
  \/ FinishRun(s, setup.maxJobs) \/ Release(s)

Next ==
  \/ Boot \/ MainStep
  \/ Reload \/ Stop \/ Crash
  \/ AddWorker \/ \E a \in Agents : Edit(a)
  \/ /\ Tick \/ \E a \in Agents : Ticks /\ Ripen(a)
     /\ UNCHANGED <<queueVars, pollVars, serveVars>>
  \/ (\E s \in Slots : Work(s)) /\ UNCHANGED <<pollVars, serveVars>>
  \/ PollStep(setup.keys) /\ UNCHANGED serveVars

\* Signals, edits, crashes and the passing of time are not forced; what the
\* process has begun goes on, a requested stop is seen, and an agent run ends.
Fairness ==
  /\ WF_vars(MainStep) /\ WF_vars(JobsDone /\ Stop)
  /\ WF_vars(Tick /\ UNCHANGED <<queueVars, pollVars, serveVars>>)
  /\ \A s \in Slots : WF_vars(Work(s) /\ UNCHANGED <<pollVars, serveVars>>)
  /\ WF_vars(PollStep(setup.keys) /\ UNCHANGED serveVars)

Spec == Init /\ [][Next]_vars /\ Fairness

-----------------------------------------------------------------------------
\* The variables hold values of their types; the failed runs of an item stay
\* within the limit that sends it to the dead-letter queue.
TypeOK ==
  /\ regs \in 0 .. MaxReg /\ jobs \in [Agents -> Job \cup {NoJob}]
  /\ due \subseteq [agent : Agents, reg : 1 .. MaxReg, file : AgentFile]
  /\ slots \in [Slots -> Run \cup {NoRun}]
  /\ queue \in [Names -> Seq(Item)] /\ file \in [Names -> Seq(Item)]
  /\ done \subseteq Keys /\ gone \subseteq Keys /\ accepted \subseteq Keys
  /\ jobCount \in Nat /\ faults \in 0 .. MaxFaults
  /\ pc \in {"none", "seed", "refill", "idle", "polled"} /\ left \in Nat
  /\ taken \in Seq(Item) /\ listed \subseteq Keys /\ seen \subseteq Keys
  /\ setup \in Setups /\ phase \in Phases /\ boots \in 0 .. setup.boots
  /\ disk \in [Agents -> AgentFile] /\ loaded \in [Agents -> AgentFile]
  /\ edits \in 0 .. setup.edits /\ fresh \subseteq Agents
  /\ hashes \in [Agents -> SUBSET AgentFile] /\ todo \subseteq Agents
  /\ worker \in BOOLEAN /\ timedOut \in BOOLEAN

\* A job object has at most one handler, and is marked as running exactly while
\* it has one, however ticks, reloads and ends of handlers interleave, and though
\* the slot of the last handler may not be free when the next one starts
\* (scheduler.go:166, 172: the mark is set before the handler starts).
OneRunPerJob ==
  /\ \A s, t \in Running : s # t => slots[s].reg # slots[t].reg
  /\ \A a \in Agents : jobs[a] # NoJob =>
       (jobs[a].running <=> \E s \in Running : slots[s].reg = jobs[a].reg)

\* An item that the queue acknowledged is in a queue, with a handler or the
\* seeding worker, or done, unless a crash, an exit or a failed expansion of the
\* prompt took it: no failed run, failed save or full batch drops one
\* (cmd_serve.go:1395-1447).
ItemsAccounted ==
  accepted \subseteq KeysOf(queue["in"]) \cup KeysOf(queue["dlq"]) \cup Held
                    \cup KeysOf(taken) \cup done \cup gone

Copies(k) ==
  Cardinality({i \in DOMAIN queue["in"] : queue["in"][i].key = k})
  + Cardinality({i \in DOMAIN taken : taken[i].key = k})
  + Cardinality({s \in Busy : k \in KeysOf(slots[s].item)})

\* No save failed, the first process found no item twice in the queue, and no worker
\* was added by a reload, which may seed itself while a handler holds an item.
Distinct(items) == \A i, j \in DOMAIN items : items[i].key = items[j].key => i = j

Undisturbed == faults = 0 /\ Distinct(setup.queued) /\ setup.worker # "later"

\* Undisturbed, what the endpoint lists again and again is in the works at most
\* once, across restarts too (http_poll.go:59-62).
PolledOnce == Undisturbed => \A k \in Keys : Copies(k) <= 1

\* When the agents are synchronized, exactly the agents with a schedule have a
\* job, and it is the one of the files that were loaded.  Exempt are agents whose
\* files change while the reload runs, and a job that has the hash of other files
\* than its own, because they changed between LoadDir and its registration: it is
\* stale, and stays so until the files change again (cmd_serve.go:1552-1579).
ReloadIsCurrent ==
  phase = "reloading" =>
    \A a \in {b \in fresh \ todo : jobs[b] # NoJob => hashes[b] = {jobs[b].file}} :
      IF loaded[a].kind \in {"cron", "once"}
        THEN jobs[a] # NoJob /\ jobs[a].file = loaded[a]
        ELSE jobs[a] = NoJob

-----------------------------------------------------------------------------
(* What the invariants rest on.                                              *)

\* A registration belongs to one agent: two jobs never have the same, and what
\* was collected or started with the registration of a job is for its agent.
Identities ==
  /\ \A a \in Agents : jobs[a] # NoJob => jobs[a].reg <= regs
  /\ \A a, b \in Agents :
       jobs[a] # NoJob /\ jobs[b] # NoJob /\ jobs[a].reg = jobs[b].reg => a = b
  /\ \A x \in due : x.reg <= regs
  /\ \A x \in due, a \in Agents : jobs[a] # NoJob /\ jobs[a].reg = x.reg => x.agent = a
  /\ \A s \in Busy : slots[s].reg <= regs
  /\ \A s \in Busy, a \in Agents :
       jobs[a] # NoJob /\ jobs[a].reg = slots[s].reg => slots[s].agent = a

\* What the tick collected is not running.
DueIsIdle ==
  /\ \A x, y \in due : x.reg = y.reg => x = y
  /\ \A x \in due, s \in Running : x.reg # slots[s].reg

\* Only an agent run has an item.
ItemsInRuns ==
  \A s \in Busy :
    /\ Len(slots[s].item) <= 1 /\ (slots[s].pc # "run" => slots[s].item = <<>>)
    /\ slots[s].pc \in {"take", "run"} => slots[s].left >= 1

\* No handler runs before the process serves; without a process there is nothing.
QuietAtStart ==
  /\ phase \in {"down", "starting"} => Busy = {} /\ due = {}
  /\ phase = "down" => NoPoller /\ jobs = [a \in Agents |-> NoJob]

\* The files that were loaded are those on the disk, unless they have changed; only
\* what was loaded is registered at the start, and only a schedule makes a job.
Versions ==
  \A a \in Agents :
    /\ a \in fresh => loaded[a] = disk[a]
    /\ phase = "starting" /\ a \in todo => loaded[a].kind # "none"
    /\ jobs[a] # NoJob => jobs[a].file.kind \in {"cron", "once"}

\* Nothing is at two places.
OnePlace ==
  /\ Distinct(queue["in"]) /\ Distinct(taken)
  /\ KeysOf(queue["in"]) \cap KeysOf(taken) = {}
  /\ \A s \in Busy : KeysOf(slots[s].item) \cap (KeysOf(queue["in"]) \cup KeysOf(taken)) = {}
  /\ \A s, t \in Busy : s # t => KeysOf(slots[s].item) \cap KeysOf(slots[t].item) = {}

\* A worker that is there from the start has taken every item out of the queue
\* before the first handler runs, and knows what is in the works when it polls.
WorkerKnows ==
  /\ worker = (setup.worker = "start")
  /\ pc = "none" => NoPoller /\ (phase = "down" \/ ~worker)
  /\ pc # "none" => worker /\ phase # "down"
  /\ pc \in {"seed", "refill"} => phase = "starting"
  /\ pc \in {"idle", "polled"} => phase # "starting"
  /\ pc = "seed" => left = Len(queue["in"])
  /\ pc = "refill" => KeysOf(queue["in"]) \subseteq seen
  /\ pc \in {"idle", "polled"} => taken = <<>> /\ KeysOf(queue["in"]) \cup Held \subseteq seen

Exclusive == Undisturbed => file = queue /\ OnePlace /\ WorkerKnows

Inductive ==
  /\ TypeOK /\ Identities /\ DueIsIdle /\ OneRunPerJob
  /\ ItemsInRuns /\ QuietAtStart /\ ItemsAccounted
  /\ Versions /\ ReloadIsCurrent
  /\ Exclusive

-----------------------------------------------------------------------------
\* A process without an HTTP worker that begins to shut down is gone in the end,
\* however long its agents run and however many become due (cmd_serve.go:1175-1194).
StopEnds == (phase = "draining" /\ NoPoller) ~> phase = "down"

\* The job object with registration r waits for a handler, has one, and is gone.
IsWaiting(r)  == \E a \in Agents : jobs[a] # NoJob /\ jobs[a].reg = r /\ jobs[a].next = "due"
IsHandled(r)  == \E s \in Running : slots[s].reg = r
IsReplaced(r) == \A a \in Agents : jobs[a] = NoJob \/ jobs[a].reg # r

\* A tick that finds every slot taken by other jobs only delays the job: unless
\* they take all the slots again and again, the job whose time has come gets a
\* handler, a reload replaces it, or the process stops (scheduler.go:178-183).
DueJobRuns ==
  <>[](Busy # Slots) =>
    \A r \in 1 .. MaxReg :
      (Ticks /\ IsWaiting(r)) ~> (IsHandled(r) \/ IsReplaced(r) \/ ~Ticks)

\* Supervisor.Drain documents that it waits "after the context is cancelled"
\* (supervisor.go:37-38); RunServe calls it before.
ServeStops == (phase = "draining") ~> phase = "down"

\* Comment T2.3: the drain comes before the cancel "so jobs can finish their
\* current turn cleanly"; only one that takes too long is cut.
CutOnlyAfterTimeout == phase = "cancelled" /\ Busy # {} => timedOut
=============================================================================
