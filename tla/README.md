# Leather in TLA+

Specifications of [leather](../src/README.md), a Go program that runs LLM
agents on schedules, on queues and on webhooks. Two paths lead through it.

- The *tannery*: a webhook or an intake request stores its payload (a *hide*),
  puts an item on a durable file queue, and a *curing* worker takes the item,
  runs an agent on the hide, writes an *artifact*, forwards it, retries or
  dead-letters what fails, and deletes the hide.
- `leather serve`: a scheduler starts the jobs of the agents, which read a
  queue that an HTTP poller may fill; each run is a loop of LLM completions and
  tool calls, over HTTP or over the pipes of MCP servers. What a job is, and
  which tools it may call, is put together from configuration, agent files and
  skills when the process starts, and again on SIGHUP.

The modules model both with their concurrency, their failing disk writes, their
deadlines and their crashes. All paths below are relative to `src/`.

## The system

| Component | State | Operations | Interacts with | What is hard | What makes it correct |
|---|---|---|---|---|---|
| File queue (`internal/queue/queue.go`, `internal/fileutil`) | the item slice of one open queue; its JSONL file | Enqueue, Dequeue, DequeueByIDs, Drain, Scan, load | every producer and worker | a save can fail after the slice changed; a crash can come between any two operations | order, durability of what was acknowledged, no second delivery |
| Queue manager (`internal/queue/manager.go`) | the map from names to open queues; the directory | Get, Enqueue, EnqueueIfAbsent, Depth, NamesWithPrefix, NamesContaining, Delete | workers that delete emptied single-use queues | the map has one lock, each queue another, the directory none: handles outlive Delete | a static queue keeps what it acknowledged; one delivery per enqueue |
| Curing worker, static queue (`internal/curing/worker.go`) | a semaphore, the goroutines that own an item each | poll, process, retry or dead-letter, output queue, hide cleanup | queues, hide store, artifact store, runner | items are out of the queue while they run; each step of a handler can fail; a panic is recovered; the process can die | every item ends; one artifact per item; bounded retries; the hide lives as long as it is needed |
| Curing worker, prefix scan | a directory of single-use queues | scan, process, delete the emptied queue, delete the shared hide | manager, sibling workers of the fan-out | whether a sibling still needs the hide is read from the directory | the hide outlives the last sibling and no longer |
| Collecting worker (fan-in) | groups of items in one queue, or one queue per group | group, collect N, evict stale groups, requeue or dead-letter a failed group | the workers that feed it | a group is moved item by item; a late item meets an eviction or a deletion | a group is collected once and completely, or is in the DLQ |
| Tannery API (`internal/cli/api_tannery.go`) | the directory lock | webhook, intake, hides, DLQ requeue, drain | queues, hides | the depth check, the hide and the enqueue are separate steps; one of several enqueues fails; the sender delivers again | bounded depth; what was answered with 202 is kept |
| Intake routing (`internal/curing/intake.go`, `router.go`, `internal/config/tannery.go`) | none | Match, MatchAll, ResolveRouting, ValidateTannery | API | precedence of overrides | a request goes where the configuration says |
| Workflow run, `dlq` command (`internal/cli/cmd_workflow.go`, `cmd_dlq.go`) | none of their own | waitForQuiescence; requeue of one item | queues, workers | two reads that are not one; two writes that are not one | it stops when nothing is left |
| Hide and artifact stores (`internal/hide`, `internal/artifact`) | a file per hide or artifact | Put, Get, Cut, Delete, Write | workers, API, agents' tools | paging of a hide under a running agent | a page is delivered once as new |
| Scheduler (`internal/scheduler`) | the job map, a semaphore, `jobs.json` | Register, Deregister, tick, run, Drain | serve | a registration or the end of a run between the two halves of a tick | one run of a job at a time, bounded concurrency, every due job runs |
| Serve (`internal/cli/cmd_serve.go`) | contexts, supervisors, the hashes of the agents' files | start, reload, shutdown | everything | files change while they are read; the order of drain, cancel and reload | a job is the one of its files; shutdown ends |
| Queue jobs and HTTP poller (`cmd_serve.go`, `internal/worker`) | the batch; the set of keys already seen | batch, retry, dead letter; seed, poll | queues, runner | the seen set dies with the process; a save fails after it changed | an item is run or accounted for; a resource is queued once |
| Runner and session (`internal/runner`, `internal/session`) | messages, turns, rounds, repeated calls, hide pages | run a turn, handle a call, clear, summarize, compact | LLM, tools | the model may answer anything; three things cut the window | the run ends; required tools act, acts are not repeated |
| Tool executor (`internal/tool`) | token buckets, attempts, `outbound-dlq` | attempt, back off, wait for the host | runner, MCP | concurrent callers of one host or one server | rate held, attempts bounded, calls end |
| MCP client (`internal/mcp`) | one child process, two pipes, a mutex | start, call, recreate, close | executor | an answer that arrives after its call timed out; two callers that recreate one server | an answer goes to its request; a fresh client stays |
| Startup: configuration, agent files, tool registry, `validate` (`internal/config`, `yamlx`, `agent`, `tool/registry.go`, `cli/cmd_validate.go`) | none after start | Load, LoadDir, Register, resolve a scope, validate | serve | four layers read in five passes; lists, scalars and blocks inherited by different rules; one resolution coded twice | a job is what was written; what validate accepts starts |
| Event bus, run cache, cron, schema tables, CLI helpers | ring buffers; files | publish, get, put, parse, print | UI, commands | | see below |

`PROJECT.json` has one entry per component and says what is modelled of it.

## The modules

| Module | Models | Extends / uses |
|---|---|---|
| `Selection` | the loop that filters a slice, as a recursive function | |
| `SelectionProofs` | what that loop returns | `Selection`, TLAPS |
| `DurableFifo` | what a caller of `internal/queue` may rely on, without the file | |
| `FileQueue` | one `FileQueue`: slice, JSONL file, failing saves, crashes | `Selection`; refines `DurableFifo` |
| `QueueManager` (`MCQueueManager`) | one name of the manager's map: handles, producers, the worker that deletes emptied single-use queues | |
| `QueueProofs` | the theorems of the two, with the refinement | `FileQueue`, `QueueManager`, `SelectionProofs` |
| `ItemLife` | what an item's sender may rely on: the life of an item, without queues, files and goroutines | |
| `CuringWorker` (`MCCuringWorker`) | the workers of static queues with intake, hide store and artifact store | refines `ItemLife` |
| `CuringWorkerProofs` | its theorems, with the refinement | `CuringWorker`, TLAPS |
| `CuringEvents` | names shared by the next three | |
| `CuringPrefix` | a fan-out: the webhook's sends, the workers of prefix queues, the shared hide | `CuringEvents` |
| `CuringCollect` (`MCCuringCollect`) | the collecting worker, with a specification of its own | `CuringEvents` |
| `CuringFan` (`MCCuringFan`) | both together: they meet in the directory of queues | `CuringPrefix`, `CuringCollect` |
| `CuringFanProofs` | the theorems of the two, and that `CuringFan` implements `CuringCollect` | `CuringFan`, `SelectionProofs` |
| `Routing` | where an intake goes, and what is checked of the routes | `Selection` |
| `Tannery` (`MCTannery`) | the HTTP API, the operator, `dlq requeue`, `workflow run` over the static queues | `Routing` |
| `TanneryProofs` | its theorems | `Tannery`, `SelectionProofs` |
| `Scheduler` | jobs, ticks, the semaphore | |
| `AgentQueue` | the handler of a job, with its queue and DLQ | `Scheduler` |
| `HttpPoll` | the HTTP polling worker that fills that queue | `AgentQueue` |
| `Serve` (`MCServe`) | the process: start, signals, reload, drain, exit, crash | `HttpPoll` |
| `ServeProofs` | the theorems of the whole process | `Serve`, `SelectionProofs` |
| `Session` | the window of messages: Add, Reset, summarize, CompactLatestHidePage | |
| `AgentRun` (`AgentRunMC`) | one run of an agent | `Session` |
| `AgentRunProofs` | the theorems of runs and sessions, and of what a run starts from | `AgentRun`, `StartupIntent`, `SelectionProofs` |
| `ToolCallers` | the concurrent callers | |
| `HostLimiter`, `McpClient` | the token bucket of a host; the clients of an MCP server | `ToolCallers` |
| `ToolCalls` (`MCToolCalls`) | the executor's attempts over both | `McpClient`, `HostLimiter` |
| `ToolCallsProofs` | the theorems of calls, clients and limiter | `ToolCalls`, TLAPS |
| `Yaml` | the lines of the YAML subset and the readers all loaders share | `Selection` |
| `Config`, `AgentFiles`, `ToolScope` | the loaders of configuration, agents, skills and toolsets | `Yaml` |
| `Startup` | from files to a verdict of validate and to prepared jobs | the three loaders |
| `StartupIntent` (`MCStartup`) | what an operator means, how it is written down, and the comparison of the two | `Startup` |

The mutants in the modules (marked as such) are plausible errors of single
definitions. They are in no specification; each shows that one property notices
the error when it takes the definition's place.

### FileQueue and DurableFifo

`items` is `q.items`, `file` the JSONL file, `open` says whether a process has
the queue. An entry is one call of Enqueue (its `ticket`); the `id` is what
DequeueByIDs selects on, and two entries may share it. The mutex makes each
operation one step and the rename of `AtomicWriteFileFunc` makes a save all or
nothing, so what is left are the four ways the operations treat a failing save:
Enqueue keeps the item and returns the error, Dequeue rolls back, DequeueByIDs
rolls back to a different order, Drain does not roll back. `Crash` and `Open`
come between any two operations. `erred`, `handed`, `jumped` and `dropped` are
history.

`DurableFifo` is the promise: entries leave only into a caller's hands, keep
their order, and survive the process, except those whose Enqueue returned an
error. Its `intact` says that no DequeueByIDs and no Drain has failed so far;
after that nothing is promised. Under the mapping `pending <- IF open THEN items
ELSE Loaded` the queue implements it. That no entry is handed out twice and that
entries keep their order are part of the promise.

### QueueManager

The manager's lock, the queue's lock and the directory are three things.
`current` is the handle the map has for the name, `handles` all handles ever
opened (threads may keep one across a Delete and write through it), `disk` the
file. `GetForEnqueue`/`ManagerEnqueue` are the two steps of
`Manager.Enqueue`; `ScanForId` is the first step of `EnqueueIfAbsent`. The
scanning worker (`ScanGet`, `ScanDequeue`, `ScanFindsEmpty`, `ScanForget`,
`ScanRemove`) and the handlers past their item (`Closer...`) take the steps of
`runPrefixScan`, with `Manager.Delete` split where its lock ends. `mode` is
chosen initially: a static queue with three producers, or a single-use queue
with one. Saves and deletions succeed here; `FileQueue` has the saves that fail,
`CuringPrefix` the deletions.

### CuringWorker

`queue[n]` and `file[n]` are as in `FileQueue`, for a live and a dead-letter
queue per curing; `held` has one record per goroutine that owns an item, with
its stage (`pc`): waiting for the semaphore, load, run, write, put and send of
the output, cleanup, or failed/dead on the way back to a queue. `intake` has the
requests between `hideStore.Put` and their last enqueue. Every step that can
fail has a failing disjunct enabled by `Faults`. An item is known by its hide
and its queue (`Key`); IDs are random in the code. `accepted`, `lost` and
`withdrawn` are history: acknowledged items, items that a panic or a crash
took, hides deleted by an operator or by a webhook's rollback.

The prompts, notifications, events and token accounting are left out: they
change none of this state (the reflection turns are a setup of `AgentRun`). The
artifact write is the success boundary (`worker.go:1048`), as in the code.

`ItemLife` is the promise of a static queue for one item: it waits, it is worked
on, and every attempt that fails is counted before the next one starts; it ends
with an artifact, as a dead letter, or lost to a panic or a crash, and then
nothing brings it back. `Life` reads the stage of an item off the place where it
is: a live queue, a handler before the artifact, a dead-letter queue, the
artifact store, or none of them any more. A crash is one step of many items, and
the restart brings back none of those that it took.

### CuringPrefix, CuringCollect, CuringFan

An event is its hide, whose ID is also the correlation ID and, through
`queue_pattern` and `{{correlation_id}}`, part of file names. `single[k]` is
the single-use queue of leg `k` (absent, empty, or with the item), `stage[k]`
the handler of its item, `scan[l]` the scan of a leg's worker between finding a
queue empty and deleting it, and `closers` the handlers that are through with
their item: they look whether the queue is empty, delete it, look for file
names with the hide's ID, and delete the hide. The deletion and the look for
names are one step: what happens between them can only make another handler
delete the same hide. A deletion may fail in the scan (`ScanDeleteFails`),
where a later scan repeats it, and in a handler (`CloserFails`), which is not
there to repeat it. An error of the look for names is ignored in the code, and
counts as no name (fault `names` of `CloserDeletes`).

`joined` holds the outputs that wait for the collecting worker, `groups` the
handlers of collected groups, `tick` the scan between evicting a stale group
and what follows. Time is a flag per item (`old`). `EvictsQueue`, `Parks` and
`Purges` keep apart the steps between which an output may arrive. A failed run
goes back item by item on a single-use queue (`PutsBack`) and nowhere on a
static one (`FailGroup`), as in the code. The save of an eviction may fail, and
the queue is deleted all the same (`EvictionFails`); deletions may fail, after
an eviction and after a group (`PurgeFails`, `PurgeOwnFails`).

Other saves do not fail in these modules, beside the webhook's enqueue
(`SendFails`) and the routing of an output: `FileQueue` and `CuringWorker` have
that. A static queue's group or eviction whose save fails is put in front of
other items and tried again; an item that cannot be put back or parked is
dropped with a message.

### Routing, Tannery

`Routing` has the pure functions: which routes a source and an event match,
what a request may override, and which route lists `ValidateTannery` lets the
process start with. `Tannery` runs the HTTP API over them. `req[c]` is the
handler of a request, which goes through its destinations one by one: the depth
of each queue (`CheckDepth`), the one hide (`PutHide`), the look for an item with
the delivery's ID (`Scan`) and the enqueue (`Send`), and the answer. `held` has
the items in the workers' hands, first `taken` and a moment later `active`,
which is when the worker counts them. `op` is what an operator's call has in
hand; `CliTake` and `CliPut` are the two writes of `leather dlq requeue`.
`watch` and `left` are `leather workflow run`: the queues it has still to read
in this round, and the round it is in. An item is its ID: with a delivery ID it
is that and the index of the route, so a redelivery brings the same one.

`answered`, `done`, `withdrawn`, `failed` and `lost` are history. The stages of
a handler and its output are `CuringWorker`'s.

### Scheduler, AgentQueue, HttpPoll, Serve

A job is an object of its own: `Register` replaces it, and `reg` is its
identity, so that a handler started with an old object reports to that one.
`due` is what a tick has collected under the read lock and not yet started;
`slots` has the handler of each place of the semaphore, which a handler that has
updated its job keeps for a moment (`Running`, `ReleaseSlot`). Time is what it
does to a job: its next run is later, due, or never.

A handler (`AgentQueue`) takes up to a batch of items, runs the agent once for
each, and puts a failed one back, in the queue or in the DLQ; with a failing
save, Dequeue restores the head and Enqueue keeps the item in the slice. The
poller (`HttpPoll`) first takes every item out of the queue and puts it back, to
learn their keys, and then enqueues what it has not seen.

`Serve` puts the steps of `RunServe` around them. `phase` says where its loop
is; `disk` are the agents' files, which change and change back, `loaded` what
`LoadDir` read of them and `hashes` the contents at the registration, read from
the disk a second time; `fresh` has the agents whose files did not change since
`LoadDir`. A
reload goes through the agents one by one (`Sync`), then waits for the workers
and makes new ones (`ReplaceWorker`). A shutdown drains (`DrainEnds`, with the
limit of T2.3 in the code), waits for the workers, cancels, and exits. The
process may crash at any moment and be started again from the queue files.

### Session, AgentRun

`sess` is the window as a sequence of messages, of which the session tells
apart the role, the turn, and whether it is a page, a prompt to advance, or the
calls of a round. Each message weighs one token, and the threshold is a number
of messages. A run is `Start`, then per turn `BeginTurn`, per round a completion
(`CompletionFails`, `RetryEmpty`, `RefuseText`, `AcceptText`, `RequestTools`)
and its calls one by one (`RefuseCall`, `ReplayCall`, `ExecuteCall`,
`BufferCall`, `NavigateCall`). The model may answer anything; a tool may fail.
`met` is `requiredMet`, `completed` the successful executions of each call,
counted up to `max_repeats` (`EffectiveMax`), `shown` the furthest page the model has seen of each hide.

### ToolCallers, HostLimiter, McpClient, ToolCalls

`HostLimiter` is the bucket of one host in ticks: a caller that finds no token
sleeps and then goes, with the token it waited for or without one if another
sleeper had it. `ideal` is a bucket that every request let through is taken from,
`paid` and `free` count those with and without a token. `McpClient` is one server's process on two
pipes: `owners[i]` made the request with ID `i`, `pipe` has what the server has
sent, and `decoders` counts the goroutines that read from it; a caller that
gives up leaves its decoder there and poisons the client. `holder` and
`registry` are the two mutexes. The server answers in any order or never, sends
notifications and other output, and may die. `ToolCalls` puts the attempts, the backoff, the
deadline and the outbound dead letter around both.

### Yaml, Config, AgentFiles, ToolScope, Startup

A document is a sequence of lines, each with its indentation, whether it starts
an item, its key and its value; quotes, comments and blank lines, which no
reader keeps, are left out. The readers work on these lines as the code does:
`ParseBlock` forgets the indentation, so a nested key is read like one of the
document; the readers of blocks (`BlockOf`, `Mappings`) go by it.

`Config` takes a setting through defaults, environment, file, environment again
and flags, with the attribution of each to its layer, the key of the LLM with
its sources, and the blocks that the flat reader leaves alone. `AgentFiles` has
the front matter, the turns of the body, the lifecycle in its three forms and
what an instance takes from the top level. `ToolScope` has the files of the
registry, the refusal of double names, and the resolution of a scope.

`Startup` is a command from its files on: `ReadConfig`, `ReadAgents`,
`ReadTools`, then `Validate`, which resolves scopes and looks for required tools
in its own way (`ScopesResolve`, `RequiredReached`), and `Serve` with a `Prepare`
for each job up to its first completion, where the runner does it (`CheckScopes`,
`Satisfiable`). As in the code, both end in the registry's `CheckScope`.

`StartupIntent` states correctness without the readers: an *intent* is what the
documents are to say (a record of scalars, lists and blocks at three levels),
`Write...` gives the lines it is written with, and the properties compare what
the code reads with what the intent means. The meaning is a rule of its own
("the nearest part that says something"), not a copy of the merge.

## The runs

| Run | Checks | Shows |
|---|---|---|
| `queue` | `AckedIsDurable`, `ImplementsDurableFifo` | every operation may fail, crashes anywhere: an acknowledged entry is on disk until somebody gets it or a Drain fails; nothing is handed out twice, and order is kept except by a failed DequeueByIDs |
| `manager` | `StaticIsDurable`, `DeliveredOnce` | whatever producers, checks and retries interleave, a static queue keeps what it acknowledged, and an item of it is delivered once per enqueue, that of a single-use queue until a Delete leaves a second handle |
| `worker` | `ArtifactOnce`, `DeadLetterJustified`, `Accounted`, `OneCopy`, `HideRetained`, `EveryItemSettles`, `ImplementsItemLife` | a pipeline of two curings under all faults, panics and crashes: safety, that every accepted item ends, and that attempts are counted one by one and nothing comes back that was finished, given up or lost |
| `worker_fan_out` | `DeadLetterExhausted` violated | two static queues share a hide; the first worker deletes it |
| `fan` | `SiblingsKeepHide`, `HideReclaimedWithoutFanIn` | two legs with every fault, with and without a collecting worker: who may take the shared hide away, and that the last one does |
| `collect` | `OnePlace`, `WholeDecisions`, `OutputsSettle` | an output is in one place; a decision has all legs of one event and none of another; nothing waits for ever |
| `tannery` | `DepthBounded`, `AnsweredIsKept`, `WorkflowCompletes` | the depth is exceeded by no more items than the requests send that read it together, less one; what was answered with 202 is kept through redeliveries, requeues and restarts; the workflow command stops when nothing is left |
| `serve` | `OneRunPerJob`, `ItemsAccounted`, `PolledOnce`, `ReloadIsCurrent`, `StopEnds`, `DueJobRuns` | jobs, items and polled resources while files change, saves fail and the process stops, crashes and starts again |
| `serve_shutdown` | `ServeStops` violated | with an HTTP worker the shutdown waits for the worker, and the worker for the cancellation after the wait |
| `agent` | `RequiredActs`, `WithinRepeats`, `ClearIsolates`, `ResultsFollowCalls`, `NextPageIsNew`, `RunEnds` | seven kinds of agents against a model that may answer anything |
| `tools` | `OwnResponse`, `OneDecoder`, `RunsWithinAttempts`, `RateHeld`, `OnlyPoisonedReplaced`, `CallsEnd` | concurrent callers of one MCP server that may be silent or die, and of one limited host: who reads what, how often a tool runs, and how many go on one token |
| `startup` | `ConfigLayered`, `JobsAsWritten`, `ValidateAgreesWithRun` | some 11,000 installations, read and judged: the highest layer wins, a job is the nearest thing written for it, and what validate accepts starts |

The two violations are findings, with the sentence they contradict quoted in
`PROJECT.json`. Type invariants (`TypeOK`, `CollectTypeOK`, `LimiterTypeOK`,
`McpTypeOK`, `LegTypeOK`, `ManagerTypeOK`) stand in the modules as documentation of the state.
Those of `FileQueue`, `QueueManager`, `CuringWorker`, `CuringCollect`, `Tannery`,
`Serve`, `AgentRun` and `ToolCalls` are proved; `tlc` checks any of them, and the
inductive invariants, when they are added to a cfg.

### Counterexamples outside the runs

Further disagreements have no run of their own. Each ends in a counterexample
when the cfg of the run named first is changed as said and its properties are
replaced by the one named.

| Run, with | Violated | What happens |
|---|---|---|
| `queue`, `FailingOps = {"Drain"}` | `DurableQueue` | `queue.go:130` Drain empties the slice before the save and does not restore it ("Roll back so state stays consistent.", `queue.go:119`, is the rule of its neighbour): the next save erases the file |
| `manager`, `Modes <- SingleUseOnly`, `MaxRetries = 1` | `QueuedIsDurable` | `worker.go:439` deletes a single-use queue that was found empty, after a retry was put back into it |
| `fan`, `Setups <- Smooth` | `HideReclaimed` | `worker.go:485` finds the name of a single-use output queue, takes it for a sibling, and nobody deletes the hide (as in `examples/10-ci-gate`) |
| `collect`, `Setups <- FailingEvictions` | `NothingDropped` | `worker.go:510` deletes the queue of a stale group although the save that was to take the items out has failed |
| `fan`, `Setups <- FailingLegs` | `HideOutlivesItems` | `worker.go:470` deletes queue and hide of a failed attempt under the second one |
| `collect`, `Setups <- FailingGroups` | `NothingDropped` | `worker.go:372` drops the items of a failed group of a static queue |
| `tannery`, `Setups <- EarlySetups` | `WorkflowCompletes` | `cmd_workflow.go:374` looks twice, each time between the return of a failed item and its next start, and stops the workers under it |
| `serve` | `CutOnlyAfterTimeout` | `cmd_serve.go:1175` drains before it stops the ticks: a job that starts after the drain is cut |
| `agent` | `UserInRequest` | `session.go:165` summarizes the only message of the user away, and the request has none |
| `startup` | `EnabledAsWritten` | `yamlx.go:26` reads the `enabled:` of a nested `cache:` block as that of the instance |

### Bounds, and why they are enough

- `queue`: three calls of Enqueue (`MaxEnqueues`) with two IDs. Two entries show
  an order, a third can jump over one and not over the other, and two entries
  can share an ID. Operations and crashes are unbounded.
- `manager`: three producers with one delivery ID, one of which checks first
  (two concurrent checks both enqueue, which nothing promises against), and two
  failed runs (`MaxRetries`), so that a retry can meet both the scan and the
  handler of the attempt before.
- `worker`: two hides from outside (`MaxHides = 2`; forwarding adds more), two
  attempts and two slots in the first worker: two handlers of one queue at work
  beside items in both queues, a first failure and a last one. The second worker
  has one of each, so that an item waits for its slot and fails for good at once.
  An operator deletes one hide (`MaxDeletes = 1`), any and at any time: what
  becomes of an item depends on its own hide alone.
- `fan`: one event, because legs of different events meet nowhere but in the
  static queue of `collect`; two legs, the smallest fan-out; two attempts, so
  that a retry can overtake the handler of the attempt before. The legs are
  symmetric, and the properties are invariants. Four installations: without a
  collecting worker every fault; with one, failing runs, crashes and saves;
  failing deletions; failing routings and looks for names.
- `collect`: two events with two legs each where they share a queue; groups of
  two; two attempts. Failing saves and deletions have installations of their own,
  without crashes. Timeouts are on, the default: with an explicit
  `collect_timeout_seconds: 0` an incomplete group waits for ever, by intention
  (`internal/curing/loader.go`).
- `tannery`: eight small installations, each for one question (`MCTannery`
  names them), with two queues. Two clients are enough to overshoot a depth of
  one, and so are two routes of one client to one queue; a delivery comes twice; up to two failing saves and two crashes, which is
  a failure and another one in its repair.
- `serve`: three agents (two on a schedule, one on the queue), two slots, two
  keys, batches of two, two attempts (`QueueMaxAttempts`, `MaxTries`), one
  failure (`MaxFaults`) and up to three registrations (`MaxReg`); a setup says
  how often files change (twice, so that a change can be taken back) and how
  often the process starts. Two registrations of an agent and a running handler
  are what a mix-up of job objects takes; three jobs, one of which runs again and
  again, and two slots are what it takes for a job to find none.
- `agent`: two tools with one argument each, hides of up to three pages
  (`MaxPages`), two calls per completion (`MaxBatch`), two rounds, at most three
  turns: a call that is repeated in its batch, in its turn and in another turn,
  and a page in the middle. One tool has a `max_repeats` of two, the other the
  default.
- `tools`: two callers; two processes (`MaxGen`: the first and its replacement;
  a healthy client that is given up is seen when it is closed, before a third
  would start, and a start may fail anyway); one notification or line of other output
  (`MaxNotices`); a bucket of
  one token (`Burst`) that takes two ticks (`Interval`), so that a sleep can be
  in its middle; up to three attempts.
- `startup`: four families. One setting in each of its layers with a value that
  parses, one that does not and none, through both ways to name the file; the
  key of the LLM in all its sources; one of eleven fields and one of four blocks
  of a job, written or not at each level, in every form; one agent with one turn
  against four tool directories, three of them with a file that is refused (a tool twice,
  an unknown tool, an `http:` block that is none), and a front matter that is not
  closed. Fields do not interact but through the blocks,
  which is why one of each is enough; two lines with one key are in the family
  of the jobs (a block's key and the instance's).

`CHECK_DEADLOCK FALSE` stands where the system comes to rest by itself: the
bound on the intake is reached, all items are done, and workers that poll empty
queues take no step; a command has ended. `queue`, `agent` and `tools` check
for deadlock.

### Fairness

- `worker`, `collect`, `tannery`: a worker's `Run` loop polls on a ticker until
  its context ends and the Go runtime schedules every goroutine, so scans and
  handlers are weakly fair; a handler is one of a set of goroutines per queue,
  and fairness is stated for the set, since each of its members takes a bounded
  number of steps. In `collect` time passes (`Age`). In `tannery` the workflow
  command polls too; requests and operators owe nothing.
- `serve`: what the main goroutine has begun goes on (`MainStep`), the stop after
  `max_jobs` is seen, the ticker ticks, every handler goes on (an agent run has a
  deadline) and so does the poller. Signals, edits, crashes and the time of a
  schedule are not forced. A tick starts the due jobs in the order of a map, and
  nothing in the code keeps the others from having every slot at each tick: a
  job can starve. `DueJobRuns` therefore assumes that from some time on a slot is
  always free (`<>[](Busy # Slots)`); what it shows is that a job which found none
  before is still due then and is found.
- `agent`: one goroutine, whose completions and tools have deadlines.
- `tools`: time passes, so every deadline expires, and each caller goes on when
  it can. Servers owe nothing.

That a step *may* fail is not fairness: a failing branch is as good as a
succeeding one, and the bounded attempts end it. Crashes and panics have no
fairness. Runs without a liveness property assume nothing.

## What is proved

Each theorem holds for every value of the constants that the named assumptions
of its module allow, not for the instance of the run. The assumptions give the
constants their types, a group, a limit or a place its size of at least one, and
the setups the shape that the loaders guarantee; values that stand for nothing
(`NoFile`, `NoJob`, `NoRun`, `NoEvent`, `None`) are nothing else. TLC evaluates
them in the runs. Seven theorems have a hypothesis of their own, named below.

| Module | Theorems of the runs' properties | What the constants range over |
|---|---|---|
| `QueueProofs` | `AckedIsDurable`, `ImplementsDurableFifo`; `StaticIsDurable`, `DeliveredOnce` | calls, IDs, operations that may fail; producers, delivery IDs, retries |
| `CuringWorkerProofs` | `ArtifactOnce`, `OneCopy`, `Accounted`, `DeadLetterJustified`, `HideRetained`, `ImplementsItemLife` | queues, topology (cycles included), routes, concurrency, attempts, faults |
| `CuringFanProofs` | `OnePlace`, `WholeDecisions`; `SiblingsKeepHide`, `HideReclaimedWithoutFanIn` | events, legs, size of a group, attempts, timeouts, faults |
| `TanneryProofs` | `DepthBounded`, `AnsweredIsKept` | queues and their limits, routes, curings, clients, attempts, operators, failing saves, crashes |
| `ServeProofs` | `OneRunPerJob`, `ItemsAccounted`, `PolledOnce`, `ReloadIsCurrent` | agents, slots, batches, keys, attempts, failing saves, setups |
| `ToolCallsProofs` | `OwnResponse`, `OneDecoder`, `RunsWithinAttempts`, `RateHeld`, `OnlyPoisonedReplaced` | callers, processes, notifications, burst, interval, retry setups |
| `AgentRunProofs` | `RequiredActs`, `WithinRepeats`, `ClearIsolates`, `ResultsFollowCalls`, `NextPageIsNew`; `ConfigLayered`, `JobsAsWritten`, `ValidateAgreesWithRun` | agents, tools, pages, batch size; everything that can be written in the files, variables and flags |

Each of these modules also proves the type invariant and the inductive invariant
its theorems follow from. `Inductive` stands in the module it speaks about, or,
where it speaks of nothing but the proof, in the proof module. A proof has one
lemma per action, and helper lemmas for what an action does to a sequence, a
set of keys or a count.

**Selection.** `DequeueByIDs` (`queue.go:158`) filters a slice in a loop, and what
the collecting worker takes, groups and evicts is filtered in the same way. `Select` is that loop as a recursive function. `SelectPicks` says what it
returns (the items that pass the test, each from a place of its own, in order),
and `SelectUnique` that nothing else does. The library's induction cannot be
used here; the proof takes the shortest prefix that would be a counterexample
(`WFMin` on the naturals) and refutes it. The other proof modules argue from
what follows from these two.

**FileQueue.** A crash hands the file to the next process, so the file has to be
related to the slice. What the file has and the slice does not was dropped by a
failed Drain (`FileBehind`). While no DequeueByIDs and no Drain has failed, the
file is the slice without entries whose Enqueue returned an error
(`FileFollows`), and it is a subsequence, not only a subset: the promise of
`DurableFifo` is about order. The refinement is proved step by step (each
operation succeeding and failing, crash, open), with tickets distinct in slice
and file.

**QueueManager.** `OneHandle`: a static queue has one handle, which is that of
the map and has the contents of the file, since nobody deletes it. `QueuedOnce`:
as long as a single handle was opened, every queued producer's item is in it
once, and only runs that failed add to a count. A static queue never has two, so
`DeliveredOnce` has no condition there.

**CuringWorker.** None of its properties is inductive alone:

- `SendOutput` builds an item from the handler's `out` and from `Out[q]`. That
  the item is well-typed needs `Forwarding`: a handler comes to that stage only
  when its curing has an output queue, and has put the hide it sends.
- A retried item must go back to where it came from: `HomeQueue`.
- A crash reloads the files: what comes back is part of what was in memory and
  has no duplicates (`FileFollows`), so it is no copy of what is done.
- A handler past the boundary must not be able to retry: `PastBoundary`.
- A new item differs from every existing one because its hide number is new
  (`Numbered`) and because a request or a handler that is about to send it
  holds that number alone (`Unsent`).
- A dead letter is justified because its handler stopped on a missing hide and
  no number is given out twice (`DeadIsMissing`).

`HidesAreRetained` has a hypothesis, that at most one route takes an intake: with
two, the first worker deletes the hide of the second (the violation of
`worker_fan_out`). Under it a hide has one user at any time, an item in a queue
or a handler or one that is still to be sent (`OneConsumer`), and everything that
is in use is in the store or was withdrawn (`UsesKept`): who deletes a hide was
its only user.

`WorkerImplementsItemLife` needs two things more. What was lost is nowhere, and
nobody is about to enqueue it (`LostForGood`): the numbers of hides, again. And
the stage of an item, which `Life` defines by cases over sets of keys, is that of
the one place where it is (`LifeWhere`, from `OneCopy` and `ArtifactOnce`). After
that every action moves one item, brings a new one, or takes some away
(`LifeMoves`, `LifeComes`, `LifeLost`), and has a lemma that says which; the
steps of a handler between these are stutters.

**CuringCollect.** Outputs are partitioned into waiting, held, parked, decided and
dropped. To keep that, a group must be apart from the outputs that the same tick
evicts, have none twice, and have none left to put back once it is decided
(`GroupsApart`); and the event that the static worker is about to take must
still be complete (`StillReady`). `DecisionsAreWhole` has the hypothesis that the
legs are finite and `collect_size` is their number, that is, one route for each
output of a group: a group then is a set of that many different legs, and so all
of them. With more routes than `collect_size` a decision has only some of them,
by design.

**CuringFan.** Every step of the composition is a step of `CuringCollect` or a
stutter (`FanRunsCollect`): a leg delivers once, for an event that came in,
because its item is in one place before the output arrives and nowhere after
(`OneItem`). What is proved of the collecting worker thus holds of the whole.
`HideIsReclaimed` (for at least one leg) goes by who is left to delete the hide:
an emptied queue has a handler that will look at it (`EmptyIsServed`), and a hide
without a fan-in has an item, a handler or a queue's name that refers to it
(`HideReferred`). `HideIsShared` has the hypothesis of `DecisionsAreWhole`. The
fan-in's queue file stands in for the hide from the first arrival to the last
(`FileKept`), a handler that is about to delete the hide has seen all arrive
(`HideKept`), and a group or an eviction is of one event (`GroupsArrived`).
The attempt at the proof corrected the property: with three legs, a crash
between eviction and parking leaves a collecting queue empty, the next scan
deletes it together with an output that arrived meanwhile, and the hide goes
before the third leg has read it. Two legs do not show it. `SiblingsKeepHide`
therefore exempts events with a dropped output.

**Tannery.** `AnsweredIsKept` follows from `Kept` only growing. A save writes the
whole slice, so what the file has and the slice has not would go with the next
one: it was left there by a failed drain (`FileBehind`). A redelivery is
answered without enqueueing where the scan finds the ID, so whatever is queued
has to be kept, saved or not (`QueuedIsKept`), and so has what a request has
sent before its present queue (`SentIsKept`). `DepthBounded` counts the untried
items of a queue and the routes that have passed the check and not sent; a
check that passes found a place, and a send trades one for the other. Retries
and requeued dead letters have attempts (`TriedItems`), which is why `dlq requeue`,
that gives them back, is excluded; and a restart loads a file that was within
the bound too (`FileBounded`). Here the proof corrected the bound: it counted
clients, and a request with two routes to one queue reads its depth twice before
it sends (setup `OneQueue` in `MCTannery`).

**Serve.** Registrations are not given out twice, and whatever was collected or
started with one belongs to the agent that has it (`Identities`); what a tick has
collected is not running (`DueIsIdle`). From these follows `OneRunPerJob`
through reloads that replace a job while it is due or runs. `ReloadIsCurrent`
needs `Versions`: what was loaded is on the disk unless it has changed since, and
only files with a schedule make a job. `PolledOnce` speaks of undisturbed processes (no save failed, no
duplicate at the start, no worker added by a reload), and in these the file is
the queue (`Exclusive`), an item is in one place (`OnePlace`), and the poller
knows what is in the works before it polls (`WorkerKnows`).

**ToolCalls.** The holder of a client is the one caller that reads from it, and
the last request is his (`ReadersHold`); a decoder that is left behind is on the
pipe of a poisoned client (`DecodersHeld`), and a client is given up only when
poisoned (`GivenUp`). `OneRequestAnAttempt` counts what a late server may still
execute: the executions of a call and its requests without an answer never
exceed its attempts, also when a recreated client gets the call again within an
attempt. For the limiter, `BucketFollows` compares the bucket with the ideal one:
what it has more is what went without a token (`free`). A sleeper whose token
another caller took may go without one (`Overtaken`); who takes a token makes at
most all other callers so, which is counted with the callers of the host, a
finite set.
`OnlyPoisonedReplaced` is an action property, from the same invariant.

**AgentRun.** `RequiredActs` needs what holds between turns: every earlier turn
that requires a tool has acted. The session keeps five things through Add, Reset,
summarize and CompactLatestHidePage: a summary is first, the results of a
round follow its calls in an unbroken chain while nothing was summarized, the
calls of the current round have been asked, nothing is older than the last turn
that clears, and the agent's prompt heads the window of an agent without skills
(`SessionInv`). `NextPageIsNew` is an action property.

**Startup.** Each of the three theorems has a hypothesis about the input, and TLC
finds it true of every input of the run `startup`.

`SettingsAreLayered` takes `ConfigWritten`: the readers of the file find in it
what is meant, it can be read, a flag for the key has one value, and no variable
holds a list of no items (see the observations). What the readers make of lines
is so left to TLC; so are the two blocks that `Load` takes from them as they
are. Proved is the layering: that reading the environment before and after the
file, with the path of the file among the settings and the flags on top, comes to
the highest layer that gives a value that parses (`ValuesLayered`), that the
marks, set in another order, name this layer (`SourcesLayered`), and that the
key comes from its first source (`KeyLayered`).

`ValidatedStarts` takes `Documents`, that files are lists of lines and
declarations have lists of items; they may say anything, valid or not. validate
wants *every* required tool in reach and the runner refuses a turn only when
*none* is, so acceptance implies a start if a requirement that was declared is
not an empty function, i.e. if what the fold over the lines of a header leaves
is a list. It has to be shown of every fold between the file and the job: the
turns of a file, the files of a directory, the records of a lifecycle in three
forms, the claims of all lifecycles (`JobsDeclare`). `FoldLeft` is defined by a
recursive function on sets of indices; `FoldExists` and `ByLargest` take the
least counterexample, as in `Selection`. The invariant then has what the verdict
was about (`AcceptedAll`) and that every prepared run is that of a job validate
saw (`PreparedRuns`), since nothing is read twice.

`JobsAreAsWritten` takes `IntentWritten`: one agent with a lifecycle of one of the
three forms, of which each reader returns what the part it reads is to say. For
the front matter, the top level and each instance that is one conjunct a reader
(scalars, lists, each of the four blocks), and it asks for what the code needs to
tell a value from none: a text is not empty, a number is positive, a cache or
hooks block says something, an instance has a name of its own and a schedule. A
key `enabled` that a nested key hides (see `EnabledAsWritten`) is exempt, in the
part that has it. What the readers make of lines is so left to TLC. Proved is
everything between the readers and the run: a record of the lifecycle is its
part over what it inherits (`RecordAlone`, `RecordOver`, where scalars, added
lists, replaced lists and blocks follow four rules), the list form makes one
record of each instance that is on, in order (`InstancesMake`, by the rank of a
number in a finite set), each record becomes one job over the agent it names
(`LifecycleApplied`, `ClaimsMake`), and `resolveAgent` and `resolveTokenBudget` fill
in the rest (`RunIsMeant`). `Over` and `++` are associative, so the nearest of
three parts (`MeantOfThree`) is one part over another over the third. The
invariant (`JobInv`) then only says that the directory and the configuration of a
prepared run are those that were loaded.

Only model-checked, and why:

- Liveness (`EveryItemSettles`, `OutputsSettle`, `WorkflowCompletes`, `StopEnds`,
  `DueJobRuns`, `RunEnds`, `CallsEnd`): fairness and ENABLED are beyond the prover.
- What the readers of front matter, lifecycles, blocks and configuration files
  return (`ConfigWritten`, `IntentWritten`). Each reader is a fold over lines that
  a recursive definition wrote, and the two would have to be related reader by
  reader, by induction over the keys that were written. `ConfigLayered` and
  `JobsAsWritten` check it on the inputs of the run.

## Observations

What came up while modelling and has no run. Queues and the tannery:

- With two failed runs, `DeliveredOnce` without its condition on the handles is
  false for a single-use queue: the second retry is enqueued through a handle
  that a concurrent `Delete` has taken out of the map, a new handle loads it from
  the file, the scan still has the old one, and both deliver it.
- Two concurrent `EnqueueIfAbsent` calls with one ID both enqueue. It looks at
  the queue only: a redelivery while the item runs, or after it is done, is
  enqueued again, and one that is skipped leaves its new hide behind.
- `max_attempts` of a queue (`docs/GUIDE.md`, "overrides curing's max_attempts")
  is read from the configuration and used nowhere; the worker uses the curing's.
- A failed `DequeueByIDs` puts its entries in front of older ones. A group
  decides between retry and dead letter by the count of its first item.
- A webhook whose second enqueue fails deletes the hide although the first item
  is queued (`api_tannery.go:563`). A redelivery then skips the first route: 202,
  and the item has no hide.
- A delivery whose routes lead to one queue is counted once for each: two routes
  overshoot a `max_depth` of one with a single request.
- A stale group whose eviction cannot be saved is deleted with its queue
  (`worker.go:510`).
- A crash between the eviction of a stale group and its parking leaves the
  collecting queue empty; the next scan deletes it with what arrived meanwhile,
  and a sibling's hide can go with it.
- The requeue over HTTP does not reset the attempts, `leather dlq requeue` does;
  the latter takes no lock beside a running serve, and loses the item when the
  enqueue fails after the dequeue. `ingest` and `status` take the lock for a
  moment, in which a serve cannot start.
- `workflow run` tracks neither single-use queues nor an intake that a tool
  makes; with two stages it can look between them.
- A webhook with an empty secret rejects everything, though the log says
  "validation disabled".

Serve and scheduler:

- With an HTTP worker a reload hangs like the shutdown: both wait for a worker
  before its context is cancelled (`cmd_serve.go:1593`).
- An edit between LoadDir and the hash of a registration leaves a job of the old
  files until the next edit (`cmd_serve.go:1556`); `ReloadIsCurrent` exempts it.
  A broken file deregisters its job. A job
  that is replaced while it runs can run twice at a time, once per object.
- A prompt that fails to expand drops its item; items in hand when a drain times
  out are gone with the process. An enqueue that fails leaves the item in the
  slice and its key unseen, and the next poll queues it again.
- `jobs.json` is read by `leather status` alone; two handlers that end together
  may leave the older snapshot. A cron field `N/1` gives only N; a schedule with
  no next time never runs. The semaphore does not bound how much is dequeued.

Runs and tools:

- Summarize keeps the last system message only, may leave tool results without
  their calls, and CompactLatestHidePage in a mixed batch leaves a call without
  its result. A cache hit is a success without required tools or output routes.
- The limiter lets every waiter pass on one token (`ratelimit.go:97`), so that its
  rate may be exceeded by as many times as there are callers; `RateHeld` says that
  it is no more. An MCP
  server that died is not poisoned, and nobody starts it again. A notification
  leaves the stream off by one. A caller past its deadline still sends, and
  poisons a healthy client. A timed-out call with attempts left is cancelled in
  its backoff without a dead letter.

Files:

- Nested keys with the name of a field are read as the field (`enabled`, a
  parameter called `model`). When all instances are disabled, or the file cannot
  be parsed, the agent stays, with the schedule of its front matter
  (`agent.go:100-111`; the comment at 30 says otherwise). A lifecycle prompt over
  a body of several turns keeps the body's prompts but not their scopes. Two
  instances can share the memory of an appended list (`lifecycle.go:369`).
- A skill registered twice replaces the first silently. Fields after `tools:`
  (skill) and after `http:` or `mcp:` (tool) are not read.
- `validate` does not look at scopes without a tool directory, and checks of the
  tannery only the keys (`cmd_validate.go:258` drops the loader's error, and
  ValidateTannery is not called): it accepts a tannery that serve refuses.
- `LEATHER_DEFAULT_TOOLSETS=","` is attributed to the environment although it
  sets nothing.

## Not modelled, and the plan

Left out, with the reason; `PROJECT.json` has the parts of modelled components
that are left out.

- The event bus and the devtools endpoints: fan-out to the UI with buffers that
  drop the oldest event by design; nothing else reads them.
- Schema tables, LLM clients, the developer commands and printing, the web UI,
  `cmd/shell-mcp`, scripts, and the leaf packages for notifications, secrets,
  logging, paths and IDs: data, pure I/O or formatting, without state that
  outlives a call.
- Cron expressions: a search over calendar time; `Serve` has what it does to a
  job, and table tests cover the parser.
- The loaders of curings, workers, MCP servers and `tannery.yaml`: records per
  file through the readers of `Yaml`, with no inheritance between files. Their
  defaults are constants of the modules that use them.
- Text: prompts and templates, block literals, near-miss messages, what an
  extractor matches, Cut, Search and Slice of a hide, token counts.

- Of modelled components: lines of a queue file that cannot be decoded or are
  longer than the scanner's buffer, and a file that cannot be read; an item that
  cannot be put back or parked; a static group whose save fails; an explicit 0 of
  an instance's `max_tokens`, reserve or timeout, which the code takes for none;
  failing deletions together with crashes in one installation.

Still worth doing, in this order:

1. Theorems: what the refusals of `ValidateTannery` guarantee of every routing;
   the refinement of `CuringWorker`'s queues to `FileQueue`'s.
2. The loader of `tannery.yaml` in `Startup`, with validate's view of it.
3. The next-run search of `cron.go` against a reference definition, over a
   calendar of a few fields.
