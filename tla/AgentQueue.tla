----------------------------- MODULE AgentQueue -----------------------------
(***************************************************************************)
(* The handler of a scheduled agent (internal/cli/cmd_serve.go,            *)
(* registerAgentJob).  With a queue input it takes up to a batch of items  *)
(* from the queue, one agent run for each; an item whose run fails goes    *)
(* back to the queue or, after QueueMaxAttempts, to the dead-letter queue. *)
(* Without one it is a single agent run.                                   *)
(*                                                                         *)
(* The two queues have a slice and a file.  Every operation writes the     *)
(* whole slice; one whose save fails leaves the file as it was, Dequeue    *)
(* with the head back in place, Enqueue with the item in the slice         *)
(* (FileQueue has the details).                                            *)
(***************************************************************************)
EXTENDS Scheduler

CONSTANTS
  Keys,              \* what an item is about
  QueueAgents,       \* the agents with a queue input, all the same queue
  Batch,             \* queue_batch_size
  QueueMaxAttempts,  \* 0 is for ever
  MaxTries           \* bound on the failed runs of an item

ASSUME AgentQueueAssumption ==
  /\ QueueAgents \subseteq Agents
  /\ Batch \in Nat \ {0} /\ QueueMaxAttempts \in Nat /\ MaxTries \in Nat
  /\ QueueMaxAttempts <= MaxTries

VARIABLES
  queue,   \* queue[n]: the slice of the open queue n
  file,    \* file[n]: its file
  done,    \* keys with a successful run
  gone,    \* history: keys of items that a crash, an exit or a failed
           \* expansion of the prompt took
  accepted,\* history: keys of items that the queue acknowledged
  jobCount,\* onJobDone: handlers that ended
  faults   \* failures so far

queueVars == <<queue, file, done, gone, accepted, jobCount, faults>>

CONSTANT MaxFaults

ASSUME FaultsAssumption == MaxFaults \in Nat

Names == {"in", "dlq"}
Item  == [key : Keys, tries : 0 .. MaxTries]
KeysOf(items) == {items[i].key : i \in DOMAIN items}

\* A handler at work: before its next item, in an agent run, or at its end.
Run == [agent : Agents, reg : 1 .. MaxReg, file : AgentFile,
        pc : {"take", "run", "end", "release"}, left : 0 .. Batch, item : Seq(Item)]

ASSUME NoRunAssumption == NoRun \notin Run

Handler(x) ==
  [agent |-> x.agent, reg |-> x.reg, file |-> x.file, item |-> <<>>,
   pc   |-> IF x.agent \in QueueAgents THEN "take" ELSE "run",
   left |-> IF x.agent \in QueueAgents THEN Batch ELSE 1]

Held == UNION {KeysOf(slots[s].item) : s \in Busy}

QueueInit ==
  /\ done = {} /\ gone = {} /\ jobCount = 0 /\ faults = 0

-----------------------------------------------------------------------------
(***************************************************************************)
(* Mutant: an item without attempts left goes nowhere.                     *)
(***************************************************************************)
PutBackCapped(it) ==
  IF QueueMaxAttempts > 0 /\ it.tries >= QueueMaxAttempts
    THEN UNCHANGED <<queue, file, faults>>
    ELSE /\ queue' = [queue EXCEPT !["in"] = Append(@, it)]
         /\ file' = [file EXCEPT !["in"] = queue'["in"]]
         /\ faults' = faults

-----------------------------------------------------------------------------
\* Queue n becomes the slice q; the save may fail, and then ifFailed is left.
Saves(n, q, ifFailed, Ok, Failed) ==
  \/ /\ queue' = [queue EXCEPT ![n] = q] /\ file' = [file EXCEPT ![n] = q]
     /\ faults' = faults /\ Ok
  \/ /\ faults < MaxFaults /\ faults' = faults + 1
     /\ queue' = [queue EXCEPT ![n] = ifFailed] /\ file' = file /\ Failed

Enqueue(n, it, Ok, Failed) ==
  Saves(n, Append(queue[n], it), Append(queue[n], it), Ok, Failed)

Dequeue(n, Ok, Failed) ==
  queue[n] # <<>> /\ Saves(n, Tail(queue[n]), queue[n], Ok, Failed)

Goes(s, pc, left, item) ==
  slots' = [slots EXCEPT ![s].pc = pc, ![s].left = left, ![s].item = item]

Next1(s) == IF slots[s].left > 1 THEN "take" ELSE "end"

AtItem(s) == slots[s] # NoRun /\ slots[s].pc = "take"

\* An item, or an error that ends the batch.
TakeItem(s) ==
  /\ AtItem(s)
  /\ Dequeue("in", Goes(s, "run", slots[s].left, <<Head(queue["in"])>>),
                   Goes(s, "end", 0, <<>>))
  /\ UNCHANGED <<regs, jobs, due, done, gone, accepted, jobCount>>

FindsEmpty(s) ==
  /\ AtItem(s) /\ queue["in"] = <<>>
  /\ Goes(s, "end", 0, <<>>)
  /\ UNCHANGED <<regs, jobs, due, queueVars>>

InRun(s)  == slots[s] # NoRun /\ slots[s].pc = "run"
HasItem(s) == InRun(s) /\ slots[s].item # <<>>
ItemOf(s) == slots[s].item[1]

\* An item that does not fit the prompt is dropped.
ExpansionFails(s) ==
  /\ HasItem(s) /\ faults < MaxFaults
  /\ faults' = faults + 1
  /\ gone' = gone \cup {ItemOf(s).key}
  /\ Goes(s, Next1(s), slots[s].left - 1, <<>>)
  /\ UNCHANGED <<regs, jobs, due, queue, file, done, accepted, jobCount>>

RunSucceeds(s) ==
  /\ InRun(s)
  /\ done' = done \cup KeysOf(slots[s].item)
  /\ Goes(s, Next1(s), slots[s].left - 1, <<>>)
  /\ UNCHANGED <<regs, jobs, due, queue, file, gone, accepted, jobCount, faults>>

Exhausted(tries) == QueueMaxAttempts > 0 /\ tries >= QueueMaxAttempts

\* To the dead-letter queue or back; an error is logged.
PutBack(it) ==
  Enqueue(IF Exhausted(it.tries) THEN "dlq" ELSE "in", it, TRUE, TRUE)

RunFails(s) ==
  /\ InRun(s)
  /\ IF HasItem(s)
       THEN /\ ItemOf(s).tries < MaxTries
            /\ PutBack([ItemOf(s) EXCEPT !.tries = @ + 1])
       ELSE UNCHANGED <<queue, file, faults>>
  /\ Goes(s, Next1(s), slots[s].left - 1, <<>>)
  /\ UNCHANGED <<regs, jobs, due, done, gone, accepted, jobCount>>

\* onJobDone, then the scheduler's part.
FinishRun(s, maxJobs) ==
  /\ slots[s] # NoRun /\ slots[s].pc = "end"
  /\ jobCount' = IF jobCount < maxJobs THEN jobCount + 1 ELSE jobCount
  /\ EndRun(s)
  /\ UNCHANGED <<queue, file, done, gone, accepted, faults>>

Release(s) == ReleaseSlot(s) /\ UNCHANGED queueVars
=============================================================================
