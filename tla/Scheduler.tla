------------------------------ MODULE Scheduler ------------------------------
(***************************************************************************)
(* internal/scheduler/scheduler.go: the jobs of the agents, the tick that  *)
(* starts the due ones, and the semaphore of running handlers.  A job is   *)
(* an object of its own: Register replaces it, a handler that was started  *)
(* with the old one reports to the old one.  A tick first collects the due *)
(* jobs and then starts them one by one.                                   *)
(*                                                                         *)
(* Time is what it does to a job: its next run is later, due, or never.    *)
(* What a skipped job or an error says in its status, and jobs.json, which *)
(* only `leather status` reads, are left out.                              *)
(***************************************************************************)
EXTENDS Integers, Sequences, FiniteSets

CONSTANTS
  Agents,
  MaxConcurrent,  \* the capacity of the semaphore, one slot per handler
  MaxReg,    \* bound on the registrations of a process
  NoJob, NoRun

ASSUME SchedulerAssumption == MaxConcurrent \in Nat \ {0} /\ MaxReg \in Nat

VARIABLES
  regs,      \* registrations so far: the identity of the job objects
  jobs,      \* jobs[a]: the job object registered for the agent
  due,       \* what the tick collected and has not started
  slots      \* slots[s]: the handler that holds the slot

schedVars == <<regs, jobs, due, slots>>

\* The content of an agent's files: `kind` is what they define (a job with a cron
\* schedule, one that runs once, an agent without schedule, one that Register
\* refuses, or none: no file, a broken or a disabled one), and `ver` tells contents
\* of one kind apart.
Kinds     == {"cron", "once", "unscheduled", "refused", "none"}
AgentFile == [ver : Nat, kind : Kinds]

Slots == 1 .. MaxConcurrent

Job  == [reg : 1 .. MaxReg, file : AgentFile, next : {"later", "due", "never"},
         running : BOOLEAN]

ASSUME NoJobAssumption == NoJob \notin Job

\* A handler that has ended keeps its slot until it is released.
Busy    == {s \in Slots : slots[s] # NoRun}
Running == {s \in Busy : slots[s].pc # "release"}

Free == CHOOSE s \in Slots \ Busy : \A t \in Slots \ Busy : s <= t

SchedInit ==
  /\ regs = 0
  /\ jobs = [a \in Agents |-> NoJob]
  /\ due = {}
  /\ slots = [s \in Slots |-> NoRun]

-----------------------------------------------------------------------------
(***************************************************************************)
(* Mutant: the handler marks the job itself, too late.                     *)
(***************************************************************************)
MarkedLater(a) == jobs

-----------------------------------------------------------------------------
\* Register: a run-once job is due at once.
Registered(f) ==
  [reg |-> regs + 1, file |-> f, running |-> FALSE,
   next |-> IF f.kind = "once" THEN "due" ELSE "later"]

\* The time of a job comes.
Ripen(a) ==
  /\ jobs[a] # NoJob /\ jobs[a].next = "later"
  /\ jobs' = [jobs EXCEPT ![a].next = "due"]
  /\ UNCHANGED <<regs, due, slots>>

IsDue(a) == jobs[a] # NoJob /\ jobs[a].next = "due" /\ ~jobs[a].running

\* tick: the due jobs, under the read lock.
CollectDue ==
  /\ due = {} /\ \E a \in Agents : IsDue(a)
  /\ due' = {[agent |-> a, reg |-> jobs[a].reg, file |-> jobs[a].file]
               : a \in {b \in Agents : IsDue(b)}}
  /\ UNCHANGED <<regs, jobs, slots>>

IsCurrent(x) == jobs[x.agent] # NoJob /\ jobs[x.agent].reg = x.reg

\* The job is marked before its handler starts, so that the next tick passes it.
Marked(a) == [jobs EXCEPT ![a].running = TRUE]

\* Mutant: every due job is marked, also the one that finds no slot.
MarkFirst(x, handler) ==
  /\ x \in due
  /\ due' = due \ {x}
  /\ jobs' = IF IsCurrent(x) THEN Marked(x.agent) ELSE jobs
  /\ slots' = IF Busy = Slots THEN slots ELSE [slots EXCEPT ![Free] = handler]
  /\ regs' = regs

\* One due job gets a slot and the given handler, or is skipped until the next
\* tick.
StartDue(x, handler) ==
  /\ x \in due
  /\ due' = due \ {x}
  /\ IF Busy = Slots
       THEN UNCHANGED <<jobs, slots>>
       ELSE /\ slots' = [slots EXCEPT ![Free] = handler]
            /\ jobs' = IF IsCurrent(x) THEN Marked(x.agent) ELSE jobs
  /\ regs' = regs

\* runJob after the handler: Once does not come again.
Ended(a) ==
  jobs' = [jobs EXCEPT ![a].running = FALSE,
                       ![a].next = IF jobs[a].file.kind = "once" THEN "never" ELSE "later"]

\* The job is updated, and may become due again, ...
EndRun(s) ==
  /\ IF IsCurrent(slots[s]) THEN Ended(slots[s].agent) ELSE jobs' = jobs
  /\ slots' = [slots EXCEPT ![s].pc = "release"]
  /\ UNCHANGED <<regs, due>>

\* ... before the slot is given back: the snapshot is saved in between.
ReleaseSlot(s) ==
  /\ s \in Busy \ Running
  /\ slots' = [slots EXCEPT ![s] = NoRun]
  /\ UNCHANGED <<regs, jobs, due>>
=============================================================================
