----------------------------- MODULE ServeProofs -----------------------------
(***************************************************************************)
(* Proofs about Serve, for any agents, any number of slots, items, edits,  *)
(* restarts and faults: a job object has at most one handler               *)
(* (OneRunPerJob), no acknowledged item disappears (ItemsAccounted), what  *)
(* the endpoint lists is in the works at most once (PolledOnce), and a     *)
(* reload leaves the jobs of the files it loaded (ReloadIsCurrent).        *)
(***************************************************************************)
EXTENDS Serve, SelectionProofs, FiniteSetTheorems

-----------------------------------------------------------------------------
(* Sequences of items.                                                       *)

\* Nothing is in an empty queue.
LEMMA KeysEmpty ==
  <<>> \in Seq(Item) /\ KeysOf(<<>>) = {} /\ Distinct(<<>>) /\ Len(<<>>) = 0
<1>1. <<>> \in Seq(Item) /\ DOMAIN <<>> = {} /\ Len(<<>>) = 0
  OBVIOUS
<1> QED BY <1>1 DEF KeysOf, Distinct

\* What an appended item adds.
LEMMA KeysAppend ==
  ASSUME NEW q \in Seq(Item), NEW it \in Item
  PROVE  /\ Append(q, it) \in Seq(Item) /\ KeysOf(Append(q, it)) = KeysOf(q) \cup {it.key}
         /\ Distinct(q) /\ it.key \notin KeysOf(q) => Distinct(Append(q, it))
<1> DEFINE a == Append(q, it)
<1>1. /\ DOMAIN q = 1..Len(q) /\ DOMAIN a = 1..Len(q) + 1 /\ Len(q) \in Nat
      /\ \A i \in 1..Len(q) : a[i] = q[i]
      /\ a[Len(q) + 1] = it /\ a \in Seq(Item)
  OBVIOUS
<1> HIDE DEF a
<1>2. KeysOf(a) = KeysOf(q) \cup {it.key}
  <2>1. \A k \in KeysOf(a) : k \in KeysOf(q) \cup {it.key}
    <3> SUFFICES ASSUME NEW i \in DOMAIN a PROVE a[i].key \in KeysOf(q) \cup {it.key}
      BY DEF KeysOf
    <3>1. i \in 1..Len(q) \/ i = Len(q) + 1
      BY <1>1
    <3> QED BY <1>1, <3>1 DEF KeysOf
  <2>2. \A k \in KeysOf(q) : k \in KeysOf(a)
    <3> SUFFICES ASSUME NEW i \in DOMAIN q PROVE q[i].key \in KeysOf(a)
      BY DEF KeysOf
    <3>1. i \in DOMAIN a /\ a[i] = q[i]
      BY <1>1
    <3> QED BY <3>1 DEF KeysOf
  <2>3. it.key \in KeysOf(a)
    <3>1. Len(q) + 1 \in DOMAIN a
      BY <1>1
    <3> QED BY <1>1, <3>1 DEF KeysOf
  <2> QED BY <2>1, <2>2, <2>3
<1>3. ASSUME Distinct(q), it.key \notin KeysOf(q) PROVE Distinct(a)
  <2>1. \A i \in 1..Len(q) : a[i].key # it.key
    BY <1>1, <1>3 DEF KeysOf
  <2> QED BY <1>1, <1>3, <2>1 DEF Distinct
<1> QED BY <1>1, <1>2, <1>3 DEF a

\* What the head of a queue takes away.
LEMMA KeysTail ==
  ASSUME NEW q \in Seq(Item), q # <<>>
  PROVE  /\ Tail(q) \in Seq(Item) /\ Head(q) \in Item /\ Len(Tail(q)) = Len(q) - 1
         /\ KeysOf(q) = {Head(q).key} \cup KeysOf(Tail(q))
         /\ Distinct(q) => Distinct(Tail(q)) /\ Head(q).key \notin KeysOf(Tail(q))
<1> DEFINE t == Tail(q)
<1>1. /\ DOMAIN q = 1..Len(q) /\ DOMAIN t = 1..Len(q) - 1 /\ Len(q) \in Nat \ {0}
      /\ t \in Seq(Item) /\ Len(t) = Len(q) - 1 /\ Head(q) = q[1] /\ q[1] \in Item
      /\ \A i \in 1..Len(q) - 1 : t[i] = q[i + 1]
  OBVIOUS
<1> HIDE DEF t
<1>2. KeysOf(q) = {q[1].key} \cup KeysOf(t)
  <2>1. ASSUME NEW i \in DOMAIN q PROVE q[i].key \in {q[1].key} \cup KeysOf(t)
    <3>1. CASE i = 1
      BY <3>1
    <3>2. CASE i # 1
      <4>1. i - 1 \in DOMAIN t /\ t[i - 1] = q[i]
        BY <1>1, <3>2
      <4> QED BY <4>1 DEF KeysOf
    <3> QED BY <3>1, <3>2
  <2>2. ASSUME NEW i \in DOMAIN t PROVE t[i].key \in KeysOf(q)
    <3>1. i + 1 \in DOMAIN q /\ t[i] = q[i + 1]
      BY <1>1
    <3> QED BY <3>1 DEF KeysOf
  <2>3. q[1].key \in KeysOf(q)
    <3>1. 1 \in DOMAIN q
      BY <1>1
    <3> QED BY <3>1 DEF KeysOf
  <2> QED BY <2>1, <2>2, <2>3 DEF KeysOf
<1>3. ASSUME Distinct(q) PROVE Distinct(t) /\ q[1].key \notin KeysOf(t)
  <2>1. ASSUME NEW i \in DOMAIN t, NEW j \in DOMAIN t, t[i].key = t[j].key PROVE i = j
    <3>1. i + 1 \in DOMAIN q /\ j + 1 \in DOMAIN q /\ q[i + 1].key = q[j + 1].key
      BY <1>1, <2>1
    <3>2. i + 1 = j + 1
      BY <1>3, <3>1 DEF Distinct
    <3> QED BY <1>1, <3>2
  <2>2. ASSUME NEW i \in DOMAIN t, t[i].key = q[1].key PROVE FALSE
    <3>1. i + 1 \in DOMAIN q /\ 1 \in DOMAIN q /\ q[i + 1].key = q[1].key /\ i + 1 # 1
      BY <1>1, <2>2
    <3> QED BY <1>3, <3>1 DEF Distinct
  <2> QED BY <2>1, <2>2 DEF Distinct, KeysOf
<1> QED BY <1>1, <1>2, <1>3 DEF t

\* An item that a run has.
LEMMA KeysSingle ==
  /\ \A it \in Item : <<it>> \in Seq(Item) /\ KeysOf(<<it>>) = {it.key} /\ Len(<<it>>) = 1
  /\ \A q \in Seq(Item) : Len(q) <= 1 /\ q # <<>> => q[1] \in Item /\ KeysOf(q) = {q[1].key}
<1>1. ASSUME NEW it \in Item
      PROVE  <<it>> \in Seq(Item) /\ KeysOf(<<it>>) = {it.key} /\ Len(<<it>>) = 1
  <2>1. DOMAIN <<it>> = {1} /\ <<it>>[1] = it
    OBVIOUS
  <2> QED BY <2>1 DEF KeysOf
<1>2. ASSUME NEW q \in Seq(Item), Len(q) <= 1, q # <<>>
      PROVE  q[1] \in Item /\ KeysOf(q) = {q[1].key}
  <2>0. Len(q) \in Nat /\ Len(q) # 0 /\ DOMAIN q = 1..Len(q)
    BY <1>2
  <2>1. Len(q) = 1 /\ DOMAIN q = 1..1
    BY <1>2, <2>0
  <2>2. DOMAIN q = {1} /\ q[1] \in Item
    BY <2>1
  <2> QED BY <2>2 DEF KeysOf
<1> QED BY <1>1, <1>2

\* The keys of items are keys.
LEMMA KeysAreKeys ==
  ASSUME NEW q \in Seq(Item)
  PROVE  KeysOf(q) \subseteq Keys
<1>1. \A i \in DOMAIN q : q[i] \in Item
  OBVIOUS
<1> QED BY <1>1 DEF KeysOf, Item

-----------------------------------------------------------------------------
(* Slots.                                                                    *)

HeldIn(f, s) == IF f[s] = NoRun THEN {} ELSE KeysOf(f[s].item)

\* Held, slot by slot.
LEMMA HeldBySlot ==
  /\ Held = UNION {HeldIn(slots, s) : s \in Slots}
  /\ Held' = UNION {HeldIn(slots', s) : s \in Slots}
  BY DEF Held, Busy, HeldIn

\* OnePlace, of two queues and the slots.
Apart(q, t, f) ==
  /\ Distinct(q) /\ Distinct(t) /\ KeysOf(q) \cap KeysOf(t) = {}
  /\ \A s \in Slots : HeldIn(f, s) \cap (KeysOf(q) \cup KeysOf(t)) = {}
  /\ \A s, u \in Slots : s # u => HeldIn(f, s) \cap HeldIn(f, u) = {}

LEMMA OnePlaceApart ==
  /\ OnePlace <=> Apart(queue["in"], taken, slots)
  /\ OnePlace' <=> Apart(queue'["in"], taken', slots')
  BY DEF OnePlace, Apart, HeldIn, Busy

\* The first free slot, when not all are busy.
LEMMA FreeIsFree ==
  ASSUME Busy # Slots
  PROVE  Free \in Slots /\ slots[Free] = NoRun
<1>1. Slots \ Busy # {} /\ (Slots \ Busy) \in SUBSET Nat
  BY SchedulerAssumption DEF Busy, Slots
<1>2. \E s \in Slots \ Busy : \A t \in Slots \ Busy : s <= t
  BY <1>1, LeastNat
<1>3. Free \in Slots \ Busy
  BY <1>2 DEF Free
<1> QED BY <1>3 DEF Busy

\* The jobs as they were, and the handlers as far as the scheduler sees them.
LEMMA SchedRests ==
  ASSUME Identities, DueIsIdle, OneRunPerJob, UNCHANGED <<regs, jobs, due>>,
         \A s \in Slots : /\ slots'[s] = NoRun <=> slots[s] = NoRun
                          /\ slots[s] # NoRun => /\ slots'[s].reg = slots[s].reg
                                                 /\ slots'[s].agent = slots[s].agent
                                                 /\ slots'[s].pc = "release" <=> slots[s].pc = "release"
  PROVE  Identities' /\ DueIsIdle' /\ OneRunPerJob' /\ Busy' = Busy
<1>1. /\ Busy' = Busy /\ Running \subseteq Busy
      /\ \A s \in Busy : slots'[s].reg = slots[s].reg /\ slots'[s].agent = slots[s].agent
      /\ \A s \in Busy : slots'[s].pc = "release" <=> slots[s].pc = "release"
  BY DEF Busy, Running
<1>0. Running' = Running
  BY <1>1 DEF Running
<1>2. Identities'
  BY <1>1 DEF Identities
<1>3. DueIsIdle'
  BY <1>0, <1>1 DEF DueIsIdle
<1>4. OneRunPerJob'
  BY <1>0, <1>1 DEF OneRunPerJob
<1> QED BY <1>1, <1>2, <1>3, <1>4

\* Which files the jobs come from.
LEMMA FilesRest ==
  ASSUME TypeOK, Versions, ReloadIsCurrent, UNCHANGED serveVars,
         \A a \in Agents : /\ jobs'[a] = NoJob <=> jobs[a] = NoJob
                           /\ jobs[a] # NoJob => jobs'[a].file = jobs[a].file
  PROVE  Versions' /\ ReloadIsCurrent'
<1>1. Versions'
  BY DEF Versions, serveVars
<1>2. ReloadIsCurrent'
  <2>1. fresh \subseteq Agents
    BY DEF TypeOK
  <2> QED BY <2>1 DEF ReloadIsCurrent, serveVars
<1> QED BY <1>1, <1>2

\* Where the items are, while none moves.
LEMMA ItemsRest ==
  ASSUME ItemsAccounted, Exclusive, UNCHANGED <<queueVars, pollVars, setup, worker>>,
         \/ phase' = phase
         \/ (phase' \notin {"down", "starting"} /\ phase \notin {"down", "starting"}),
         \A s \in Slots : HeldIn(slots', s) = HeldIn(slots, s)
  PROVE  ItemsAccounted' /\ Exclusive'
<1>1. Held' = Held
  BY HeldBySlot
<1>2. ItemsAccounted'
  BY <1>1 DEF ItemsAccounted, queueVars, pollVars
<1>3. OnePlace => OnePlace'
  BY OnePlaceApart DEF Apart, queueVars, pollVars
<1>4. WorkerKnows => WorkerKnows'
  BY <1>1 DEF WorkerKnows, NoPoller, queueVars, pollVars
<1> QED BY <1>2, <1>3, <1>4 DEF Exclusive, Undisturbed, queueVars

-----------------------------------------------------------------------------
(* Ticks.                                                                    *)

\* One handler of a job ends or begins; the rest of the type is as it was.
LEMMA TypeRests ==
  ASSUME TypeOK, UNCHANGED <<queueVars, pollVars, serveVars>>,
         regs' \in 0 .. MaxReg, jobs' \in [Agents -> Job \cup {NoJob}],
         due' \subseteq [agent : Agents, reg : 1 .. MaxReg, file : AgentFile],
         slots' \in [Slots -> Run \cup {NoRun}]
  PROVE  TypeOK'
  BY DEF TypeOK, queueVars, pollVars, serveVars

\* The time of a job comes, ...
LEMMA RipenKeeps ==
  ASSUME Inductive, NEW a \in Agents, Ticks, Ripen(a),
         UNCHANGED <<queueVars, pollVars, serveVars>>
  PROVE  Inductive'
<1>1. /\ jobs[a] # NoJob /\ jobs[a] \in Job
      /\ jobs' = [jobs EXCEPT ![a].next = "due"]
      /\ UNCHANGED <<regs, due, slots>>
      /\ jobs \in [Agents -> Job \cup {NoJob}] /\ TypeOK
  BY DEF Ripen, Inductive, TypeOK
<1>2. [jobs[a] EXCEPT !.next = "due"] \in Job
  BY <1>1 DEF Job
<1>3. /\ jobs' \in [Agents -> Job \cup {NoJob}]
      /\ \A b \in Agents : /\ jobs'[b] = NoJob <=> jobs[b] = NoJob
                           /\ jobs[b] # NoJob => /\ jobs'[b].file = jobs[b].file
                                                 /\ jobs'[b].reg = jobs[b].reg
                                                 /\ jobs'[b].running = jobs[b].running
  <2>1. \A b \in Agents : b # a => jobs'[b] = jobs[b]
    BY <1>1
  <2>2. jobs'[a] = [jobs[a] EXCEPT !.next = "due"]
    BY <1>1
  <2>3. /\ jobs'[a].file = jobs[a].file /\ jobs'[a].reg = jobs[a].reg
        /\ jobs'[a].running = jobs[a].running
    BY <1>1, <2>2 DEF Job
  <2>4. jobs'[a] # NoJob
    BY <1>2, <2>2, NoJobAssumption
  <2>5. jobs' \in [Agents -> Job \cup {NoJob}]
    BY <1>1, <1>2
  <2> QED BY <1>1, <2>1, <2>3, <2>4, <2>5
<1>4. TypeOK'
  BY <1>1, <1>3, TypeRests DEF TypeOK
<1>5. Identities' /\ DueIsIdle' /\ OneRunPerJob'
  <2>1. Busy' = Busy /\ Running' = Running
    BY <1>1 DEF Busy, Running
  <2> QED BY <1>1, <1>3, <2>1 DEF Inductive, Identities, DueIsIdle, OneRunPerJob
<1>6. Versions' /\ ReloadIsCurrent'
  BY <1>3, FilesRest DEF Inductive
<1>7. ItemsAccounted' /\ Exclusive'
  BY <1>1, ItemsRest DEF Inductive, HeldIn, serveVars
<1>8. ItemsInRuns'
  BY <1>1 DEF Inductive, ItemsInRuns, Busy
<1>9. QuietAtStart'
  BY DEF Ticks, QuietAtStart, serveVars
<1> QED BY <1>4, <1>5, <1>6, <1>7, <1>8, <1>9 DEF Inductive

\* ... the tick collects it under the read lock ...
LEMMA CollectDueKeeps ==
  ASSUME Inductive, Ticks, CollectDue, UNCHANGED <<queueVars, pollVars, serveVars>>
  PROVE  Inductive'
<1>1. /\ UNCHANGED <<regs, jobs, slots>>
      /\ jobs \in [Agents -> Job \cup {NoJob}] /\ TypeOK
      /\ Busy' = Busy /\ Running' = Running
  BY DEF CollectDue, Inductive, TypeOK, Busy, Running
<1>2. \A x \in due' : \E a \in Agents :
        /\ IsDue(a) /\ jobs[a] \in Job
        /\ x = [agent |-> a, reg |-> jobs[a].reg, file |-> jobs[a].file]
  BY <1>1 DEF CollectDue, IsDue
<1>3. ASSUME NEW x \in due'
      PROVE  /\ x \in [agent : Agents, reg : 1 .. MaxReg, file : AgentFile]
             /\ x = [agent |-> x.agent, reg |-> jobs[x.agent].reg, file |-> jobs[x.agent].file]
             /\ x.agent \in Agents /\ IsDue(x.agent) /\ x.reg = jobs[x.agent].reg
  <2>1. PICK a \in Agents :
          /\ IsDue(a) /\ jobs[a] \in Job
          /\ x = [agent |-> a, reg |-> jobs[a].reg, file |-> jobs[a].file]
    BY <1>2, <1>3
  <2> QED BY <2>1 DEF Job
<1>4. TypeOK'
  BY <1>1, <1>3, TypeRests DEF TypeOK
<1>5. Identities'
  <2>1. ASSUME NEW x \in due', NEW a \in Agents, jobs[a] # NoJob, jobs[a].reg = x.reg
        PROVE  x.agent = a
    BY <1>3, <2>1 DEF Inductive, Identities, IsDue
  <2>2. \A x \in due' : x.reg <= regs
    BY <1>3 DEF Inductive, Identities, IsDue
  <2> QED BY <1>1, <2>1, <2>2 DEF Inductive, Identities
<1>6. DueIsIdle'
  <2>1. ASSUME NEW x \in due', NEW y \in due', x.reg = y.reg PROVE x = y
    <3>1. x.agent = y.agent
      BY <1>3, <2>1 DEF Inductive, Identities, IsDue
    <3> QED BY <1>3, <3>1
  <2>2. ASSUME NEW x \in due', NEW s \in Running PROVE x.reg # slots[s].reg
    BY <1>3 DEF Inductive, OneRunPerJob, IsDue
  <2> QED BY <1>1, <2>1, <2>2 DEF DueIsIdle
<1>7. OneRunPerJob'
  BY <1>1 DEF Inductive, OneRunPerJob
<1>8. Versions' /\ ReloadIsCurrent'
  BY <1>1, FilesRest DEF Inductive
<1>9. ItemsAccounted' /\ Exclusive'
  BY <1>1, ItemsRest DEF Inductive, HeldIn, serveVars
<1>10. ItemsInRuns'
  BY <1>1 DEF Inductive, ItemsInRuns
<1>11. QuietAtStart'
  BY DEF Ticks, QuietAtStart, serveVars
<1> QED BY <1>4, <1>5, <1>6, <1>7, <1>8, <1>9, <1>10, <1>11 DEF Inductive

\* The handler of a job that was due has no item yet.
LEMMA HandlerType ==
  ASSUME NEW x \in [agent : Agents, reg : 1 .. MaxReg, file : AgentFile]
  PROVE  /\ Handler(x) \in Run /\ Handler(x) # NoRun
         /\ Handler(x).item = <<>> /\ Handler(x).left >= 1 /\ Handler(x).pc # "release"
         /\ Handler(x).agent = x.agent /\ Handler(x).reg = x.reg
<1>1. x.agent \in Agents /\ x.reg \in 1 .. MaxReg /\ x.file \in AgentFile
  OBVIOUS
<1>2. /\ (IF x.agent \in QueueAgents THEN Batch ELSE 1) \in 0 .. Batch
      /\ (IF x.agent \in QueueAgents THEN Batch ELSE 1) >= 1
  BY AgentQueueAssumption
<1>3. Handler(x) \in Run
  BY <1>1, <1>2, KeysEmpty DEF Handler, Run
<1> QED BY <1>2, <1>3, NoRunAssumption DEF Handler

\* ... and starts it, unless it runs.
LEMMA StartDueKeeps ==
  ASSUME Inductive, NEW x \in due, StartDue(x, Handler(x)),
         UNCHANGED <<queueVars, pollVars, serveVars>>
  PROVE  Inductive'
<1> DEFINE h == Handler(x)
           free == Free
<1>1. /\ TypeOK /\ jobs \in [Agents -> Job \cup {NoJob}] /\ slots \in [Slots -> Run \cup {NoRun}]
      /\ x \in [agent : Agents, reg : 1 .. MaxReg, file : AgentFile] /\ x.agent \in Agents
      /\ due' = due \ {x} /\ regs' = regs
  BY DEF Inductive, TypeOK, StartDue
<1>2. /\ h \in Run /\ h # NoRun /\ h.item = <<>> /\ h.left >= 1 /\ h.pc # "release"
      /\ h.agent = x.agent /\ h.reg = x.reg
  BY <1>1, HandlerType
<1>3. phase \notin {"down", "starting"} /\ QuietAtStart'
  BY DEF Inductive, QuietAtStart, serveVars
<1>4. CASE Busy = Slots
  <2>1. UNCHANGED <<jobs, slots>> /\ Busy' = Busy /\ Running' = Running
    BY <1>4 DEF StartDue, Busy, Running
  <2>2. TypeOK'
    BY <1>1, <2>1, TypeRests DEF TypeOK
  <2>3. Identities' /\ DueIsIdle' /\ OneRunPerJob'
    BY <1>1, <2>1 DEF Inductive, Identities, DueIsIdle, OneRunPerJob
  <2>4. Versions' /\ ReloadIsCurrent'
    BY <2>1, FilesRest DEF Inductive
  <2>5. ItemsAccounted' /\ Exclusive'
    <3>1. \A s \in Slots : HeldIn(slots', s) = HeldIn(slots, s)
      BY <2>1
    <3> QED BY <3>1, ItemsRest DEF Inductive, serveVars
  <2>6. ItemsInRuns'
    BY <2>1 DEF Inductive, ItemsInRuns
  <2> QED BY <1>3, <2>2, <2>3, <2>4, <2>5, <2>6 DEF Inductive
<1>5. CASE Busy # Slots
  <2>1. /\ free \in Slots /\ slots[free] = NoRun
        /\ slots' = [slots EXCEPT ![free] = h]
        /\ jobs' = IF IsCurrent(x) THEN Marked(x.agent) ELSE jobs
    BY <1>5, FreeIsFree DEF StartDue
  <2> HIDE DEF free, h
  <2>2. /\ \A s \in Slots : s # free => slots'[s] = slots[s]
        /\ slots'[free] = h /\ slots' \in [Slots -> Run \cup {NoRun}]
        /\ Busy' = Busy \cup {free} /\ free \notin Busy
        /\ Running' = Running \cup {free} /\ free \notin Running
        /\ \A s \in Running : slots'[s] = slots[s]
    <3>1. /\ \A s \in Slots : s # free => slots'[s] = slots[s]
          /\ slots'[free] = h /\ slots' \in [Slots -> Run \cup {NoRun}]
          /\ Busy' = Busy \cup {free} /\ free \notin Busy
      BY <1>1, <1>2, <2>1 DEF Busy
    <3>2. \A s \in Busy : slots'[s] = slots[s]
      BY <3>1 DEF Busy
    <3> QED BY <1>2, <3>1, <3>2 DEF Running
  <2>3. /\ jobs' \in [Agents -> Job \cup {NoJob}]
        /\ \A b \in Agents : /\ jobs'[b] = NoJob <=> jobs[b] = NoJob
                             /\ jobs[b] # NoJob => /\ jobs'[b].file = jobs[b].file
                                                   /\ jobs'[b].reg = jobs[b].reg
    <3>1. CASE IsCurrent(x)
      <4>1. /\ jobs[x.agent] \in Job /\ jobs' = [jobs EXCEPT ![x.agent].running = TRUE]
        BY <1>1, <2>1, <3>1 DEF IsCurrent, Marked
      <4>2. [jobs[x.agent] EXCEPT !.running = TRUE] \in Job
        BY <4>1 DEF Job
      <4>3. /\ [jobs[x.agent] EXCEPT !.running = TRUE].file = jobs[x.agent].file
            /\ [jobs[x.agent] EXCEPT !.running = TRUE].reg = jobs[x.agent].reg
        BY <4>1 DEF Job
      <4>4. \A b \in Agents : jobs'[b] = IF b = x.agent THEN [jobs[b] EXCEPT !.running = TRUE]
                                         ELSE jobs[b]
        BY <1>1, <4>1
      <4>5. jobs' \in [Agents -> Job \cup {NoJob}]
        BY <1>1, <4>1, <4>2
      <4> QED BY <1>1, <4>1, <4>2, <4>3, <4>4, <4>5, NoJobAssumption
    <3>2. CASE ~IsCurrent(x)
      BY <1>1, <2>1, <3>2
    <3> QED BY <3>1, <3>2
  <2>4. \A b \in Agents : jobs[b] # NoJob =>
          (jobs'[b].running <=> jobs[b].running \/ jobs[b].reg = x.reg)
    <3> SUFFICES ASSUME NEW b \in Agents, jobs[b] # NoJob
                 PROVE  jobs'[b].running <=> jobs[b].running \/ jobs[b].reg = x.reg
      OBVIOUS
    <3>1. jobs[b] \in Job
      BY <1>1
    <3>2. CASE IsCurrent(x) /\ b = x.agent
      <4>1. jobs'[b] = [jobs[b] EXCEPT !.running = TRUE]
        BY <1>1, <2>1, <3>2 DEF Marked
      <4>2. jobs'[b].running
        BY <3>1, <4>1 DEF Job
      <4> QED BY <3>2, <4>2 DEF IsCurrent
    <3>3. CASE ~IsCurrent(x) \/ b # x.agent
      <4>1. jobs'[b] = jobs[b]
        BY <1>1, <2>1, <3>3 DEF Marked
      <4>2. jobs[b].reg # x.reg
        BY <3>3 DEF Inductive, Identities, IsCurrent
      <4> QED BY <4>1, <4>2
    <3> QED BY <3>2, <3>3
  <2>5. TypeOK'
    BY <1>1, <2>2, <2>3, TypeRests DEF TypeOK
  <2>6. Identities'
    <3>1. \A a, b \in Agents :
            jobs'[a] # NoJob /\ jobs'[b] # NoJob /\ jobs'[a].reg = jobs'[b].reg => a = b
      BY <2>3 DEF Inductive, Identities
    <3>2. /\ \A a \in Agents : jobs'[a] # NoJob => jobs'[a].reg <= regs'
          /\ \A y \in due' : y.reg <= regs'
      BY <1>1, <2>3 DEF Inductive, Identities
    <3>3. \A y \in due', a \in Agents :
            jobs'[a] # NoJob /\ jobs'[a].reg = y.reg => y.agent = a
      BY <1>1, <2>3 DEF Inductive, Identities
    <3>4. ASSUME NEW s \in Busy'
          PROVE  /\ slots'[s].reg <= regs'
                 /\ \A a \in Agents :
                      jobs'[a] # NoJob /\ jobs'[a].reg = slots'[s].reg => slots'[s].agent = a
      <4>1. CASE s = free
        BY <1>1, <1>2, <2>2, <2>3, <4>1 DEF Inductive, Identities
      <4>2. CASE s # free
        BY <1>1, <2>2, <2>3, <3>4, <4>2 DEF Inductive, Identities, Busy
      <4> QED BY <4>1, <4>2
    <3> QED BY <3>1, <3>2, <3>3, <3>4 DEF Identities
  <2>7. DueIsIdle'
    <3>1. \A y \in due' : y.reg # x.reg
      BY <1>1 DEF Inductive, DueIsIdle
    <3>2. \A y, z \in due' : y.reg = z.reg => y = z
      BY <1>1 DEF Inductive, DueIsIdle
    <3>3. \A y \in due', s \in Running : y.reg # slots'[s].reg
      BY <1>1, <2>2 DEF Inductive, DueIsIdle
    <3> QED BY <1>2, <2>2, <3>1, <3>2, <3>3 DEF DueIsIdle
  <2>8. OneRunPerJob'
    <3>1. \A s \in Running : slots[s].reg # x.reg
      BY DEF Inductive, DueIsIdle
    <3>2. \A s, t \in Running' : s # t => slots'[s].reg # slots'[t].reg
      BY <1>2, <2>2, <3>1 DEF Inductive, OneRunPerJob
    <3>3. ASSUME NEW a \in Agents, jobs'[a] # NoJob
          PROVE  jobs'[a].running <=> \E s \in Running' : slots'[s].reg = jobs'[a].reg
      <4>1. jobs[a].running <=> \E s \in Running : slots[s].reg = jobs[a].reg
        BY <2>3, <3>3 DEF Inductive, OneRunPerJob
      <4>2. (\E s \in Running' : slots'[s].reg = jobs'[a].reg)
              <=> (jobs[a].reg = x.reg \/ \E s \in Running : slots[s].reg = jobs[a].reg)
        BY <1>2, <2>2, <2>3, <3>3
      <4>3. jobs'[a].running <=> jobs[a].running \/ jobs[a].reg = x.reg
        BY <2>3, <2>4, <3>3
      <4> QED BY <4>1, <4>2, <4>3
    <3> QED BY <3>2, <3>3 DEF OneRunPerJob
  <2>9. Versions' /\ ReloadIsCurrent'
    BY <2>3, FilesRest DEF Inductive
  <2>10. ItemsAccounted' /\ Exclusive'
    <3>1. \A s \in Slots : HeldIn(slots', s) = HeldIn(slots, s)
      BY <1>2, <2>1, <2>2, KeysEmpty DEF HeldIn
    <3> QED BY <3>1, ItemsRest DEF Inductive, serveVars
  <2>11. ItemsInRuns'
    BY <1>2, <2>2, KeysEmpty DEF Inductive, ItemsInRuns, Busy
  <2> QED BY <1>3, <2>5, <2>6, <2>7, <2>8, <2>9, <2>10, <2>11 DEF Inductive
<1> QED BY <1>4, <1>5

-----------------------------------------------------------------------------
(* Start and reload.                                                         *)

\* What the scheduler and the handlers have while neither does anything.
LEMMA SchedSame ==
  ASSUME Inductive, UNCHANGED schedVars
  PROVE  /\ Identities' /\ DueIsIdle' /\ OneRunPerJob' /\ ItemsInRuns'
         /\ Busy' = Busy /\ Held' = Held
<1>1. UNCHANGED <<regs, jobs, due, slots>> /\ Busy' = Busy
  BY DEF schedVars, Busy
<1>2. Identities' /\ DueIsIdle' /\ OneRunPerJob'
  BY <1>1, SchedRests DEF Inductive
<1>3. ItemsInRuns'
  BY <1>1 DEF Inductive, ItemsInRuns
<1> QED BY <1>1, <1>2, <1>3 DEF Held

\* What a registration or a deregistration does to the jobs.
Registers(a) ==
  \/ jobs' = jobs /\ regs' = regs
  \/ jobs' = [jobs EXCEPT ![a] = NoJob] /\ regs' = regs
  \/ loaded[a].kind \in {"cron", "once"} /\ Put(a, loaded[a])

\* A registration is an object of its own, with an identity no handler has.
LEMMA RegistersKeep ==
  ASSUME Inductive, NEW a \in Agents, Registers(a),
         todo' \subseteq todo, UNCHANGED <<due, slots, phase, loaded, fresh, disk>>
  PROVE  /\ regs' \in 0 .. MaxReg /\ jobs' \in [Agents -> Job \cup {NoJob}]
         /\ \A b \in Agents : b # a => jobs'[b] = jobs[b]
         /\ Identities' /\ DueIsIdle' /\ OneRunPerJob' /\ ItemsInRuns' /\ Versions'
         /\ Busy' = Busy /\ Held' = Held
<1>1. /\ jobs \in [Agents -> Job \cup {NoJob}] /\ regs \in 0 .. MaxReg
      /\ loaded[a] \in AgentFile /\ MaxReg \in Nat
      /\ slots \in [Slots -> Run \cup {NoRun}]
  BY SchedulerAssumption DEF Inductive, TypeOK
<1>2. Busy' = Busy /\ Held' = Held /\ ItemsInRuns' /\ Running' = Running /\ Running \subseteq Busy
  BY DEF Busy, Held, Running, Inductive, ItemsInRuns
<1>3. CASE jobs' = jobs /\ regs' = regs
  <2>1. UNCHANGED schedVars
    BY <1>3 DEF schedVars
  <2>2. Versions'
    BY <1>3 DEF Inductive, Versions
  <2> QED BY <1>1, <1>3, <2>1, <2>2, SchedSame
<1>4. CASE jobs' = [jobs EXCEPT ![a] = NoJob] /\ regs' = regs
  <2>1. /\ jobs' \in [Agents -> Job \cup {NoJob}]
        /\ \A b \in Agents : b # a => jobs'[b] = jobs[b]
        /\ \A b \in Agents : jobs'[b] # NoJob => b # a
    BY <1>1, <1>4
  <2>2. Identities' /\ DueIsIdle'
    BY <1>2, <1>4, <2>1 DEF Inductive, Identities, DueIsIdle
  <2>3. OneRunPerJob'
    BY <1>2, <2>1 DEF Inductive, OneRunPerJob
  <2>4. Versions'
    BY <2>1 DEF Inductive, Versions
  <2> QED BY <1>1, <1>2, <1>4, <2>1, <2>2, <2>3, <2>4
<1>5. CASE loaded[a].kind \in {"cron", "once"} /\ Put(a, loaded[a])
  <2> DEFINE j == Registered(loaded[a])
  <2>1. /\ regs < MaxReg /\ regs' = regs + 1 /\ jobs' = [jobs EXCEPT ![a] = j]
    BY <1>5 DEF Put
  <2>2. /\ j \in Job /\ j # NoJob /\ j.reg = regs + 1 /\ ~j.running /\ j.file = loaded[a]
    <3>1. regs + 1 \in 1 .. MaxReg
      BY <1>1, <2>1
    <3>2. j \in Job
      BY <1>1, <3>1 DEF Registered, Job
    <3> QED BY <3>2, NoJobAssumption DEF Registered
  <2> HIDE DEF j
  <2>3. /\ jobs' \in [Agents -> Job \cup {NoJob}]
        /\ \A b \in Agents : b # a => jobs'[b] = jobs[b]
        /\ jobs'[a] = j
        /\ regs' \in 0 .. MaxReg
    BY <1>1, <2>1, <2>2
  <2>4. /\ \A b \in Agents : jobs[b] # NoJob => jobs[b].reg # regs + 1
        /\ \A x \in due : x.reg # regs + 1
        /\ \A s \in Busy : slots[s].reg # regs + 1
    <3>1. \A b \in Agents : jobs[b] # NoJob => jobs[b].reg \in Nat /\ jobs[b].reg <= regs
      BY <1>1 DEF Inductive, Identities, Job
    <3>2. \A x \in due : x.reg \in Nat /\ x.reg <= regs
      BY DEF Inductive, Identities, TypeOK
    <3>3. \A s \in Busy : slots[s].reg \in Nat /\ slots[s].reg <= regs
      BY <1>1 DEF Inductive, Identities, Run, Busy
    <3> QED BY <1>1, <3>1, <3>2, <3>3
  <2>5. Identities'
    <3>1. \A b \in Agents : jobs'[b] # NoJob => jobs'[b].reg <= regs'
      BY <1>1, <2>1, <2>2, <2>3 DEF Inductive, Identities, Job
    <3>2. \A b, d \in Agents :
            jobs'[b] # NoJob /\ jobs'[d] # NoJob /\ jobs'[b].reg = jobs'[d].reg => b = d
      BY <2>2, <2>3, <2>4 DEF Inductive, Identities
    <3>3. \A x \in due' : x.reg <= regs'
      BY <1>1, <2>1 DEF Inductive, Identities, TypeOK
    <3>4. \A x \in due', b \in Agents :
            jobs'[b] # NoJob /\ jobs'[b].reg = x.reg => x.agent = b
      BY <2>2, <2>3, <2>4 DEF Inductive, Identities
    <3>5. \A s \in Busy' : slots'[s].reg <= regs'
      BY <1>1, <1>2, <2>1 DEF Inductive, Identities, Run, Busy
    <3>6. \A s \in Busy', b \in Agents :
            jobs'[b] # NoJob /\ jobs'[b].reg = slots'[s].reg => slots'[s].agent = b
      BY <1>2, <2>2, <2>3, <2>4 DEF Inductive, Identities
    <3> QED BY <3>1, <3>2, <3>3, <3>4, <3>5, <3>6 DEF Identities
  <2>6. DueIsIdle'
    BY <1>2 DEF Inductive, DueIsIdle
  <2>7. OneRunPerJob'
    <3>1. ASSUME NEW b \in Agents, jobs'[b] # NoJob
          PROVE  jobs'[b].running <=> \E s \in Running' : slots'[s].reg = jobs'[b].reg
      <4>1. CASE b = a
        BY <1>2, <2>2, <2>3, <2>4, <4>1
      <4>2. CASE b # a
        BY <1>2, <2>3, <3>1, <4>2 DEF Inductive, OneRunPerJob
      <4> QED BY <4>1, <4>2
    <3> QED BY <1>2, <3>1 DEF Inductive, OneRunPerJob
  <2>8. Versions'
    BY <1>5, <2>2, <2>3 DEF Inductive, Versions
  <2> QED BY <1>2, <2>3, <2>5, <2>6, <2>7, <2>8
<1> QED BY <1>3, <1>4, <1>5 DEF Registers

\* What the hashes become.
LEMMA RegisterAgentRegisters ==
  ASSUME TypeOK, NEW a \in Agents, RegisterAgent(a, loaded[a]), loaded[a].kind # "none"
  PROVE  /\ Registers(a) /\ hashes' \in [Agents -> SUBSET AgentFile]
         /\ \A b \in Agents : b # a => hashes'[b] = hashes[b]
         /\ IF loaded[a].kind \in {"cron", "once"} THEN Put(a, loaded[a])
                                                   ELSE jobs' = [jobs EXCEPT ![a] = NoJob]
<1>1. /\ {disk[a]} \in SUBSET AgentFile /\ {} \in SUBSET AgentFile
      /\ hashes \in [Agents -> SUBSET AgentFile] /\ loaded[a].kind \in Kinds
  BY DEF TypeOK, AgentFile
<1>2. loaded[a].kind \in {"cron", "once", "unscheduled", "refused"}
  BY <1>1 DEF Kinds
<1>3. CASE loaded[a].kind \in {"cron", "once"}
  BY <1>1, <1>3 DEF RegisterAgent, Registers
<1>4. CASE loaded[a].kind = "unscheduled"
  BY <1>1, <1>4 DEF RegisterAgent, Registers
<1>5. CASE loaded[a].kind = "refused"
  BY <1>1, <1>5 DEF RegisterAgent, Registers
<1> QED BY <1>2, <1>3, <1>4, <1>5

\* The jobs are registered one by one.
LEMMA RegisterAtStartKeeps ==
  ASSUME Inductive, NEW a \in Agents, RegisterAtStart(a)
  PROVE  Inductive'
<1>1. /\ phase = "starting" /\ todo' = todo \ {a} /\ TypeOK
      /\ UNCHANGED <<due, slots, queueVars, pollVars, setup, phase, boots, disk, edits, loaded,
                     fresh, worker, timedOut>>
  BY DEF RegisterAtStart, Inductive
<1>2. Registers(a) /\ hashes' \in [Agents -> SUBSET AgentFile]
  <2>1. loaded[a].kind # "none" /\ RegisterAgent(a, loaded[a])
    BY DEF RegisterAtStart, Inductive, Versions
  <2> QED BY <1>1, <2>1, RegisterAgentRegisters
<1>3. /\ regs' \in 0 .. MaxReg /\ jobs' \in [Agents -> Job \cup {NoJob}]
      /\ Identities' /\ DueIsIdle' /\ OneRunPerJob' /\ ItemsInRuns' /\ Versions'
      /\ Busy' = Busy
  BY <1>1, <1>2, RegistersKeep
<1>4. TypeOK'
  BY <1>1, <1>2, <1>3 DEF TypeOK, queueVars, pollVars
<1>5. QuietAtStart'
  BY <1>1, <1>3 DEF Inductive, QuietAtStart
<1>6. ReloadIsCurrent'
  BY <1>1 DEF ReloadIsCurrent
<1>7. ItemsAccounted' /\ Exclusive'
  <2>1. \A s \in Slots : HeldIn(slots', s) = HeldIn(slots, s)
    BY <1>1
  <2> QED BY <1>1, <2>1, ItemsRest DEF Inductive
<1> QED BY <1>3, <1>4, <1>5, <1>6, <1>7 DEF Inductive

\* A reload finds each agent as its files say.
LEMMA SyncKeeps ==
  ASSUME Inductive, NEW a \in Agents, Sync(a)
  PROVE  Inductive'
<1>1. /\ phase = "reloading" /\ todo' = todo \ {a} /\ TypeOK
      /\ UNCHANGED <<due, slots, queueVars, pollVars, setup, phase, boots, disk, edits, loaded,
                     fresh, worker, timedOut>>
  BY DEF Sync, Inductive
<1>2. /\ Registers(a) /\ hashes' \in [Agents -> SUBSET AgentFile]
      /\ \A b \in Agents : b # a => hashes'[b] = hashes[b]
      /\ a \in fresh /\ jobs'[a] # NoJob /\ hashes'[a] = {jobs'[a].file} =>
           loaded[a].kind \in {"cron", "once"} /\ jobs'[a].file = loaded[a]
      /\ jobs'[a] = NoJob => loaded[a].kind \notin {"cron", "once"}
  <2>0. /\ jobs \in [Agents -> Job \cup {NoJob}] /\ hashes \in [Agents -> SUBSET AgentFile]
        /\ loaded[a] \in AgentFile /\ disk[a] \in AgentFile
    BY <1>1 DEF TypeOK
  <2>1. CASE loaded[a].kind = "none"
    <3>1. Deregister(a)
      BY <2>1 DEF Sync
    <3>2. jobs' = [jobs EXCEPT ![a] = NoJob] /\ jobs'[a] = NoJob /\ regs' = regs
      BY <2>0, <3>1 DEF Deregister
    <3>3. /\ hashes' \in [Agents -> SUBSET AgentFile]
          /\ \A b \in Agents : b # a => hashes'[b] = hashes[b]
      BY <2>0, <3>1 DEF Deregister
    <3> QED BY <2>1, <3>2, <3>3 DEF Registers
  <2>2. CASE loaded[a].kind # "none" /\ IsUnchanged(a)
    <3>1. UNCHANGED <<regs, jobs, hashes>> /\ jobs[a] # NoJob /\ hashes[a] = {disk[a]}
      BY <2>2 DEF Sync, IsUnchanged
    <3>2. /\ a \in fresh => loaded[a] = disk[a]
          /\ jobs[a].file.kind \in {"cron", "once"}
      BY <3>1 DEF Inductive, Versions
    <3>3. ASSUME a \in fresh, hashes[a] = {jobs[a].file} PROVE jobs[a].file = loaded[a]
      BY <3>1, <3>2, <3>3
    <3> QED BY <2>0, <3>1, <3>2, <3>3 DEF Registers
  <2>3. CASE loaded[a].kind # "none" /\ ~IsUnchanged(a)
    <3>1. RegisterAgent(a, loaded[a])
      BY <2>3 DEF Sync
    <3>2. /\ Registers(a) /\ hashes' \in [Agents -> SUBSET AgentFile]
          /\ \A b \in Agents : b # a => hashes'[b] = hashes[b]
          /\ IF loaded[a].kind \in {"cron", "once"} THEN Put(a, loaded[a])
                                                    ELSE jobs' = [jobs EXCEPT ![a] = NoJob]
      BY <1>1, <2>3, <3>1, RegisterAgentRegisters
    <3>3. CASE loaded[a].kind \in {"cron", "once"}
      <4>1. jobs'[a] = Registered(loaded[a])
        BY <2>0, <3>2, <3>3 DEF Put
      <4>2. jobs'[a].file = loaded[a]
        BY <4>1 DEF Registered
      <4>3. jobs'[a] # NoJob
        <5>1. /\ regs \in 0 .. MaxReg /\ regs < MaxReg /\ MaxReg \in Nat
          BY <1>1, <3>2, <3>3, SchedulerAssumption DEF TypeOK, Put
        <5>2. regs + 1 \in 1 .. MaxReg
          BY <5>1
        <5>3. Registered(loaded[a]) \in Job
          BY <2>0, <5>2 DEF Registered, Job
        <5> QED BY <4>1, <5>3, NoJobAssumption
      <4> QED BY <3>2, <3>3, <4>2, <4>3
    <3>4. CASE loaded[a].kind \notin {"cron", "once"}
      <4>1. jobs'[a] = NoJob
        BY <2>0, <3>2, <3>4
      <4> QED BY <3>2, <3>4, <4>1
    <3> QED BY <3>3, <3>4
  <2> QED BY <2>1, <2>2, <2>3
<1>3. /\ regs' \in 0 .. MaxReg /\ jobs' \in [Agents -> Job \cup {NoJob}]
      /\ Identities' /\ DueIsIdle' /\ OneRunPerJob' /\ ItemsInRuns' /\ Versions'
      /\ Busy' = Busy /\ \A b \in Agents : b # a => jobs'[b] = jobs[b]
  BY <1>1, <1>2, RegistersKeep
<1>4. TypeOK'
  BY <1>1, <1>2, <1>3 DEF TypeOK, queueVars, pollVars
<1>5. QuietAtStart'
  BY <1>1 DEF QuietAtStart
<1>6. ReloadIsCurrent'
  <2> SUFFICES ASSUME NEW b \in fresh \ todo', jobs'[b] # NoJob => hashes'[b] = {jobs'[b].file}
               PROVE  IF loaded[b].kind \in {"cron", "once"}
                        THEN jobs'[b] # NoJob /\ jobs'[b].file = loaded[b]
                        ELSE jobs'[b] = NoJob
    BY <1>1 DEF ReloadIsCurrent
  <2>0. b \in Agents
    BY <1>1 DEF TypeOK
  <2>1. CASE b = a
    BY <1>2, <2>1
  <2>2. CASE b # a
    BY <1>1, <1>2, <1>3, <2>0, <2>2 DEF Inductive, ReloadIsCurrent
  <2> QED BY <2>1, <2>2
<1>7. ItemsAccounted' /\ Exclusive'
  <2>1. \A s \in Slots : HeldIn(slots', s) = HeldIn(slots, s)
    BY <1>1
  <2> QED BY <1>1, <2>1, ItemsRest DEF Inductive
<1> QED BY <1>3, <1>4, <1>5, <1>6, <1>7 DEF Inductive

\* A process that serves: nothing moves while its phase changes.
LEMMA PhaseKeeps ==
  ASSUME Inductive,
         UNCHANGED <<schedVars, queueVars, pollVars, setup, boots, disk, edits, hashes, worker>>,
         \/ UNCHANGED <<loaded, fresh, todo>> /\ phase' # "reloading"
         \/ LoadDir,
         phase \notin {"down", "starting"}, phase' \in Phases \ {"down", "starting"},
         timedOut' \in BOOLEAN
  PROVE  Inductive'
<1>1. TypeOK'
  BY DEF Inductive, TypeOK, schedVars, queueVars, pollVars, LoadDir
<1>2. Identities' /\ DueIsIdle' /\ OneRunPerJob' /\ ItemsInRuns'
  BY SchedSame
<1>3. ItemsAccounted' /\ Exclusive'
  <2>1. \A s \in Slots : HeldIn(slots', s) = HeldIn(slots, s)
    BY DEF schedVars
  <2> QED BY <2>1, ItemsRest DEF Inductive
<1>4. Versions'
  <2>1. CASE UNCHANGED <<loaded, fresh, todo>>
    BY <2>1 DEF Inductive, Versions, schedVars
  <2>2. CASE LoadDir
    BY <2>2 DEF Inductive, Versions, schedVars, LoadDir
  <2> QED BY <2>1, <2>2
<1>5. ReloadIsCurrent'
  <2>1. CASE phase' # "reloading"
    BY <2>1 DEF ReloadIsCurrent
  <2>2. CASE LoadDir
    BY <2>2 DEF ReloadIsCurrent, LoadDir, schedVars
  <2> QED BY <2>1, <2>2
<1>6. QuietAtStart'
  BY DEF QuietAtStart
<1> QED BY <1>1, <1>2, <1>3, <1>4, <1>5, <1>6 DEF Inductive

\* The process starts from the files of the queue; what was unsaved is gone.
LEMMA BootKeeps ==
  ASSUME Inductive, Boot
  PROVE  Inductive'
<1>1. /\ phase = "down" /\ phase' = "starting" /\ loaded' = disk /\ fresh' = Agents
      /\ todo' = {a \in Agents : disk[a].kind # "none" \/ jobs[a] # NoJob}
      /\ boots < setup.boots /\ boots' = boots + 1
      /\ IF worker THEN NewPoller ELSE UNCHANGED pollVars
      /\ UNCHANGED <<schedVars, queueVars, setup, disk, edits, hashes, worker, timedOut>>
  BY DEF Boot, LoadDir
<1>2. /\ TypeOK /\ Busy = {} /\ due = {} /\ NoPoller /\ jobs = [a \in Agents |-> NoJob]
  BY <1>1 DEF Inductive, QuietAtStart
<1>3. /\ boots \in Nat /\ setup.boots \in Nat /\ queue["in"] \in Seq(Item)
  BY <1>2, SetupsOK DEF TypeOK, Names
<1>4. /\ pc' \in {"none", "seed"} /\ (pc' = "none" <=> ~worker) /\ left' \in Nat /\ taken' = <<>>
      /\ listed' = {} /\ seen' = {}
      /\ pc' = "seed" => left' = Len(queue["in"])
      /\ pc' = "none" => left' = 0
  <2>1. worker \in BOOLEAN /\ Len(queue["in"]) \in Nat
    BY <1>2, <1>3 DEF TypeOK
  <2> QED BY <1>1, <1>2, <2>1 DEF NewPoller, NoPoller, pollVars
<1>5. TypeOK'
  <2>1. boots' \in 0 .. setup'.boots
    BY <1>1, <1>3
  <2> QED BY <1>1, <1>2, <1>4, <2>1, KeysEmpty DEF TypeOK, schedVars, queueVars, Phases
<1>6. /\ Identities' /\ DueIsIdle' /\ OneRunPerJob' /\ ItemsInRuns'
      /\ Busy' = Busy /\ Held' = Held
  BY <1>1, SchedSame
<1>7. QuietAtStart'
  BY <1>1, <1>2, <1>6 DEF QuietAtStart, schedVars
<1>8. taken' = taken
  BY <1>2, <1>4 DEF NoPoller
<1>9. ItemsAccounted'
  BY <1>1, <1>6, <1>8 DEF Inductive, ItemsAccounted, queueVars
<1>10. Versions'
  BY <1>1, <1>2 DEF Versions, schedVars
<1>11. ReloadIsCurrent'
  BY <1>1 DEF ReloadIsCurrent
<1>12. Exclusive'
  <2> SUFFICES ASSUME faults' = 0, Undisturbed'
               PROVE  file' = queue' /\ OnePlace' /\ WorkerKnows'
    BY DEF Exclusive, Undisturbed
  <2>1. file = queue /\ OnePlace /\ WorkerKnows
    BY <1>1 DEF Inductive, Exclusive, Undisturbed, queueVars
  <2>2. OnePlace'
    BY <1>1, <1>8, <2>1, OnePlaceApart DEF schedVars, queueVars
  <2>3. NoPoller' <=> pc' = "none"
    BY <1>4 DEF NoPoller
  <2>4. WorkerKnows'
    BY <1>1, <1>2, <1>4, <2>1, <2>3 DEF WorkerKnows, queueVars
  <2> QED BY <1>1, <2>1, <2>2, <2>4 DEF queueVars
<1> QED BY <1>5, <1>6, <1>7, <1>9, <1>10, <1>11, <1>12 DEF Inductive

\* The poller starts, with the seen set that it has.
LEMMA StartServingKeeps ==
  ASSUME Inductive, StartServing
  PROVE  Inductive'
<1>1. /\ phase = "starting" /\ phase' = "serving" /\ (NoPoller \/ Seeded)
      /\ pc' = IF Seeded THEN "idle" ELSE pc
      /\ UNCHANGED <<schedVars, queueVars, left, taken, listed, seen, setup, boots, disk, edits,
                     loaded, fresh, hashes, todo, worker, timedOut>>
  BY DEF StartServing, StartWorker
<1>2. TypeOK'
  BY <1>1 DEF Inductive, TypeOK, schedVars, queueVars, Phases
<1>3. /\ Identities' /\ DueIsIdle' /\ OneRunPerJob' /\ ItemsInRuns'
      /\ Busy' = Busy /\ Held' = Held
  BY <1>1, SchedSame
<1>4. QuietAtStart'
  BY <1>1 DEF QuietAtStart
<1>5. ItemsAccounted'
  BY <1>1, <1>3 DEF Inductive, ItemsAccounted, queueVars
<1>6. Versions'
  BY <1>1 DEF Inductive, Versions, schedVars
<1>7. ReloadIsCurrent'
  BY <1>1 DEF ReloadIsCurrent
<1>8. Exclusive'
  <2> SUFFICES ASSUME faults' = 0, Undisturbed'
               PROVE  file' = queue' /\ OnePlace' /\ WorkerKnows'
    BY DEF Exclusive, Undisturbed
  <2>1. file = queue /\ OnePlace /\ WorkerKnows
    BY <1>1 DEF Inductive, Exclusive, Undisturbed, queueVars
  <2>2. OnePlace'
    BY <1>1, <2>1, OnePlaceApart DEF schedVars, queueVars
  <2>3. Held = {}
    BY <1>1 DEF Inductive, QuietAtStart, Held
  <2>4. CASE Seeded
    <3>1. pc = "refill" /\ taken = <<>> /\ pc' = "idle"
      BY <1>1, <2>4 DEF Seeded
    <3> QED BY <1>1, <1>3, <2>1, <2>2, <2>3, <3>1 DEF WorkerKnows, queueVars
  <2>5. CASE ~Seeded
    <3>1. NoPoller /\ NoPoller' /\ pc = "none" /\ pc' = "none"
      BY <1>1, <2>5 DEF NoPoller
    <3> QED BY <1>1, <2>1, <2>2, <3>1 DEF WorkerKnows, queueVars
  <2> QED BY <2>4, <2>5
<1> QED BY <1>2, <1>3, <1>4, <1>5, <1>6, <1>7, <1>8 DEF Inductive

\* Only a worker that came later is made by a reload.
LEMMA ReplaceWorkerKeeps ==
  ASSUME Inductive, ReplaceWorker
  PROVE  Inductive'
<1>1. /\ phase = "reloading" /\ NoPoller
      /\ UNCHANGED <<schedVars, queueVars, setup, boots, disk, edits, loaded, fresh, hashes, todo,
                     worker, timedOut>>
      /\ worker \in BOOLEAN /\ queue["in"] \in Seq(Item)
  BY DEF ReplaceWorker, Inductive, TypeOK, Names
<1>2. CASE ~worker
  <2>1. phase' = "serving" /\ UNCHANGED pollVars
    BY <1>2 DEF ReplaceWorker
  <2>2. timedOut' \in BOOLEAN
    BY <1>1 DEF Inductive, TypeOK
  <2> QED BY <1>1, <2>1, <2>2, PhaseKeeps DEF Phases
<1>3. CASE worker
  <2>1. phase' = "replacing" /\ NewPoller
    BY <1>3 DEF ReplaceWorker
  <2>2. TypeOK'
    <3>1. Len(queue["in"]) \in Nat
      BY <1>1
    <3> QED BY <1>1, <2>1, <3>1, KeysEmpty
            DEF Inductive, TypeOK, schedVars, queueVars, Phases, NewPoller
  <2>3. /\ Identities' /\ DueIsIdle' /\ OneRunPerJob' /\ ItemsInRuns'
        /\ Busy' = Busy /\ Held' = Held
    BY <1>1, SchedSame
  <2>4. QuietAtStart'
    BY <2>1 DEF QuietAtStart
  <2>5. ItemsAccounted'
    <3>1. taken' = taken
      BY <1>1, <2>1 DEF NoPoller, NewPoller
    <3> QED BY <1>1, <2>3, <3>1 DEF Inductive, ItemsAccounted, queueVars
  <2>6. Versions'
    BY <1>1, <2>1 DEF Inductive, Versions, schedVars
  <2>7. ReloadIsCurrent'
    BY <2>1 DEF ReloadIsCurrent
  <2>8. Exclusive'
    BY <1>1, <1>3 DEF Inductive, Exclusive, Undisturbed, WorkerKnows, NoPoller, queueVars
  <2> QED BY <2>2, <2>3, <2>4, <2>5, <2>6, <2>7, <2>8 DEF Inductive
<1> QED BY <1>1, <1>2, <1>3

\* The workers were replaced, and the process serves again.
LEMMA EndReloadKeeps ==
  ASSUME Inductive, EndReload
  PROVE  Inductive'
<1>1. /\ phase = "replacing" /\ phase' = "serving" /\ pc = "refill" /\ pc' = "idle"
      /\ UNCHANGED <<schedVars, queueVars, left, taken, listed, seen, setup, boots, disk, edits,
                     loaded, fresh, hashes, todo, worker, timedOut>>
  BY DEF EndReload, StartWorker, Seeded
<1>2. TypeOK'
  BY <1>1 DEF Inductive, TypeOK, schedVars, queueVars, Phases
<1>3. /\ Identities' /\ DueIsIdle' /\ OneRunPerJob' /\ ItemsInRuns'
      /\ Busy' = Busy /\ Held' = Held
  BY <1>1, SchedSame
<1>4. QuietAtStart'
  BY <1>1 DEF QuietAtStart
<1>5. ItemsAccounted'
  BY <1>1, <1>3 DEF Inductive, ItemsAccounted, queueVars
<1>6. Versions'
  BY <1>1 DEF Inductive, Versions, schedVars
<1>7. ReloadIsCurrent'
  BY <1>1 DEF ReloadIsCurrent
<1>8. Exclusive'
  BY <1>1 DEF Inductive, Exclusive, Undisturbed, WorkerKnows, queueVars
<1> QED BY <1>2, <1>3, <1>4, <1>5, <1>6, <1>7, <1>8 DEF Inductive

\* Somebody edits a file.
LEMMA EditKeeps ==
  ASSUME Inductive, NEW a \in Agents, Edit(a)
  PROVE  Inductive'
<1>1. /\ UNCHANGED <<schedVars, queueVars, pollVars, setup, phase, boots, loaded, hashes, todo,
                     worker, timedOut>>
      /\ edits < setup.edits /\ edits' = edits + 1 /\ fresh' = fresh \ {a}
      /\ TypeOK /\ disk \in [Agents -> AgentFile]
  BY DEF Edit, Inductive, TypeOK
<1>2. /\ setup.contents \in [Agents -> SUBSET AgentFile] /\ setup.edits \in Nat
      /\ edits \in 0 .. setup.edits
  BY <1>1, SetupsOK DEF TypeOK
<1>3. /\ disk' \in [Agents -> AgentFile] /\ \A b \in Agents : b # a => disk'[b] = disk[b]
      /\ edits' \in 0 .. setup.edits
  <2>1. PICK f \in setup.contents[a] \ {disk[a]} : disk' = [disk EXCEPT ![a] = f]
    BY DEF Edit
  <2>2. f \in AgentFile
    BY <1>2, <2>1
  <2> QED BY <1>1, <1>2, <2>1, <2>2
<1>4. TypeOK'
  BY <1>1, <1>3 DEF TypeOK, schedVars, queueVars, pollVars
<1>5. /\ Identities' /\ DueIsIdle' /\ OneRunPerJob' /\ ItemsInRuns'
      /\ Busy' = Busy
  BY <1>1, SchedSame
<1>6. QuietAtStart'
  BY <1>1, <1>5 DEF Inductive, QuietAtStart, NoPoller, schedVars, pollVars
<1>7. ItemsAccounted' /\ Exclusive'
  <2>1. \A s \in Slots : HeldIn(slots', s) = HeldIn(slots, s)
    BY <1>1 DEF schedVars
  <2> QED BY <1>1, <2>1, ItemsRest DEF Inductive
<1>8. Versions'
  BY <1>1, <1>3 DEF Inductive, Versions, schedVars
<1>9. ReloadIsCurrent'
  BY <1>1 DEF Inductive, ReloadIsCurrent, schedVars
<1> QED BY <1>4, <1>5, <1>6, <1>7, <1>8, <1>9 DEF Inductive

\* Somebody defines a worker, for the next reload.
LEMMA AddWorkerKeeps ==
  ASSUME Inductive, AddWorker
  PROVE  Inductive'
<1>1. /\ UNCHANGED <<schedVars, queueVars, pollVars, setup, phase, boots, disk, edits, loaded,
                     fresh, hashes, todo, timedOut>>
      /\ setup.worker = "later" /\ worker' = TRUE
  BY DEF AddWorker
<1>2. TypeOK'
  BY <1>1 DEF Inductive, TypeOK, schedVars, queueVars, pollVars
<1>3. /\ Identities' /\ DueIsIdle' /\ OneRunPerJob' /\ ItemsInRuns'
      /\ Busy' = Busy /\ Held' = Held
  BY <1>1, SchedSame
<1>4. QuietAtStart'
  BY <1>1, <1>3 DEF Inductive, QuietAtStart, NoPoller, schedVars, pollVars
<1>5. ItemsAccounted'
  BY <1>1, <1>3 DEF Inductive, ItemsAccounted, queueVars, pollVars
<1>6. Versions' /\ ReloadIsCurrent'
  BY <1>1 DEF Inductive, Versions, ReloadIsCurrent, schedVars
<1>7. Exclusive'
  BY <1>1 DEF Exclusive, Undisturbed
<1> QED BY <1>2, <1>3, <1>4, <1>5, <1>6, <1>7 DEF Inductive

\* The queue files keep what they have; the rest is gone, and counted as gone.
LEMMA ProcessEndsKeeps ==
  ASSUME Inductive, ProcessEnds, faults' = faults
  PROVE  Inductive'
<1>1. /\ phase' = "down" /\ gone' = gone \cup Held \cup KeysOf(taken) \cup Unsaved
      /\ queue' = file /\ file' = file /\ regs' = 0 /\ due' = {}
      /\ jobs' = [a \in Agents |-> NoJob] /\ slots' = [s \in Slots |-> NoRun]
      /\ pc' = "none" /\ left' = 0 /\ taken' = <<>> /\ listed' = {} /\ seen' = {}
      /\ todo' = {} /\ hashes' = [a \in Agents |-> {}] /\ jobCount' = 0 /\ timedOut' = FALSE
      /\ UNCHANGED <<done, accepted, setup, boots, disk, edits, loaded, fresh, worker>>
      /\ TypeOK
  BY DEF ProcessEnds, Stopped, Inductive
<1>2. /\ queue \in [Names -> Seq(Item)] /\ file \in [Names -> Seq(Item)] /\ taken \in Seq(Item)
      /\ slots \in [Slots -> Run \cup {NoRun}]
  BY <1>1 DEF TypeOK
<1>3. gone' \subseteq Keys
  <2>1. Held \subseteq Keys
    <3>1. \A s \in Busy : slots[s].item \in Seq(Item)
      BY <1>2 DEF Busy, Run
    <3> QED BY <3>1, KeysAreKeys DEF Held
  <2>2. Unsaved \subseteq Keys
    BY <1>2, KeysAreKeys DEF Unsaved
  <2>3. KeysOf(taken) \subseteq Keys /\ gone \subseteq Keys
    BY <1>1, <1>2, KeysAreKeys DEF TypeOK
  <2> QED BY <1>1, <2>1, <2>2, <2>3
<1>4. TypeOK'
  <2>1. 0 \in 0 .. MaxReg
    BY SchedulerAssumption
  <2> QED BY <1>1, <1>3, <2>1, KeysEmpty DEF TypeOK, Phases
<1>5. /\ Busy' = {} /\ \A s \in Slots : HeldIn(slots', s) = {}
      /\ \A a \in Agents : jobs'[a] = NoJob
  BY <1>1 DEF Busy, HeldIn
<1>6. Identities' /\ DueIsIdle' /\ OneRunPerJob' /\ ItemsInRuns'
  BY <1>1, <1>5 DEF Identities, DueIsIdle, OneRunPerJob, ItemsInRuns, Running
<1>7. QuietAtStart' /\ NoPoller'
  BY <1>1, <1>5 DEF QuietAtStart, NoPoller
<1>8. ItemsAccounted'
  <2>1. \A n \in Names : KeysOf(queue[n]) \subseteq KeysOf(file[n]) \cup Unsaved
    BY DEF Unsaved
  <2>2. KeysOf(queue["in"]) \cup KeysOf(queue["dlq"])
          \subseteq KeysOf(file["in"]) \cup KeysOf(file["dlq"]) \cup Unsaved
    BY <2>1 DEF Names
  <2> QED BY <1>1, <2>2 DEF Inductive, ItemsAccounted
<1>9. Versions' /\ ReloadIsCurrent'
  BY <1>1, <1>5 DEF Inductive, Versions, ReloadIsCurrent
<1>10. Exclusive'
  <2> SUFFICES ASSUME faults' = 0, Undisturbed'
               PROVE  file' = queue' /\ OnePlace' /\ WorkerKnows'
    BY DEF Exclusive, Undisturbed
  <2>1. file = queue /\ OnePlace /\ WorkerKnows
    BY <1>1 DEF Inductive, Exclusive, Undisturbed
  <2>2. OnePlace'
    <3>1. Apart(queue["in"], taken, slots)
      BY <2>1, OnePlaceApart
    <3>2. Apart(queue["in"], <<>>, slots')
      BY <1>5, <3>1, KeysEmpty DEF Apart
    <3> QED BY <1>1, <2>1, <3>2, OnePlaceApart
  <2>3. WorkerKnows'
    BY <1>1, <1>7, <2>1 DEF WorkerKnows
  <2> QED BY <1>1, <2>2, <2>3
<1> QED BY <1>4, <1>6, <1>7, <1>8, <1>9, <1>10 DEF Inductive

-----------------------------------------------------------------------------
(* The handlers.                                                             *)

\* A handler goes on with the item i, or with none; the scheduler does not see it.
Carries(s, i) ==
  /\ slots' \in [Slots -> Run \cup {NoRun}]
  /\ Identities' /\ DueIsIdle' /\ OneRunPerJob' /\ ItemsInRuns' /\ QuietAtStart'
  /\ Versions' /\ ReloadIsCurrent'
  /\ HeldIn(slots', s) = KeysOf(i)
  /\ \A t \in Slots : t # s => HeldIn(slots', t) = HeldIn(slots, t)
  /\ phase \notin {"down", "starting"}

\* What a step of a handler leaves in its slot ...
LEMMA GoesGives ==
  ASSUME Inductive, NEW s \in Slots, slots[s] # NoRun, slots[s].pc # "release",
         UNCHANGED <<regs, jobs, due, serveVars>>,
         NEW p \in {"take", "run", "end"}, NEW l \in 0 .. Batch, NEW i \in Seq(Item),
         Len(i) <= 1, p # "run" => i = <<>>, p # "end" => l >= 1,
         Goes(s, p, l, i)
  PROVE  Carries(s, i)
<1> DEFINE r == [slots[s] EXCEPT !.pc = p, !.left = l, !.item = i]
<1>1. /\ slots \in [Slots -> Run \cup {NoRun}] /\ slots[s] \in Run
      /\ jobs \in [Agents -> Job \cup {NoJob}]
  BY DEF Inductive, TypeOK
<1>2. slots' = [slots EXCEPT ![s] = r]
  BY DEF Goes
<1>3. /\ r \in Run /\ r.pc = p /\ r.left = l /\ r.item = i
      /\ r.reg = slots[s].reg /\ r.agent = slots[s].agent
  BY <1>1 DEF Run
<1> HIDE DEF r
<1>4. /\ slots'[s] = r /\ r # NoRun
      /\ \A t \in Slots : t # s => slots'[t] = slots[t]
      /\ slots' \in [Slots -> Run \cup {NoRun}]
  BY <1>1, <1>2, <1>3, NoRunAssumption
<1>5. Identities' /\ DueIsIdle' /\ OneRunPerJob' /\ Busy' = Busy
  BY <1>3, <1>4, SchedRests DEF Inductive
<1>6. ItemsInRuns'
  BY <1>3, <1>4, <1>5 DEF Inductive, ItemsInRuns, Busy
<1>7. phase \notin {"down", "starting"} /\ QuietAtStart'
  BY DEF Inductive, QuietAtStart, Busy, serveVars
<1>8. Versions' /\ ReloadIsCurrent'
  BY <1>1, FilesRest DEF Inductive
<1> QED BY <1>3, <1>4, <1>5, <1>6, <1>7, <1>8 DEF HeldIn, Carries

\* An item that a handler takes, puts back or is done with.
LEMMA ItemMoves ==
  ASSUME Inductive, NEW s \in Slots, slots[s] # NoRun, phase \notin {"down", "starting"},
         UNCHANGED <<pollVars, serveVars, accepted>>,
         \A t \in Slots : t # s => HeldIn(slots', t) = HeldIn(slots, t),
         KeysOf(queue["in"]) \cup KeysOf(queue["dlq"]) \cup HeldIn(slots, s) \cup done \cup gone
           \subseteq KeysOf(queue'["in"]) \cup KeysOf(queue'["dlq"]) \cup HeldIn(slots', s)
                       \cup done' \cup gone',
         faults' = 0 => faults = 0 /\ (file = queue => file' = queue'),
         KeysOf(queue'["in"]) \cup HeldIn(slots', s)
           \subseteq KeysOf(queue["in"]) \cup HeldIn(slots, s),
         faults' = 0 /\ Distinct(queue["in"]) /\ KeysOf(queue["in"]) \cap HeldIn(slots, s) = {} =>
           Distinct(queue'["in"]) /\ KeysOf(queue'["in"]) \cap HeldIn(slots', s) = {}
  PROVE  ItemsAccounted' /\ Exclusive'
<1>1. \A k \in Held : k \in HeldIn(slots, s) \/ k \in Held'
  <2> SUFFICES ASSUME NEW t \in Slots, NEW k \in HeldIn(slots, t), t # s PROVE k \in Held'
    BY HeldBySlot
  <2> QED BY HeldBySlot
<1>2. HeldIn(slots', s) \subseteq Held' /\ HeldIn(slots, s) \subseteq Held
  BY HeldBySlot
<1>3. ItemsAccounted'
  BY <1>1, <1>2 DEF Inductive, ItemsAccounted, pollVars
<1>4. Exclusive'
  <2> SUFFICES ASSUME faults' = 0, Undisturbed'
               PROVE  file' = queue' /\ OnePlace' /\ WorkerKnows'
    BY DEF Exclusive, Undisturbed
  <2>1. faults = 0 /\ file = queue /\ file' = queue' /\ OnePlace /\ WorkerKnows
    BY DEF Inductive, Exclusive, Undisturbed, serveVars
  <2>2. OnePlace'
    <3>1. Apart(queue["in"], taken, slots)
      BY <2>1, OnePlaceApart
    <3>2. Distinct(queue'["in"]) /\ KeysOf(queue'["in"]) \cap HeldIn(slots', s) = {}
      BY <3>1 DEF Apart
    <3>3. /\ \A t \in Slots : t # s => HeldIn(slots', t) \cap (KeysOf(queue'["in"]) \cup KeysOf(taken)) = {}
          /\ \A t \in Slots : t # s => HeldIn(slots', t) \cap HeldIn(slots', s) = {}
      <4> SUFFICES ASSUME NEW t \in Slots, t # s
                   PROVE  HeldIn(slots, t) \cap (KeysOf(queue'["in"]) \cup KeysOf(taken) \cup HeldIn(slots', s)) = {}
        OBVIOUS
      <4>1. HeldIn(slots, t) \cap (KeysOf(queue["in"]) \cup KeysOf(taken)) = {}
        BY <3>1 DEF Apart
      <4>2. HeldIn(slots, t) \cap HeldIn(slots, s) = {}
        BY <3>1 DEF Apart
      <4> QED BY <4>1, <4>2
    <3>4. (KeysOf(queue'["in"]) \cup HeldIn(slots', s)) \cap KeysOf(taken) = {}
      <4>1. (KeysOf(queue["in"]) \cup HeldIn(slots, s)) \cap KeysOf(taken) = {}
        BY <3>1 DEF Apart
      <4> QED BY <4>1
    <3>5. \A t, u \in Slots : t # s /\ u # s /\ t # u => HeldIn(slots', t) \cap HeldIn(slots', u) = {}
      BY <3>1 DEF Apart
    <3>6. Apart(queue'["in"], taken', slots')
      <4>1. taken' = taken /\ Distinct(taken)
        BY <3>1 DEF Apart, pollVars
      <4>2. \A t, u \in Slots : t # u => HeldIn(slots', t) \cap HeldIn(slots', u) = {}
        <5> SUFFICES ASSUME NEW t \in Slots, NEW u \in Slots, t # u
                     PROVE  HeldIn(slots', t) \cap HeldIn(slots', u) = {}
          OBVIOUS
        <5>1. CASE t = s
          BY <3>3, <5>1
        <5>2. CASE u = s
          BY <3>3, <5>2
        <5>3. CASE t # s /\ u # s
          BY <3>5, <5>3
        <5> QED BY <5>1, <5>2, <5>3
      <4>3. \A t \in Slots : HeldIn(slots', t) \cap (KeysOf(queue'["in"]) \cup KeysOf(taken)) = {}
        <5> SUFFICES ASSUME NEW t \in Slots
                     PROVE  HeldIn(slots', t) \cap (KeysOf(queue'["in"]) \cup KeysOf(taken)) = {}
          OBVIOUS
        <5>1. CASE t = s
          BY <3>2, <3>4, <5>1
        <5>2. CASE t # s
          BY <3>3, <5>2
        <5> QED BY <5>1, <5>2
      <4> QED BY <3>2, <3>4, <4>1, <4>2, <4>3 DEF Apart
    <3> QED BY <3>6, OnePlaceApart
  <2>3. WorkerKnows'
    <3>1. KeysOf(queue'["in"]) \cup Held' \subseteq KeysOf(queue["in"]) \cup Held
      <4> SUFFICES ASSUME NEW t \in Slots, NEW k \in HeldIn(slots', t)
                   PROVE  k \in KeysOf(queue["in"]) \cup Held
        BY <1>2, HeldBySlot
      <4>1. CASE t = s
        BY <1>2, <4>1
      <4>2. CASE t # s
        BY <4>2, HeldBySlot
      <4> QED BY <4>1, <4>2
    <3> QED BY <2>1, <3>1 DEF WorkerKnows, NoPoller, pollVars, serveVars
  <2> QED BY <2>1, <2>2, <2>3
<1> QED BY <1>3, <1>4

\* What a save makes of the queues and their files.
Saved(n, q) == /\ queue' = [queue EXCEPT ![n] = q] /\ file' = [file EXCEPT ![n] = q]
               /\ faults' = faults

NotSaved(n, q) == /\ faults < MaxFaults /\ faults' = faults + 1
                  /\ queue' = [queue EXCEPT ![n] = q] /\ file' = file

\* ... and a save in the file.
LEMMA SavesGives ==
  ASSUME TypeOK, NEW n \in Names, NEW q \in Seq(Item), Saved(n, q) \/ NotSaved(n, q)
  PROVE  /\ queue' \in [Names -> Seq(Item)] /\ file' \in [Names -> Seq(Item)]
         /\ faults' \in 0 .. MaxFaults
         /\ \A m \in Names : m # n => queue'[m] = queue[m]
         /\ queue'[n] = q
         /\ NotSaved(n, q) => faults' # 0
         /\ faults' = 0 => faults = 0 /\ (file = queue => file' = queue')
<1>1. /\ queue \in [Names -> Seq(Item)] /\ file \in [Names -> Seq(Item)]
      /\ faults \in Nat /\ MaxFaults \in Nat /\ faults <= MaxFaults
  BY FaultsAssumption DEF TypeOK
<1>2. /\ queue' \in [Names -> Seq(Item)] /\ file' \in [Names -> Seq(Item)]
      /\ queue'[n] = q /\ \A m \in Names : m # n => queue'[m] = queue[m]
  BY <1>1 DEF Saved, NotSaved
<1>3. CASE Saved(n, q)
  <2>1. faults' \in 0 .. MaxFaults /\ faults' = faults
    BY <1>1, <1>3 DEF Saved
  <2>2. file = queue => file' = queue'
    BY <1>3 DEF Saved
  <2>3. NotSaved(n, q) => faults' # 0
    BY <1>1 DEF NotSaved
  <2> QED BY <1>2, <2>1, <2>2, <2>3
<1>4. CASE NotSaved(n, q)
  <2>1. faults' \in 0 .. MaxFaults /\ faults' # 0
    BY <1>1, <1>4 DEF NotSaved
  <2> QED BY <1>2, <2>1
<1> QED BY <1>3, <1>4

\* The rest of the type, while handlers and the poller use the queues.
LEMMA TypeMoves ==
  ASSUME TypeOK, UNCHANGED <<regs, jobs, due, pollVars, serveVars>>,
         slots' \in [Slots -> Run \cup {NoRun}],
         queue' \in [Names -> Seq(Item)], file' \in [Names -> Seq(Item)],
         faults' \in 0 .. MaxFaults, jobCount' \in Nat,
         done' \subseteq Keys, gone' \subseteq Keys, accepted' \subseteq Keys
  PROVE  TypeOK'
  BY DEF TypeOK, pollVars, serveVars

\* A handler at work has an item of the right type, or none.
LEMMA AtWork ==
  ASSUME Inductive, NEW s \in Slots, slots[s] # NoRun
  PROVE  /\ slots[s] \in Run /\ slots[s].item \in Seq(Item) /\ Len(slots[s].item) <= 1
         /\ slots[s].left \in 0 .. Batch /\ Batch \in Nat
         /\ slots[s].pc # "run" => slots[s].item = <<>>
         /\ slots[s].pc \in {"take", "run"} => slots[s].left >= 1
         /\ HeldIn(slots, s) = KeysOf(slots[s].item)
         /\ queue["in"] \in Seq(Item) /\ queue["dlq"] \in Seq(Item)
         /\ TypeOK
<1>1. slots[s] \in Run /\ s \in Busy
  BY DEF Inductive, TypeOK, Busy
<1> QED BY <1>1, AgentQueueAssumption DEF Inductive, ItemsInRuns, HeldIn, TypeOK, Names, Run

\* Where a handler goes when an item is done.
LEMMA NextItem ==
  ASSUME Inductive, NEW s \in Slots, InRun(s)
  PROVE  /\ Next1(s) \in {"take", "run", "end"} /\ Next1(s) # "run"
         /\ slots[s].left - 1 \in 0 .. Batch
         /\ Next1(s) # "end" => slots[s].left - 1 >= 1
<1>1. slots[s] # NoRun /\ slots[s].pc = "run"
  BY DEF InRun
<1> QED BY <1>1, AtWork DEF Next1

\* A handler takes an item, ...
LEMMA TakeItemKeeps ==
  ASSUME Inductive, NEW s \in Slots, TakeItem(s), UNCHANGED <<pollVars, serveVars>>
  PROVE  Inductive'
<1> DEFINE q == queue["in"]
<1>1. /\ slots[s] # NoRun /\ slots[s].pc = "take" /\ q # <<>>
      /\ UNCHANGED <<regs, jobs, due, done, gone, accepted, jobCount>>
      /\ \/ Saved("in", Tail(q)) /\ Goes(s, "run", slots[s].left, <<Head(q)>>)
         \/ NotSaved("in", q) /\ Goes(s, "end", 0, <<>>)
  BY DEF TakeItem, AtItem, Dequeue, Saves, Saved, NotSaved
<1>2. /\ slots[s].left \in 0 .. Batch /\ slots[s].left >= 1 /\ Batch \in Nat
      /\ slots[s].item = <<>> /\ HeldIn(slots, s) = {} /\ TypeOK
      /\ queue["in"] \in Seq(Item)
  BY <1>1, AtWork, KeysEmpty
<1>3. /\ Tail(q) \in Seq(Item) /\ Head(q) \in Item
      /\ KeysOf(q) = {Head(q).key} \cup KeysOf(Tail(q))
      /\ Distinct(q) => Distinct(Tail(q)) /\ Head(q).key \notin KeysOf(Tail(q))
  BY <1>1, <1>2, KeysTail
<1>4. /\ <<Head(q)>> \in Seq(Item) /\ Len(<<Head(q)>>) = 1 /\ KeysOf(<<Head(q)>>) = {Head(q).key}
  BY <1>3, KeysSingle
<1>5. "in" \in Names /\ "dlq" \in Names
  BY DEF Names
<1>6. CASE Saved("in", Tail(q)) /\ Goes(s, "run", slots[s].left, <<Head(q)>>)
  <2>1. /\ slots' \in [Slots -> Run \cup {NoRun}]
        /\ Identities' /\ DueIsIdle' /\ OneRunPerJob' /\ ItemsInRuns' /\ QuietAtStart'
        /\ Versions' /\ ReloadIsCurrent'
        /\ HeldIn(slots', s) = {Head(q).key}
        /\ \A t \in Slots : t # s => HeldIn(slots', t) = HeldIn(slots, t)
        /\ phase \notin {"down", "starting"}
    <3>0. /\ UNCHANGED <<regs, jobs, due, serveVars>>
          /\ "run" \in {"take", "run", "end"} /\ slots[s].left \in 0 .. Batch
          /\ <<Head(q)>> \in Seq(Item) /\ Len(<<Head(q)>>) <= 1
          /\ ("run" # "run" => <<Head(q)>> = <<>>) /\ ("run" # "end" => slots[s].left >= 1)
      BY <1>1, <1>2, <1>4
    <3>1. Carries(s, <<Head(q)>>)
      BY <1>1, <1>6, <3>0, GoesGives
    <3> QED BY <3>1, <1>4 DEF Carries
  <2>2. /\ queue' \in [Names -> Seq(Item)] /\ file' \in [Names -> Seq(Item)]
        /\ faults' \in 0 .. MaxFaults
        /\ queue'["dlq"] = queue["dlq"] /\ queue'["in"] = Tail(q)
        /\ faults' = 0 => faults = 0 /\ (file = queue => file' = queue')
    BY <1>2, <1>3, <1>5, <1>6, SavesGives
  <2>3. TypeOK'
    BY <1>1, <1>2, <2>1, <2>2, TypeMoves DEF TypeOK
  <2>4. ItemsAccounted' /\ Exclusive'
    <3>1. /\ KeysOf(q) = KeysOf(queue'["in"]) \cup HeldIn(slots', s)
          /\ Distinct(q) => Distinct(queue'["in"]) /\ KeysOf(queue'["in"]) \cap HeldIn(slots', s) = {}
      BY <1>3, <2>1, <2>2
    <3> HIDE DEF q
    <3>2. /\ KeysOf(queue["in"]) = KeysOf(queue'["in"]) \cup HeldIn(slots', s)
          /\ Distinct(queue["in"]) =>
               Distinct(queue'["in"]) /\ KeysOf(queue'["in"]) \cap HeldIn(slots', s) = {}
      BY <3>1 DEF q
    <3> QED BY <1>1, <1>2, <2>1, <2>2, <3>2, ItemMoves
  <2> QED BY <2>1, <2>3, <2>4 DEF Inductive
<1>7. CASE NotSaved("in", q) /\ Goes(s, "end", 0, <<>>)
  <2>1. /\ slots' \in [Slots -> Run \cup {NoRun}]
        /\ Identities' /\ DueIsIdle' /\ OneRunPerJob' /\ ItemsInRuns' /\ QuietAtStart'
        /\ Versions' /\ ReloadIsCurrent'
        /\ HeldIn(slots', s) = {}
        /\ \A t \in Slots : t # s => HeldIn(slots', t) = HeldIn(slots, t)
        /\ phase \notin {"down", "starting"}
    <3>0. /\ UNCHANGED <<regs, jobs, due, serveVars>>
          /\ "end" \in {"take", "run", "end"} /\ 0 \in 0 .. Batch
          /\ <<>> \in Seq(Item) /\ Len(<<>>) <= 1
          /\ ("end" # "run" => <<>> = <<>>) /\ ("end" # "end" => 0 >= 1)
      BY <1>1, <1>2, KeysEmpty
    <3>1. Carries(s, <<>>)
      BY <1>1, <1>7, <3>0, GoesGives
    <3> QED BY <3>1, KeysEmpty DEF Carries
  <2>2. /\ queue' \in [Names -> Seq(Item)] /\ file' \in [Names -> Seq(Item)]
        /\ faults' \in 0 .. MaxFaults
        /\ queue'["dlq"] = queue["dlq"] /\ queue'["in"] = q
        /\ faults' = 0 => faults = 0 /\ (file = queue => file' = queue')
    BY <1>2, <1>5, <1>7, SavesGives
  <2>3. TypeOK'
    BY <1>1, <1>2, <2>1, <2>2, TypeMoves DEF TypeOK
  <2>4. ItemsAccounted' /\ Exclusive'
    BY <1>1, <1>2, <2>1, <2>2, ItemMoves
  <2> QED BY <2>1, <2>3, <2>4 DEF Inductive
<1> QED BY <1>1, <1>6, <1>7

\* ... finds none, ...
LEMMA FindsEmptyKeeps ==
  ASSUME Inductive, NEW s \in Slots, FindsEmpty(s), UNCHANGED <<pollVars, serveVars>>
  PROVE  Inductive'
<1>1. /\ slots[s] # NoRun /\ slots[s].pc = "take" /\ Goes(s, "end", 0, <<>>)
      /\ UNCHANGED <<regs, jobs, due, queueVars>>
  BY DEF FindsEmpty, AtItem
<1>2. HeldIn(slots, s) = {} /\ TypeOK /\ 0 \in 0 .. Batch
  BY <1>1, AtWork, KeysEmpty
<1>3. /\ slots' \in [Slots -> Run \cup {NoRun}]
      /\ Identities' /\ DueIsIdle' /\ OneRunPerJob' /\ ItemsInRuns' /\ QuietAtStart'
      /\ Versions' /\ ReloadIsCurrent'
      /\ HeldIn(slots', s) = {}
      /\ \A t \in Slots : t # s => HeldIn(slots', t) = HeldIn(slots, t)
      /\ phase \notin {"down", "starting"}
  <2>0. /\ slots[s] # NoRun /\ slots[s].pc # "release" /\ UNCHANGED <<regs, jobs, due, serveVars>>
        /\ "end" \in {"take", "run", "end"} /\ 0 \in 0 .. Batch /\ <<>> \in Seq(Item)
        /\ Len(<<>>) <= 1 /\ ("end" # "run" => <<>> = <<>>) /\ ("end" # "end" => 0 >= 1)
        /\ Goes(s, "end", 0, <<>>)
    BY <1>1, <1>2, KeysEmpty
  <2>1. Carries(s, <<>>)
    BY <2>0, GoesGives
  <2> QED BY <2>1, KeysEmpty DEF Carries
<1>4. TypeOK'
  BY <1>1, <1>2, <1>3, TypeMoves DEF TypeOK, queueVars
<1>5. ItemsAccounted' /\ Exclusive'
  <2>1. \A t \in Slots : HeldIn(slots', t) = HeldIn(slots, t)
    BY <1>2, <1>3
  <2> QED BY <1>1, <2>1, ItemsRest DEF Inductive, serveVars
<1> QED BY <1>3, <1>4, <1>5 DEF Inductive

\* ... drops the one it cannot expand, ...
LEMMA ExpansionFailsKeeps ==
  ASSUME Inductive, NEW s \in Slots, ExpansionFails(s), UNCHANGED <<pollVars, serveVars>>
  PROVE  Inductive'
<1>1. /\ InRun(s) /\ slots[s] # NoRun /\ slots[s].pc = "run" /\ slots[s].item # <<>> /\ faults < MaxFaults
      /\ faults' = faults + 1 /\ gone' = gone \cup {slots[s].item[1].key}
      /\ Goes(s, Next1(s), slots[s].left - 1, <<>>)
      /\ UNCHANGED <<regs, jobs, due, queue, file, done, accepted, jobCount>>
  BY DEF ExpansionFails, HasItem, ItemOf, InRun
<1>2. /\ TypeOK /\ slots[s].item[1] \in Item /\ HeldIn(slots, s) = {slots[s].item[1].key}
  BY <1>1, AtWork, KeysSingle
<1>3. /\ faults' \in 0 .. MaxFaults /\ faults' # 0 /\ gone' \subseteq Keys
  <2>1. faults \in Nat /\ MaxFaults \in Nat
    BY <1>2, FaultsAssumption DEF TypeOK
  <2> QED BY <1>1, <1>2, <2>1 DEF TypeOK, Item
<1>4. /\ slots' \in [Slots -> Run \cup {NoRun}]
      /\ Identities' /\ DueIsIdle' /\ OneRunPerJob' /\ ItemsInRuns' /\ QuietAtStart'
      /\ Versions' /\ ReloadIsCurrent'
      /\ HeldIn(slots', s) = {}
      /\ \A t \in Slots : t # s => HeldIn(slots', t) = HeldIn(slots, t)
      /\ phase \notin {"down", "starting"}
  <2>0. /\ UNCHANGED <<regs, jobs, due, serveVars>>
        /\ Next1(s) \in {"take", "run", "end"} /\ slots[s].left - 1 \in 0 .. Batch
        /\ <<>> \in Seq(Item) /\ Len(<<>>) <= 1
        /\ (Next1(s) # "run" => <<>> = <<>>) /\ (Next1(s) # "end" => slots[s].left - 1 >= 1)
    BY <1>1, NextItem, KeysEmpty
  <2>1. Carries(s, <<>>)
    BY <1>1, <2>0, GoesGives
  <2> QED BY <2>1, KeysEmpty DEF Carries
<1>5. TypeOK'
  BY <1>1, <1>2, <1>3, <1>4, TypeMoves DEF TypeOK
<1>6. ItemsAccounted' /\ Exclusive'
  BY <1>1, <1>2, <1>3, <1>4, ItemMoves
<1> QED BY <1>4, <1>5, <1>6 DEF Inductive

\* ... or has run it.
LEMMA RunSucceedsKeeps ==
  ASSUME Inductive, NEW s \in Slots, RunSucceeds(s), UNCHANGED <<pollVars, serveVars>>
  PROVE  Inductive'
<1>1. /\ InRun(s) /\ slots[s] # NoRun /\ slots[s].pc = "run"
      /\ done' = done \cup KeysOf(slots[s].item)
      /\ Goes(s, Next1(s), slots[s].left - 1, <<>>)
      /\ UNCHANGED <<regs, jobs, due, queue, file, gone, accepted, jobCount, faults>>
  BY DEF RunSucceeds, InRun
<1>2. /\ TypeOK /\ slots[s].item \in Seq(Item) /\ HeldIn(slots, s) = KeysOf(slots[s].item)
  BY <1>1, AtWork
<1>3. done' \subseteq Keys
  BY <1>1, <1>2, KeysAreKeys DEF TypeOK
<1>4. /\ slots' \in [Slots -> Run \cup {NoRun}]
      /\ Identities' /\ DueIsIdle' /\ OneRunPerJob' /\ ItemsInRuns' /\ QuietAtStart'
      /\ Versions' /\ ReloadIsCurrent'
      /\ HeldIn(slots', s) = {}
      /\ \A t \in Slots : t # s => HeldIn(slots', t) = HeldIn(slots, t)
      /\ phase \notin {"down", "starting"}
  <2>0. /\ UNCHANGED <<regs, jobs, due, serveVars>>
        /\ Next1(s) \in {"take", "run", "end"} /\ slots[s].left - 1 \in 0 .. Batch
        /\ <<>> \in Seq(Item) /\ Len(<<>>) <= 1
        /\ (Next1(s) # "run" => <<>> = <<>>) /\ (Next1(s) # "end" => slots[s].left - 1 >= 1)
    BY <1>1, NextItem, KeysEmpty
  <2>1. Carries(s, <<>>)
    BY <1>1, <2>0, GoesGives
  <2> QED BY <2>1, KeysEmpty DEF Carries
<1>5. TypeOK'
  BY <1>1, <1>2, <1>3, <1>4, TypeMoves DEF TypeOK
<1>6. ItemsAccounted' /\ Exclusive'
  BY <1>1, <1>2, <1>4, ItemMoves
<1> QED BY <1>4, <1>5, <1>6 DEF Inductive

\* An item whose run failed goes back, or to the dead letters.
LEMMA RunFailsKeeps ==
  ASSUME Inductive, NEW s \in Slots, RunFails(s), UNCHANGED <<pollVars, serveVars>>
  PROVE  Inductive'
<1>1. /\ InRun(s) /\ slots[s] # NoRun /\ slots[s].pc = "run"
      /\ Goes(s, Next1(s), slots[s].left - 1, <<>>)
      /\ UNCHANGED <<regs, jobs, due, done, gone, accepted, jobCount>>
  BY DEF RunFails, InRun
<1>2. /\ TypeOK /\ slots[s].item \in Seq(Item) /\ HeldIn(slots, s) = KeysOf(slots[s].item)
      /\ Len(slots[s].item) <= 1 /\ queue["in"] \in Seq(Item) /\ queue["dlq"] \in Seq(Item)
  BY <1>1, AtWork
<1>3. /\ slots' \in [Slots -> Run \cup {NoRun}]
      /\ Identities' /\ DueIsIdle' /\ OneRunPerJob' /\ ItemsInRuns' /\ QuietAtStart'
      /\ Versions' /\ ReloadIsCurrent'
      /\ HeldIn(slots', s) = {}
      /\ \A t \in Slots : t # s => HeldIn(slots', t) = HeldIn(slots, t)
      /\ phase \notin {"down", "starting"}
  <2>0. /\ UNCHANGED <<regs, jobs, due, serveVars>>
        /\ Next1(s) \in {"take", "run", "end"} /\ slots[s].left - 1 \in 0 .. Batch
        /\ <<>> \in Seq(Item) /\ Len(<<>>) <= 1
        /\ (Next1(s) # "run" => <<>> = <<>>) /\ (Next1(s) # "end" => slots[s].left - 1 >= 1)
    BY <1>1, NextItem, KeysEmpty
  <2>1. Carries(s, <<>>)
    BY <1>1, <2>0, GoesGives
  <2> QED BY <2>1, KeysEmpty DEF Carries
<1>4. CASE slots[s].item = <<>>
  <2>1. UNCHANGED <<queue, file, faults>>
    BY <1>1, <1>4 DEF RunFails, HasItem
  <2>2. TypeOK'
    BY <1>1, <1>2, <1>3, <2>1, TypeMoves DEF TypeOK
  <2>3. ItemsAccounted' /\ Exclusive'
    BY <1>1, <1>2, <1>3, <1>4, <2>1, KeysEmpty, ItemMoves
  <2> QED BY <1>3, <2>2, <2>3 DEF Inductive
<1>5. CASE slots[s].item # <<>>
  <2> DEFINE it == slots[s].item[1]
             n  == IF Exhausted(it.tries + 1) THEN "dlq" ELSE "in"
             up == [it EXCEPT !.tries = @ + 1]
             q  == Append(queue[n], up)
  <2>1. it \in Item /\ HeldIn(slots, s) = {it.key} /\ it.tries < MaxTries
    BY <1>1, <1>2, <1>5, KeysSingle DEF RunFails, HasItem, ItemOf
  <2>2. /\ up \in Item /\ up.key = it.key /\ up.tries = it.tries + 1
    <3>1. it.tries \in 0 .. MaxTries /\ it.tries + 1 \in 0 .. MaxTries
      BY <2>1, AgentQueueAssumption DEF Item
    <3> QED BY <2>1, <3>1 DEF Item
  <2>3. PutBack(up)
    BY <1>1, <1>5 DEF RunFails, HasItem, ItemOf
  <2>4. /\ Saved(n, q) \/ NotSaved(n, q)
    BY <2>2, <2>3 DEF PutBack, Enqueue, Saves, Saved, NotSaved
  <2>5. n \in Names /\ n \in {"in", "dlq"} /\ queue[n] \in Seq(Item)
    BY <1>2 DEF Names
  <2> HIDE DEF up, n, it
  <2>6. /\ q \in Seq(Item) /\ KeysOf(q) = KeysOf(queue[n]) \cup {it.key}
        /\ Distinct(queue[n]) /\ it.key \notin KeysOf(queue[n]) => Distinct(q)
    BY <2>2, <2>5, KeysAppend
  <2> HIDE DEF q
  <2>7. /\ queue' \in [Names -> Seq(Item)] /\ file' \in [Names -> Seq(Item)]
        /\ faults' \in 0 .. MaxFaults
        /\ \A m \in Names : m # n => queue'[m] = queue[m]
        /\ queue'[n] = q
        /\ faults' = 0 => faults = 0 /\ (file = queue => file' = queue')
    BY <1>2, <2>4, <2>5, <2>6, SavesGives
  <2>8. TypeOK'
    BY <1>1, <1>2, <1>3, <2>7, TypeMoves DEF TypeOK
  <2>9. ItemsAccounted' /\ Exclusive'
    <3>1. CASE n = "in"
      <4>1. /\ queue'["dlq"] = queue["dlq"] /\ queue'["in"] = q
            /\ KeysOf(queue'["in"]) = KeysOf(queue["in"]) \cup {it.key}
            /\ Distinct(queue["in"]) /\ it.key \notin KeysOf(queue["in"]) => Distinct(queue'["in"])
        BY <2>6, <2>7, <3>1 DEF Names
      <4>2. Distinct(queue["in"]) /\ KeysOf(queue["in"]) \cap HeldIn(slots, s) = {} =>
              Distinct(queue'["in"]) /\ KeysOf(queue'["in"]) \cap HeldIn(slots', s) = {}
        BY <1>3, <2>1, <4>1
      <4> QED BY <1>1, <1>3, <2>1, <2>7, <4>1, <4>2, ItemMoves
    <3>2. CASE n = "dlq"
      <4>1. /\ queue'["in"] = queue["in"]
            /\ KeysOf(queue'["dlq"]) = KeysOf(queue["dlq"]) \cup {it.key}
        BY <2>6, <2>7, <3>2 DEF Names
      <4> QED BY <1>1, <1>3, <2>1, <2>7, <4>1, ItemMoves
    <3> QED BY <2>5, <3>1, <3>2
  <2> QED BY <1>3, <2>8, <2>9 DEF Inductive
<1> QED BY <1>4, <1>5

\* The job may run again, ...
LEMMA FinishRunKeeps ==
  ASSUME Inductive, NEW s \in Slots, FinishRun(s, setup.maxJobs),
         UNCHANGED <<pollVars, serveVars>>
  PROVE  Inductive'
<1> DEFINE a == slots[s].agent
           j == [jobs[a] EXCEPT !.running = FALSE,
                                !.next = IF jobs[a].file.kind = "once" THEN "never" ELSE "later"]
<1>1. /\ slots[s] # NoRun /\ slots[s].pc = "end" /\ s \in Busy
      /\ jobCount' \in {jobCount, jobCount + 1}
      /\ jobs' = IF IsCurrent(slots[s]) THEN [jobs EXCEPT ![a] = j] ELSE jobs
      /\ slots' = [slots EXCEPT ![s].pc = "release"]
      /\ UNCHANGED <<regs, due, queue, file, done, gone, accepted, faults>>
  BY DEF FinishRun, EndRun, Ended, Busy
<1>2. /\ TypeOK /\ slots[s] \in Run /\ a \in Agents /\ HeldIn(slots, s) = {}
      /\ jobs \in [Agents -> Job \cup {NoJob}] /\ slots \in [Slots -> Run \cup {NoRun}]
  BY <1>1, AtWork, KeysEmpty DEF TypeOK, Run
<1>3. /\ jobs' \in [Agents -> Job \cup {NoJob}]
      /\ \A b \in Agents : /\ jobs'[b] = NoJob <=> jobs[b] = NoJob
                           /\ jobs[b] # NoJob => /\ jobs'[b].file = jobs[b].file
                                                 /\ jobs'[b].reg = jobs[b].reg
      /\ \A b \in Agents : jobs[b] # NoJob /\ jobs[b].reg = slots[s].reg => ~jobs'[b].running
      /\ \A b \in Agents : jobs[b] # NoJob /\ jobs[b].reg # slots[s].reg =>
                             jobs'[b].running = jobs[b].running
  <2>1. CASE IsCurrent(slots[s])
    <3>1. jobs[a] \in Job /\ jobs[a] # NoJob /\ jobs[a].reg = slots[s].reg
      BY <1>2, <2>1 DEF IsCurrent
    <3>2. j \in Job /\ j.file = jobs[a].file /\ j.reg = jobs[a].reg /\ ~j.running
      BY <3>1 DEF Job
    <3> HIDE DEF j
    <3>3. /\ jobs'[a] = j /\ \A b \in Agents : b # a => jobs'[b] = jobs[b]
          /\ jobs' \in [Agents -> Job \cup {NoJob}] /\ j # NoJob
      BY <1>1, <1>2, <2>1, <3>2, NoJobAssumption
    <3>4. \A b \in Agents : jobs[b] # NoJob /\ jobs[b].reg = slots[s].reg => b = a
      BY <1>1 DEF Inductive, Identities
    <3> QED BY <3>1, <3>2, <3>3, <3>4
  <2>2. CASE ~IsCurrent(slots[s])
    <3>1. jobs' = jobs
      BY <1>1, <2>2
    <3>2. \A b \in Agents : jobs[b] # NoJob => jobs[b].reg # slots[s].reg
      BY <1>1, <2>2 DEF Inductive, Identities, IsCurrent
    <3> QED BY <1>2, <3>1, <3>2
  <2> QED BY <2>1, <2>2
<1> HIDE DEF a, j
<1>4. /\ slots' \in [Slots -> Run \cup {NoRun}]
      /\ slots'[s] \in Run /\ slots'[s] # NoRun /\ slots'[s].pc = "release"
      /\ slots'[s].item = slots[s].item /\ slots[s].item = <<>>
      /\ slots'[s].reg = slots[s].reg /\ slots'[s].agent = slots[s].agent
      /\ \A t \in Slots : t # s => slots'[t] = slots[t]
      /\ Busy' = Busy /\ Running' = Running \ {s} /\ s \in Running
  <2> DEFINE h == [slots[s] EXCEPT !.pc = "release"]
  <2>1. /\ h \in Run /\ h.pc = "release" /\ h.item = slots[s].item
        /\ h.reg = slots[s].reg /\ h.agent = slots[s].agent /\ slots' = [slots EXCEPT ![s] = h]
    BY <1>1, <1>2 DEF Run
  <2> HIDE DEF h
  <2>2. /\ slots' \in [Slots -> Run \cup {NoRun}] /\ slots'[s] = h /\ h # NoRun
        /\ \A t \in Slots : t # s => slots'[t] = slots[t]
    BY <1>2, <2>1, NoRunAssumption
  <2>3. Busy' = Busy
    BY <1>1, <2>2 DEF Busy
  <2>4. Running' = Running \ {s} /\ s \in Running
    BY <1>1, <2>1, <2>2, <2>3 DEF Running, Busy
  <2>5. slots[s].item = <<>>
    BY <1>1, AtWork
  <2> QED BY <2>1, <2>2, <2>3, <2>4, <2>5
<1>5. TypeOK'
  <2>1. jobCount' \in Nat
    BY <1>1, <1>2 DEF TypeOK
  <2> QED BY <1>1, <1>2, <1>3, <1>4, <2>1 DEF TypeOK, pollVars, serveVars
<1>6. Identities' /\ DueIsIdle'
  <2>1. /\ \A t \in Busy : slots'[t].reg = slots[t].reg /\ slots'[t].agent = slots[t].agent
        /\ \A t \in Running' : t \in Running /\ t \in Busy
    BY <1>4 DEF Busy, Running
  <2>2. DueIsIdle'
    BY <1>1, <2>1 DEF Inductive, DueIsIdle
  <2>3. Identities'
    BY <1>1, <1>3, <1>4, <2>1 DEF Inductive, Identities
  <2> QED BY <2>2, <2>3
<1>7. OneRunPerJob'
  <2>1. \A t \in Running' : t \in Running /\ t # s /\ slots'[t] = slots[t]
    BY <1>4 DEF Busy, Running
  <2>2. \A t, u \in Running' : t # u => slots'[t].reg # slots'[u].reg
    BY <2>1 DEF Inductive, OneRunPerJob
  <2>3. \A t \in Running' : slots'[t].reg # slots[s].reg
    BY <1>4, <2>1 DEF Inductive, OneRunPerJob
  <2>4. ASSUME NEW b \in Agents, jobs'[b] # NoJob
        PROVE  jobs'[b].running <=> \E t \in Running' : slots'[t].reg = jobs'[b].reg
    <3>1. jobs[b] # NoJob /\ jobs'[b].reg = jobs[b].reg
      BY <1>3, <2>4
    <3>2. CASE jobs[b].reg = slots[s].reg
      BY <1>3, <2>3, <3>1, <3>2
    <3>3. CASE jobs[b].reg # slots[s].reg
      <4>1. jobs[b].running <=> \E t \in Running : slots[t].reg = jobs[b].reg
        BY <3>1 DEF Inductive, OneRunPerJob
      <4>2. (\E t \in Running' : slots'[t].reg = jobs'[b].reg)
              <=> \E t \in Running : slots[t].reg = jobs[b].reg
        BY <1>4, <2>1, <3>1, <3>3
      <4>3. jobs'[b].running = jobs[b].running
        BY <1>3, <3>1, <3>3
      <4> QED BY <4>1, <4>2, <4>3
    <3> QED BY <3>2, <3>3
  <2> QED BY <2>2, <2>4 DEF OneRunPerJob
<1>8. ItemsInRuns'
  BY <1>4, KeysEmpty DEF Inductive, ItemsInRuns, Busy
<1>9. QuietAtStart' /\ phase \notin {"down", "starting"}
  BY <1>1 DEF Inductive, QuietAtStart, serveVars
<1>10. Versions' /\ ReloadIsCurrent'
  BY <1>3, FilesRest DEF Inductive
<1>11. ItemsAccounted' /\ Exclusive'
  <2>1. HeldIn(slots', s) = {} /\ \A t \in Slots : t # s => HeldIn(slots', t) = HeldIn(slots, t)
    BY <1>4, KeysEmpty DEF HeldIn
  <2> QED BY <1>1, <1>2, <1>9, <2>1, ItemMoves
<1> QED BY <1>5, <1>6, <1>7, <1>8, <1>9, <1>10, <1>11 DEF Inductive

\* ... and the slot is free again.
LEMMA ReleaseKeeps ==
  ASSUME Inductive, NEW s \in Slots, Release(s), UNCHANGED <<pollVars, serveVars>>
  PROVE  Inductive'
<1>1. /\ slots[s] # NoRun /\ slots[s].pc = "release" /\ s \in Busy
      /\ slots' = [slots EXCEPT ![s] = NoRun]
      /\ UNCHANGED <<regs, jobs, due, queueVars>>
  BY DEF Release, ReleaseSlot, Running, Busy
<1>2. /\ TypeOK /\ HeldIn(slots, s) = {} /\ jobs \in [Agents -> Job \cup {NoJob}]
      /\ slots \in [Slots -> Run \cup {NoRun}]
  BY <1>1, AtWork, KeysEmpty DEF TypeOK
<1>3. /\ slots' \in [Slots -> Run \cup {NoRun}] /\ slots'[s] = NoRun
      /\ \A t \in Slots : t # s => slots'[t] = slots[t]
  BY <1>1, <1>2
<1>4. /\ Busy' = Busy \ {s} /\ Running' = Running
      /\ \A t \in Busy' : t \in Busy /\ slots'[t] = slots[t]
      /\ \A t \in Running : slots'[t] = slots[t]
  <2>1. Busy' = Busy \ {s} /\ \A t \in Busy' : t \in Busy /\ slots'[t] = slots[t]
    BY <1>3 DEF Busy
  <2>2. Running' = Running
    BY <1>1, <2>1 DEF Running
  <2> QED BY <2>1, <2>2 DEF Running
<1>5. TypeOK'
  BY <1>1, <1>2, <1>3, TypeMoves DEF TypeOK, queueVars
<1>6. Identities' /\ DueIsIdle' /\ OneRunPerJob'
  <2>1. Identities'
    BY <1>1, <1>4 DEF Inductive, Identities
  <2>2. DueIsIdle' /\ OneRunPerJob'
    BY <1>1, <1>4 DEF Inductive, DueIsIdle, OneRunPerJob
  <2> QED BY <2>1, <2>2
<1>7. ItemsInRuns'
  BY <1>4 DEF Inductive, ItemsInRuns
<1>8. QuietAtStart' /\ phase \notin {"down", "starting"}
  BY <1>1 DEF Inductive, QuietAtStart, serveVars
<1>9. Versions' /\ ReloadIsCurrent'
  BY <1>1, FilesRest DEF Inductive
<1>10. ItemsAccounted' /\ Exclusive'
  <2>1. \A t \in Slots : HeldIn(slots', t) = HeldIn(slots, t)
    BY <1>2, <1>3 DEF HeldIn
  <2> QED BY <1>1, <1>8, <2>1, ItemsRest DEF Inductive, serveVars
<1> QED BY <1>5, <1>6, <1>7, <1>8, <1>9, <1>10 DEF Inductive

-----------------------------------------------------------------------------
(* The HTTP polling worker.                                                  *)

\* What the worker leaves alone.
LEMMA PollRests ==
  ASSUME Inductive, pc # "none", UNCHANGED <<schedVars, serveVars>>
  PROVE  /\ Identities' /\ DueIsIdle' /\ OneRunPerJob' /\ ItemsInRuns' /\ QuietAtStart'
         /\ Versions' /\ ReloadIsCurrent'
         /\ Held' = Held /\ \A s \in Slots : HeldIn(slots', s) = HeldIn(slots, s)
<1>1. /\ Identities' /\ DueIsIdle' /\ OneRunPerJob' /\ ItemsInRuns'
      /\ Busy' = Busy /\ Held' = Held /\ UNCHANGED <<regs, jobs, due, slots>>
  BY SchedSame DEF schedVars
<1>2. phase # "down" /\ phase' = phase
  BY DEF Inductive, QuietAtStart, NoPoller, serveVars
<1>3. QuietAtStart'
  BY <1>1, <1>2 DEF Inductive, QuietAtStart
<1>4. Versions' /\ ReloadIsCurrent'
  BY <1>1, FilesRest DEF Inductive
<1> QED BY <1>1, <1>3, <1>4

\* The rest of the type, while the worker works.
LEMMA TypePolls ==
  ASSUME TypeOK, UNCHANGED <<schedVars, serveVars, done, gone, jobCount>>,
         queue' \in [Names -> Seq(Item)], file' \in [Names -> Seq(Item)],
         faults' \in 0 .. MaxFaults, accepted' \subseteq Keys,
         pc' \in {"none", "seed", "refill", "idle", "polled"}, left' \in Nat,
         taken' \in Seq(Item), listed' \subseteq Keys, seen' \subseteq Keys
  PROVE  TypeOK'
  BY DEF TypeOK, schedVars, serveVars

\* The poller takes all items out of the queue, ...
LEMMA SeedTakesKeeps ==
  ASSUME Inductive, SeedTakes, UNCHANGED serveVars
  PROVE  Inductive'
<1> DEFINE q == queue["in"]
<1>1. /\ pc = "seed" /\ left > 0
      /\ UNCHANGED <<schedVars, done, gone, accepted, jobCount, listed, seen>>
      /\ \/ /\ q # <<>> /\ Saved("in", Tail(q))
            /\ pc' = "seed" /\ left' = left - 1 /\ taken' = Append(taken, Head(q))
         \/ NotSaved("in", q) /\ pc' = "refill" /\ left' = 0 /\ taken' = taken
         \/ /\ q = <<>> /\ pc' = "refill" /\ left' = 0 /\ taken' = taken
            /\ UNCHANGED <<queue, file, faults>>
  BY DEF SeedTakes, Dequeue, Saves, Saved, NotSaved, rest
<1>2. /\ TypeOK /\ q \in Seq(Item) /\ taken \in Seq(Item) /\ left \in Nat
      /\ "in" \in Names /\ "dlq" \in Names
      /\ accepted \subseteq Keys /\ listed \subseteq Keys /\ seen \subseteq Keys
  BY DEF Inductive, TypeOK, Names
<1>3. /\ Identities' /\ DueIsIdle' /\ OneRunPerJob' /\ ItemsInRuns' /\ QuietAtStart'
      /\ Versions' /\ ReloadIsCurrent'
      /\ Held' = Held /\ \A s \in Slots : HeldIn(slots', s) = HeldIn(slots, s)
  BY <1>1, PollRests
<1>4. CASE /\ q # <<>> /\ Saved("in", Tail(q))
           /\ pc' = "seed" /\ left' = left - 1 /\ taken' = Append(taken, Head(q))
  <2>1. /\ Tail(q) \in Seq(Item) /\ Head(q) \in Item /\ Len(Tail(q)) = Len(q) - 1
        /\ KeysOf(q) = {Head(q).key} \cup KeysOf(Tail(q))
        /\ Distinct(q) => Distinct(Tail(q)) /\ Head(q).key \notin KeysOf(Tail(q))
    BY <1>2, <1>4, KeysTail
  <2>2. /\ taken' \in Seq(Item) /\ KeysOf(taken') = KeysOf(taken) \cup {Head(q).key}
        /\ Distinct(taken) /\ Head(q).key \notin KeysOf(taken) => Distinct(taken')
    BY <1>2, <1>4, <2>1, KeysAppend
  <2>3. /\ queue' \in [Names -> Seq(Item)] /\ file' \in [Names -> Seq(Item)]
        /\ faults' \in 0 .. MaxFaults
        /\ queue'["dlq"] = queue["dlq"] /\ queue'["in"] = Tail(q)
        /\ faults' = 0 => faults = 0 /\ (file = queue => file' = queue')
    BY <1>2, <1>4, <2>1, SavesGives
  <2>4. TypeOK'
    BY <1>1, <1>2, <1>4, <2>2, <2>3, TypePolls
  <2>5. KeysOf(queue["in"]) \cup KeysOf(taken) = KeysOf(queue'["in"]) \cup KeysOf(taken')
    BY <2>1, <2>2, <2>3
  <2>6. ItemsAccounted'
    BY <1>1, <1>3, <2>3, <2>5 DEF Inductive, ItemsAccounted
  <2>7. Exclusive'
    <3> SUFFICES ASSUME faults' = 0, Undisturbed'
                 PROVE  file' = queue' /\ OnePlace' /\ WorkerKnows'
      BY DEF Exclusive, Undisturbed
    <3>1. file = queue /\ OnePlace /\ WorkerKnows
      BY <2>3 DEF Inductive, Exclusive, Undisturbed, serveVars
    <3>2. Apart(queue["in"], taken, slots)
      BY <3>1, OnePlaceApart
    <3>3. /\ Distinct(queue'["in"]) /\ Distinct(taken')
          /\ KeysOf(queue'["in"]) \cap KeysOf(taken') = {}
      <4>1. Distinct(q) /\ Distinct(taken) /\ KeysOf(q) \cap KeysOf(taken) = {}
        BY <3>2 DEF Apart
      <4> QED BY <2>1, <2>2, <2>3, <4>1
    <3>4. Apart(queue'["in"], taken', slots')
      BY <1>3, <2>5, <3>2, <3>3 DEF Apart
    <3>5. WorkerKnows'
      BY <1>1, <1>4, <2>1, <2>3, <3>1 DEF WorkerKnows, serveVars
    <3> QED BY <2>3, <3>1, <3>4, <3>5, OnePlaceApart
  <2> QED BY <1>3, <2>4, <2>6, <2>7 DEF Inductive
<1>5. CASE NotSaved("in", q) /\ pc' = "refill" /\ left' = 0 /\ taken' = taken
  <2>1. /\ queue' \in [Names -> Seq(Item)] /\ file' \in [Names -> Seq(Item)]
        /\ faults' \in 0 .. MaxFaults /\ faults' # 0
        /\ queue'["dlq"] = queue["dlq"] /\ queue'["in"] = q
    BY <1>2, <1>5, SavesGives
  <2>2. TypeOK'
    BY <1>1, <1>2, <1>5, <2>1, TypePolls
  <2>3. ItemsAccounted'
    BY <1>1, <1>3, <1>5, <2>1 DEF Inductive, ItemsAccounted
  <2>4. Exclusive'
    BY <2>1 DEF Exclusive, Undisturbed
  <2> QED BY <1>3, <2>2, <2>3, <2>4 DEF Inductive
<1>6. CASE /\ q = <<>> /\ pc' = "refill" /\ left' = 0 /\ taken' = taken
           /\ UNCHANGED <<queue, file, faults>>
  <2>1. TypeOK'
    BY <1>1, <1>2, <1>6, TypePolls DEF TypeOK
  <2>2. ItemsAccounted'
    BY <1>1, <1>3, <1>6 DEF Inductive, ItemsAccounted
  <2>3. Exclusive'
    <3>1. Len(q) = 0
      BY <1>6
    <3> QED BY <1>1, <1>6, <3>1 DEF Inductive, Exclusive, Undisturbed, WorkerKnows, serveVars
  <2> QED BY <1>3, <2>1, <2>2, <2>3 DEF Inductive
<1> QED BY <1>1, <1>4, <1>5, <1>6

\* ... knows their keys, ...
LEMMA SeedTakenKeeps ==
  ASSUME Inductive, SeedTaken, UNCHANGED serveVars
  PROVE  Inductive'
<1>1. /\ pc = "seed" /\ left = 0 /\ pc' = "refill"
      /\ UNCHANGED <<schedVars, done, gone, accepted, jobCount, queue, file, faults, left, taken,
                     listed, seen>>
  BY DEF SeedTaken, rest
<1>2. TypeOK /\ queue["in"] \in Seq(Item)
  BY DEF Inductive, TypeOK, Names
<1>3. /\ Identities' /\ DueIsIdle' /\ OneRunPerJob' /\ ItemsInRuns' /\ QuietAtStart'
      /\ Versions' /\ ReloadIsCurrent'
      /\ Held' = Held /\ \A s \in Slots : HeldIn(slots', s) = HeldIn(slots, s)
  BY <1>1, PollRests
<1>4. TypeOK'
  BY <1>1, <1>2, TypePolls DEF TypeOK
<1>5. ItemsAccounted'
  BY <1>1, <1>3 DEF Inductive, ItemsAccounted
<1>6. Exclusive'
  <2> SUFFICES ASSUME faults' = 0, Undisturbed'
               PROVE  file' = queue' /\ OnePlace' /\ WorkerKnows'
    BY DEF Exclusive, Undisturbed
  <2>1. file = queue /\ OnePlace /\ WorkerKnows
    BY <1>1 DEF Inductive, Exclusive, Undisturbed, serveVars
  <2>2. OnePlace'
    BY <1>1, <2>1, OnePlaceApart DEF schedVars
  <2>3. KeysOf(queue["in"]) = {}
    <3>1. Len(queue["in"]) = 0
      BY <1>1, <2>1 DEF WorkerKnows
    <3>2. queue["in"] = <<>>
      BY <1>2, <3>1
    <3> QED BY <3>2, KeysEmpty
  <2>4. WorkerKnows'
    BY <1>1, <2>1, <2>3 DEF WorkerKnows, serveVars
  <2> QED BY <1>1, <2>1, <2>2, <2>4
<1> QED BY <1>3, <1>4, <1>5, <1>6 DEF Inductive

\* ... puts them back, ...
LEMMA SeedPutsBackKeeps ==
  ASSUME Inductive, SeedPutsBack, UNCHANGED serveVars
  PROVE  Inductive'
<1> DEFINE it == Head(taken)
           q  == Append(queue["in"], it)
<1>1. /\ pc = "refill" /\ taken # <<>> /\ taken' = Tail(taken) /\ seen' = seen \cup {it.key}
      /\ UNCHANGED <<schedVars, done, gone, accepted, jobCount, pc, left, listed>>
      /\ Saved("in", q) \/ NotSaved("in", q)
  BY DEF SeedPutsBack, Enqueue, Saves, Saved, NotSaved, rest, Learned
<1>2. /\ TypeOK /\ queue["in"] \in Seq(Item) /\ taken \in Seq(Item)
      /\ "in" \in Names /\ "dlq" \in Names
      /\ left \in Nat /\ accepted \subseteq Keys /\ listed \subseteq Keys /\ seen \subseteq Keys
  BY DEF Inductive, TypeOK, Names
<1>3. /\ Identities' /\ DueIsIdle' /\ OneRunPerJob' /\ ItemsInRuns' /\ QuietAtStart'
      /\ Versions' /\ ReloadIsCurrent'
      /\ Held' = Held /\ \A s \in Slots : HeldIn(slots', s) = HeldIn(slots, s)
  BY <1>1, PollRests
<1>4. /\ taken' \in Seq(Item) /\ it \in Item
      /\ KeysOf(taken) = {it.key} \cup KeysOf(taken')
      /\ Distinct(taken) => Distinct(taken') /\ it.key \notin KeysOf(taken')
  BY <1>1, <1>2, KeysTail
<1> HIDE DEF it
<1>5. /\ q \in Seq(Item) /\ KeysOf(q) = KeysOf(queue["in"]) \cup {it.key}
      /\ Distinct(queue["in"]) /\ it.key \notin KeysOf(queue["in"]) => Distinct(q)
  BY <1>2, <1>4, KeysAppend
<1> HIDE DEF q
<1>6. /\ queue' \in [Names -> Seq(Item)] /\ file' \in [Names -> Seq(Item)]
      /\ faults' \in 0 .. MaxFaults
      /\ queue'["dlq"] = queue["dlq"] /\ queue'["in"] = q
      /\ faults' = 0 => faults = 0 /\ (file = queue => file' = queue')
  BY <1>1, <1>2, <1>5, SavesGives
<1>7. TypeOK'
  <2>1. seen' \subseteq Keys
    BY <1>1, <1>2, <1>4 DEF Item
  <2> QED BY <1>1, <1>2, <1>4, <1>6, <2>1, TypePolls
<1>8. KeysOf(queue["in"]) \cup KeysOf(taken) = KeysOf(queue'["in"]) \cup KeysOf(taken')
  BY <1>4, <1>5, <1>6
<1>9. ItemsAccounted'
  BY <1>1, <1>3, <1>6, <1>8 DEF Inductive, ItemsAccounted
<1>10. Exclusive'
  <2> SUFFICES ASSUME faults' = 0, Undisturbed'
               PROVE  file' = queue' /\ OnePlace' /\ WorkerKnows'
    BY DEF Exclusive, Undisturbed
  <2>1. file = queue /\ OnePlace /\ WorkerKnows
    BY <1>6 DEF Inductive, Exclusive, Undisturbed, serveVars
  <2>2. Apart(queue["in"], taken, slots)
    BY <2>1, OnePlaceApart
  <2>3. /\ Distinct(queue'["in"]) /\ Distinct(taken')
        /\ KeysOf(queue'["in"]) \cap KeysOf(taken') = {}
    <3>1. Distinct(queue["in"]) /\ Distinct(taken) /\ KeysOf(queue["in"]) \cap KeysOf(taken) = {}
      BY <2>2 DEF Apart
    <3> QED BY <1>4, <1>5, <1>6, <3>1
  <2>4. Apart(queue'["in"], taken', slots')
    BY <1>3, <1>8, <2>2, <2>3 DEF Apart
  <2>5. WorkerKnows'
    BY <1>1, <1>5, <1>6, <2>1 DEF WorkerKnows, serveVars
  <2> QED BY <1>6, <2>1, <2>4, <2>5, OnePlaceApart
<1> QED BY <1>3, <1>7, <1>9, <1>10 DEF Inductive

\* ... and enqueues what it has not seen.
LEMMA PollKeeps ==
  ASSUME Inductive, Poll(setup.keys), UNCHANGED serveVars
  PROVE  Inductive'
<1>1. /\ pc = "idle" /\ pc' = "polled" /\ listed' \in SUBSET setup.keys
      /\ UNCHANGED <<schedVars, done, gone, accepted, jobCount, queue, file, faults, left, taken, seen>>
  BY DEF Poll, rest
<1>2. TypeOK /\ setup.keys \subseteq Keys
  BY SetupsOK DEF Inductive, TypeOK
<1>3. /\ Identities' /\ DueIsIdle' /\ OneRunPerJob' /\ ItemsInRuns' /\ QuietAtStart'
      /\ Versions' /\ ReloadIsCurrent'
      /\ Held' = Held /\ \A s \in Slots : HeldIn(slots', s) = HeldIn(slots, s)
  BY <1>1, PollRests
<1>4. TypeOK'
  <2>1. listed' \subseteq Keys
    BY <1>1, <1>2
  <2> QED BY <1>1, <1>2, <2>1, TypePolls DEF TypeOK
<1>5. ItemsAccounted'
  BY <1>1, <1>3 DEF Inductive, ItemsAccounted
<1>6. Exclusive'
  <2> SUFFICES ASSUME faults' = 0, Undisturbed'
               PROVE  file' = queue' /\ OnePlace' /\ WorkerKnows'
    BY DEF Exclusive, Undisturbed
  <2>1. file = queue /\ OnePlace /\ WorkerKnows
    BY <1>1 DEF Inductive, Exclusive, Undisturbed, serveVars
  <2>2. OnePlace'
    BY <1>1, <2>1, OnePlaceApart DEF schedVars
  <2>3. WorkerKnows'
    BY <1>1, <1>3, <2>1 DEF WorkerKnows, serveVars
  <2> QED BY <1>1, <2>1, <2>2, <2>3
<1> QED BY <1>3, <1>4, <1>5, <1>6 DEF Inductive

\* Only what the worker does not know is new, and then it is nowhere.
LEMMA AnswerKeeps ==
  ASSUME Inductive, NEW k \in Keys, Answer(k), UNCHANGED serveVars
  PROVE  Inductive'
<1> DEFINE it == [key |-> k, tries |-> 0]
           q  == Append(queue["in"], it)
<1>1. /\ pc = "polled" /\ k \in listed /\ listed' = listed \ {k} /\ pc' \in {"idle", "polled"}
      /\ UNCHANGED <<schedVars, done, gone, jobCount, left, taken>>
      /\ IF k \in seen
           THEN UNCHANGED <<queue, file, faults, seen, accepted>>
           ELSE \/ Saved("in", q) /\ seen' = seen \cup {k} /\ accepted' = accepted \cup {k}
                \/ NotSaved("in", q) /\ seen' = seen /\ accepted' = accepted
  BY DEF Answer, Enqueue, Saves, Saved, NotSaved
<1>2. /\ TypeOK /\ queue["in"] \in Seq(Item) /\ taken \in Seq(Item)
      /\ "in" \in Names /\ "dlq" \in Names
      /\ left \in Nat /\ accepted \subseteq Keys /\ listed \subseteq Keys /\ seen \subseteq Keys
  BY DEF Inductive, TypeOK, Names
<1>3. /\ Identities' /\ DueIsIdle' /\ OneRunPerJob' /\ ItemsInRuns' /\ QuietAtStart'
      /\ Versions' /\ ReloadIsCurrent'
      /\ Held' = Held /\ \A s \in Slots : HeldIn(slots', s) = HeldIn(slots, s)
  BY <1>1, PollRests
<1>4. it \in Item /\ it.key = k
  BY AgentQueueAssumption DEF Item
<1> HIDE DEF it
<1>5. /\ q \in Seq(Item) /\ KeysOf(q) = KeysOf(queue["in"]) \cup {k}
      /\ Distinct(queue["in"]) /\ k \notin KeysOf(queue["in"]) => Distinct(q)
  BY <1>2, <1>4, KeysAppend
<1> HIDE DEF q
<1>6. listed' \subseteq Keys /\ pc' \in {"none", "seed", "refill", "idle", "polled"}
  BY <1>1, <1>2
<1>7. CASE k \in seen
  <2>1. UNCHANGED <<queue, file, faults, seen, accepted>>
    BY <1>1, <1>7
  <2>2. TypeOK'
    BY <1>1, <1>2, <1>6, <2>1, TypePolls DEF TypeOK
  <2>3. ItemsAccounted'
    BY <1>1, <1>3, <2>1 DEF Inductive, ItemsAccounted
  <2>4. Exclusive'
    <3> SUFFICES ASSUME faults' = 0, Undisturbed'
                 PROVE  file' = queue' /\ OnePlace' /\ WorkerKnows'
      BY DEF Exclusive, Undisturbed
    <3>1. file = queue /\ OnePlace /\ WorkerKnows
      BY <2>1 DEF Inductive, Exclusive, Undisturbed, serveVars
    <3>2. OnePlace'
      BY <1>1, <2>1, <3>1, OnePlaceApart DEF schedVars
    <3>3. WorkerKnows'
      BY <1>1, <1>3, <2>1, <3>1 DEF WorkerKnows, serveVars
    <3> QED BY <2>1, <3>1, <3>2, <3>3
  <2> QED BY <1>3, <2>2, <2>3, <2>4 DEF Inductive
<1>8. CASE k \notin seen
  <2>1. /\ Saved("in", q) \/ NotSaved("in", q)
        /\ seen' \in {seen, seen \cup {k}} /\ accepted' \in {accepted, accepted \cup {k}}
        /\ NotSaved("in", q) \/ seen' = seen \cup {k}
    BY <1>1, <1>8
  <2>2. /\ queue' \in [Names -> Seq(Item)] /\ file' \in [Names -> Seq(Item)]
        /\ faults' \in 0 .. MaxFaults
        /\ queue'["dlq"] = queue["dlq"] /\ queue'["in"] = q
        /\ NotSaved("in", q) => faults' # 0
        /\ faults' = 0 => faults = 0 /\ (file = queue => file' = queue')
    BY <1>2, <1>5, <2>1, SavesGives
  <2>3. TypeOK'
    <3>1. seen' \subseteq Keys /\ accepted' \subseteq Keys
      BY <1>2, <2>1
    <3> QED BY <1>1, <1>2, <1>6, <2>2, <3>1, TypePolls
  <2>4. ItemsAccounted'
    BY <1>1, <1>3, <1>5, <2>1, <2>2 DEF Inductive, ItemsAccounted
  <2>5. Exclusive'
    <3> SUFFICES ASSUME faults' = 0, Undisturbed'
                 PROVE  file' = queue' /\ OnePlace' /\ WorkerKnows'
      BY DEF Exclusive, Undisturbed
    <3>1. file = queue /\ OnePlace /\ WorkerKnows /\ seen' = seen \cup {k}
      BY <2>1, <2>2 DEF Inductive, Exclusive, Undisturbed, serveVars
    <3>2. Apart(queue["in"], taken, slots)
      BY <3>1, OnePlaceApart
    <3>3. taken = <<>> /\ KeysOf(queue["in"]) \cup Held \subseteq seen
      BY <1>1, <3>1 DEF WorkerKnows
    <3>4. KeysOf(taken) = {} /\ k \notin KeysOf(queue["in"]) /\ \A s \in Slots : k \notin HeldIn(slots, s)
      BY <1>8, <3>3, KeysEmpty, HeldBySlot
    <3>5. Apart(queue'["in"], taken', slots')
      BY <1>1, <1>3, <1>5, <2>2, <3>2, <3>4 DEF Apart
    <3>6. WorkerKnows'
      BY <1>1, <1>3, <1>5, <2>2, <3>1 DEF WorkerKnows, serveVars
    <3> QED BY <2>2, <3>1, <3>5, <3>6, OnePlaceApart
  <2> QED BY <1>3, <2>3, <2>4, <2>5 DEF Inductive
<1> QED BY <1>7, <1>8

-----------------------------------------------------------------------------
(* The specification.                                                        *)

\* A process that has not started.
LEMMA InductiveInit ==
  Init => Inductive
<1> SUFFICES ASSUME Init PROVE Inductive
  OBVIOUS
<1>1. /\ setup \in Setups
      /\ regs = 0 /\ jobs = [a \in Agents |-> NoJob] /\ due = {} /\ slots = [s \in Slots |-> NoRun]
      /\ done = {} /\ gone = {} /\ jobCount = 0 /\ faults = 0
      /\ NoPoller
      /\ queue = [n \in Names |-> IF n = "in" THEN setup.queued ELSE <<>>]
      /\ file = queue /\ accepted = KeysOf(setup.queued)
      /\ phase = "down" /\ boots = 0
      /\ disk = setup.files /\ edits = 0 /\ loaded = disk /\ fresh = Agents
      /\ hashes = [a \in Agents |-> {}]
      /\ worker = (setup.worker = "start") /\ todo = {} /\ timedOut = FALSE
  BY DEF Init, SchedInit, QueueInit
<1>2. /\ setup.files \in [Agents -> AgentFile] /\ setup.queued \in Seq(Item)
      /\ setup.boots \in Nat /\ setup.edits \in Nat
      /\ 0 \in 0 .. MaxReg /\ 0 \in 0 .. MaxFaults /\ 0 \in 0 .. setup.boots /\ 0 \in 0 .. setup.edits
  BY <1>1, SetupsOK, SchedulerAssumption, FaultsAssumption
<1>3. /\ queue["in"] = setup.queued /\ queue["dlq"] = <<>>
      /\ queue \in [Names -> Seq(Item)]
  BY <1>1, <1>2, KeysEmpty DEF Names
<1>4. TypeOK
  BY <1>1, <1>2, <1>3, KeysEmpty, KeysAreKeys DEF TypeOK, NoPoller, Phases
<1>5. Busy = {} /\ (\A s \in Slots : HeldIn(slots, s) = {}) /\ \A a \in Agents : jobs[a] = NoJob
  BY <1>1 DEF Busy, HeldIn
<1>6. Identities /\ DueIsIdle /\ OneRunPerJob /\ ItemsInRuns /\ QuietAtStart
  BY <1>1, <1>5 DEF Identities, DueIsIdle, OneRunPerJob, ItemsInRuns, QuietAtStart, Running
<1>7. ItemsAccounted
  BY <1>1, <1>3 DEF ItemsAccounted
<1>8. Versions /\ ReloadIsCurrent
  BY <1>1, <1>5 DEF Versions, ReloadIsCurrent
<1>9. Distinct(setup.queued) => OnePlace
  <2> SUFFICES ASSUME Distinct(setup.queued) PROVE OnePlace
    OBVIOUS
  <2>1. taken = <<>>
    BY <1>1 DEF NoPoller
  <2>2. Apart(queue["in"], <<>>, slots)
    BY <1>2, <1>3, <1>5, KeysEmpty DEF Apart
  <2> QED BY <2>1, <2>2, OnePlaceApart
<1>10. WorkerKnows
  BY <1>1 DEF WorkerKnows, NoPoller
<1> QED BY <1>1, <1>4, <1>6, <1>7, <1>8, <1>9, <1>10 DEF Inductive, Exclusive, Undisturbed

\* One step for each action.
LEMMA InductiveNext ==
  Inductive /\ [Next]_vars => Inductive'
<1> SUFFICES ASSUME Inductive, [Next]_vars PROVE Inductive'
  OBVIOUS
<1>1. CASE UNCHANGED vars
  <2>1. UNCHANGED <<schedVars, queueVars, pollVars, serveVars>>
    BY <1>1 DEF vars
  <2>2. TypeOK'
    BY <2>1 DEF Inductive, TypeOK, schedVars, queueVars, pollVars, serveVars
  <2>3. /\ Identities' /\ DueIsIdle' /\ OneRunPerJob' /\ ItemsInRuns'
        /\ Busy' = Busy
    BY <2>1, SchedSame
  <2>4. QuietAtStart'
    BY <2>1, <2>3 DEF Inductive, QuietAtStart, NoPoller, schedVars, pollVars, serveVars
  <2>5. Versions' /\ ReloadIsCurrent'
    BY <2>1, FilesRest DEF Inductive, schedVars
  <2>6. ItemsAccounted' /\ Exclusive'
    <3>1. (\A s \in Slots : HeldIn(slots', s) = HeldIn(slots, s)) /\ UNCHANGED <<setup, worker, phase>>
      BY <2>1 DEF schedVars, serveVars
    <3> QED BY <2>1, <3>1, ItemsRest DEF Inductive
  <2> QED BY <2>2, <2>3, <2>4, <2>5, <2>6 DEF Inductive
<1>2. ASSUME Boot PROVE Inductive'
  BY <1>2, BootKeeps
<1>3. ASSUME MainStep PROVE Inductive'
  <2>1. ASSUME NEW a \in Agents, RegisterAtStart(a) PROVE Inductive'
    BY <2>1, RegisterAtStartKeeps
  <2>2. ASSUME NEW a \in Agents, Sync(a) PROVE Inductive'
    BY <2>2, SyncKeeps
  <2>3. ASSUME DrainEnds \/ CancelContext PROVE Inductive'
    BY <2>3, PhaseKeeps DEF DrainEnds, CancelContext, Becomes, Phases, Inductive, TypeOK
  <2>4. ASSUME Exit PROVE Inductive'
    BY <2>4, ProcessEndsKeeps DEF Exit
  <2> QED BY <1>3, <2>1, <2>2, <2>3, <2>4, StartServingKeeps, ReplaceWorkerKeeps, EndReloadKeeps
          DEF MainStep
<1>4. ASSUME Reload PROVE Inductive'
  BY <1>4, PhaseKeeps DEF Reload, Phases, Inductive, TypeOK
<1>5. ASSUME Stop PROVE Inductive'
  BY <1>5, PhaseKeeps DEF Stop, Becomes, Phases, Inductive, TypeOK
<1>6. ASSUME Crash PROVE Inductive'
  BY <1>6, ProcessEndsKeeps DEF Crash
<1>7. ASSUME AddWorker PROVE Inductive'
  BY <1>7, AddWorkerKeeps
<1>8. ASSUME NEW a \in Agents, Edit(a) PROVE Inductive'
  BY <1>8, EditKeeps
<1>9. ASSUME Tick, UNCHANGED <<queueVars, pollVars, serveVars>> PROVE Inductive'
  BY <1>9, CollectDueKeeps, StartDueKeeps DEF Tick
<1>10. ASSUME NEW a \in Agents, Ticks, Ripen(a), UNCHANGED <<queueVars, pollVars, serveVars>>
       PROVE  Inductive'
  BY <1>10, RipenKeeps
<1>11. ASSUME NEW s \in Slots, Work(s), UNCHANGED <<pollVars, serveVars>> PROVE Inductive'
  BY <1>11, TakeItemKeeps, FindsEmptyKeeps, ExpansionFailsKeeps, RunSucceedsKeeps, RunFailsKeeps,
     FinishRunKeeps, ReleaseKeeps DEF Work
<1>12. ASSUME PollStep(setup.keys), UNCHANGED serveVars PROVE Inductive'
  <2>1. ASSUME NEW k \in Keys, Answer(k) PROVE Inductive'
    BY <1>12, <2>1, AnswerKeeps
  <2> QED BY <1>12, <2>1, SeedTakesKeeps, SeedTakenKeeps, SeedPutsBackKeeps, PollKeeps DEF PollStep
<1> QED BY <1>1, <1>2, <1>3, <1>4, <1>5, <1>6, <1>7, <1>8, <1>9, <1>10, <1>11, <1>12 DEF Next

\* The invariant holds in every state of a `leather serve` and of its restarts.
THEOREM ServeInductive == Spec => []Inductive
<1> QED BY InductiveInit, InductiveNext, PTL DEF Spec

\* The variables hold values of their types.
THEOREM ServeTypeOK == Spec => []TypeOK
<1>1. Inductive => TypeOK
  BY DEF Inductive
<1> QED BY <1>1, ServeInductive, PTL

\* A job object has at most one handler, and is marked as running exactly while it
\* has one (scheduler.go:166, 172).
THEOREM JobsRunOnce == Spec => []OneRunPerJob
<1>1. Inductive => OneRunPerJob
  BY DEF Inductive
<1> QED BY <1>1, ServeInductive, PTL

\* No failed run, failed save or full batch drops an acknowledged item
\* (cmd_serve.go:1395-1447).
THEOREM NoItemDropped == Spec => []ItemsAccounted
<1>1. Inductive => ItemsAccounted
  BY DEF Inductive
<1> QED BY <1>1, ServeInductive, PTL

\* A reload leaves exactly the jobs of the files that it loaded
\* (cmd_serve.go:1552-1579).
THEOREM ReloadFollowsFiles == Spec => []ReloadIsCurrent
<1>1. Inductive => ReloadIsCurrent
  BY DEF Inductive
<1> QED BY <1>1, ServeInductive, PTL

\* A set whose elements are all the same has at most one.
LEMMA AtMostOne ==
  ASSUME NEW S, \A x, y \in S : x = y
  PROVE  \/ S = {} /\ Cardinality(S) = 0
         \/ S # {} /\ Cardinality(S) = 1
<1>1. CASE S = {}
  BY <1>1, FS_EmptySet
<1>2. CASE S # {}
  <2>1. PICK x \in S : TRUE
    BY <1>2
  <2>2. S = {x}
    BY <2>1
  <2> QED BY <2>2, FS_Singleton
<1> QED BY <1>1, <1>2

\* What is at one place only is there once.
LEMMA OneCopy ==
  ASSUME OnePlace, NEW k \in Keys
  PROVE  Copies(k) <= 1
<1> DEFINE A == {i \in DOMAIN queue["in"] : queue["in"][i].key = k}
           B == {i \in DOMAIN taken : taken[i].key = k}
           C == {s \in Busy : k \in KeysOf(slots[s].item)}
<1>1. /\ \A i, j \in A : i = j
      /\ \A i, j \in B : i = j
      /\ \A i, j \in C : i = j
  BY DEF OnePlace, Distinct
<1>2. /\ A # {} => k \in KeysOf(queue["in"])
      /\ B # {} => k \in KeysOf(taken)
      /\ C # {} => \E s \in Busy : k \in KeysOf(slots[s].item)
  BY DEF KeysOf
<1>3. /\ A = {} \/ B = {}
      /\ A = {} \/ C = {}
      /\ B = {} \/ C = {}
  BY <1>2 DEF OnePlace
<1>4. Copies(k) = Cardinality(A) + Cardinality(B) + Cardinality(C)
  BY DEF Copies
<1> HIDE DEF A, B, C
<1>5. /\ (A = {} /\ Cardinality(A) = 0) \/ (A # {} /\ Cardinality(A) = 1)
      /\ (B = {} /\ Cardinality(B) = 0) \/ (B # {} /\ Cardinality(B) = 1)
      /\ (C = {} /\ Cardinality(C) = 0) \/ (C # {} /\ Cardinality(C) = 1)
  BY <1>1, AtMostOne
<1> QED BY <1>3, <1>4, <1>5

\* While no save failed, what the endpoint lists again and again is in the works at
\* most once, across restarts too (http_poll.go:59-62).
THEOREM ListedOnce == Spec => []PolledOnce
<1>1. Inductive => PolledOnce
  BY OneCopy DEF Inductive, Exclusive, Undisturbed, PolledOnce
<1> QED BY <1>1, ServeInductive, PTL
=============================================================================
