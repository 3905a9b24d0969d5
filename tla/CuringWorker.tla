---------------------------- MODULE CuringWorker ----------------------------
(***************************************************************************)
(* internal/curing/worker.go: the workers of static queues.  Each queue    *)
(* has one curing, whose worker polls the queue, starts a goroutine per    *)
(* item, and bounds the goroutines at work with a semaphore.  A goroutine  *)
(* loads the hide (the stored input) of its item, runs the agent, writes   *)
(* the artifact, forwards the result to the output queue as a new hide and *)
(* a new item, and deletes the hide; after a failure it puts the item back *)
(* or moves it to the dead-letter queue.  The webhook and intake handlers  *)
(* of internal/cli/api_tannery.go bring the work in.                       *)
(*                                                                         *)
(* A hide is the number of its Put; an item is known by its hide and the   *)
(* queue it was sent to, which no other item has (both IDs are random in   *)
(* the code).  The queues are those of FileQueue: a slice in memory and a  *)
(* file that follows it, unless a save fails.                              *)
(***************************************************************************)
EXTENDS Integers, Sequences, FiniteSets, Functions

CONSTANTS
  Queues,       \* the static queues, each consumed by one curing
  NoQueue,      \* the output of a curing that has none
  Out,          \* Out[q]: the output queue of the curing of q
  Routes,       \* the queues a webhook event is fanned out to
  Concurrency,  \* Concurrency[q]: size of the worker's semaphore
  MaxAttempts,  \* MaxAttempts[q]: the curing's max_attempts (loaded 0 is 3)
  MaxHides,     \* bound: no intake once this many hides were written
  MaxDeletes,   \* bound: no operator deletes a hide once this many are withdrawn
  Faults        \* what may go wrong in this instance

FaultKinds ==
  {"load", "run", "write", "put", "delete", "save", "panic", "crash",
   "operator"}

ASSUME ConstantsAssumption ==
  /\ NoQueue \notin Queues
  /\ Out \in [Queues -> Queues \cup {NoQueue}]
  /\ Routes \subseteq Queues
  /\ Concurrency \in [Queues -> Nat \ {0}]
  /\ MaxAttempts \in [Queues -> Nat \ {0}]
  /\ MaxHides \in Nat
  /\ MaxDeletes \in Nat
  /\ Faults \subseteq FaultKinds

VARIABLES
  queue,      \* queue[n]: the items of queue n in memory, oldest first
  file,       \* file[n]: the items in the JSONL file of queue n
  held,       \* the item handlers (goroutines), each with the item it owns
  hides,      \* the hides in the store
  nextHide,   \* the number of the next hide
  intake,     \* the requests between Put of the hide and the last Enqueue
  artifacts,  \* keys of the items whose artifact is in the store
  accepted,   \* history: keys of the items an Enqueue acknowledged
  lost,       \* history: keys of the items a crash or a panic took
  withdrawn   \* history: hides deleted by an operator or a failed webhook

vars ==
  <<queue, file, held, hides, nextHide, intake, artifacts, accepted, lost, withdrawn>>

Names == Queues \X {"live", "dlq"}
Live(q) == <<q, "live">>
Dlq(q)  == <<q, "dlq">>

Item    == [hide : Nat \ {0}, queue : Queues, attempts : Nat]
PCs     == {"waiting", "load", "run", "write", "put", "send", "cleanup",
            "failed", "dead"}
Handler == [item : Item, pc : PCs, out : Nat]
Request == [hide : Nat \ {0}, todo : SUBSET Queues, kind : {"webhook", "manual"}]

Key(it) == <<it.hide, it.queue>>

\* An item without an artifact yet is in one of these stages of its handler.
BeforeArtifact == {"waiting", "load", "run", "write", "failed", "dead"}

Init ==
  /\ queue = [n \in Names |-> <<>>]
  /\ file = [n \in Names |-> <<>>]
  /\ held = {}
  /\ hides = {}
  /\ nextHide = 1
  /\ intake = {}
  /\ artifacts = {}
  /\ accepted = {}
  /\ lost = {}
  /\ withdrawn = {}

-----------------------------------------------------------------------------
(* FileQueue operations, as CuringWorker's actions use them.               *)

PushSaved(n, it) ==
  /\ queue' = [queue EXCEPT ![n] = Append(@, it)]
  /\ file' = [file EXCEPT ![n] = Append(queue[n], it)]
  /\ accepted' = accepted \cup {Key(it)}

\* Enqueue returns the error of save(); the item stays in the slice.
PushUnsaved(n, it) ==
  /\ "save" \in Faults
  /\ queue' = [queue EXCEPT ![n] = Append(@, it)]
  /\ UNCHANGED <<file, accepted>>

Push(n, it) == PushSaved(n, it) \/ PushUnsaved(n, it)

NewItem(h, q) == [hide |-> h, queue |-> q, attempts |-> 0]

Working(q) == {h \in held : h.item.queue = q /\ h.pc # "waiting"}

Moved(h, pc) == held' = (held \ {h}) \cup {[h EXCEPT !.pc = pc]}
Ended(h)     == held' = held \ {h}

-----------------------------------------------------------------------------
(***************************************************************************)
(* Mutants: plausible errors in the actions below, used only to show that  *)
(* the properties notice them.                                             *)
(***************************************************************************)
\* The file is not rewritten when an item is taken.
DequeueWithoutSave(q) ==
  /\ queue[Live(q)] # <<>>
  /\ queue' = [queue EXCEPT ![Live(q)] = Tail(@)]
  /\ held' = held \cup {[item |-> Head(queue[Live(q)]), pc |-> "waiting", out |-> 0]}
  /\ UNCHANGED <<file, hides, nextHide, intake, artifacts, accepted, lost, withdrawn>>

\* One slot of the semaphore is never given out.
AcquireOffByOne(h) ==
  /\ h.pc = "waiting"
  /\ Cardinality(Working(h.item.queue)) < Concurrency[h.item.queue] - 1
  /\ Moved(h, "load")
  /\ UNCHANGED <<queue, file, hides, nextHide, intake, artifacts, accepted, lost, withdrawn>>

\* A failure after the success boundary is retried.
PutOutputRetries(h) ==
  /\ h.pc = "put"
  /\ \/ /\ hides' = hides \cup {nextHide}
        /\ nextHide' = nextHide + 1
        /\ held' = (held \ {h}) \cup {[h EXCEPT !.pc = "send", !.out = nextHide]}
     \/ /\ "put" \in Faults
        /\ Moved(h, "failed")
        /\ UNCHANGED <<hides, nextHide>>
  /\ UNCHANGED <<queue, file, intake, artifacts, accepted, lost, withdrawn>>

\* Errors of the retry decision: no retry, one that is not counted, an exhausted
\* item dropped, the hide of a dead letter deleted.
FailWithoutRetry(h) ==
  /\ h.pc \in {"failed", "dead"}
  /\ Push(Dlq(h.item.queue), [h.item EXCEPT !.attempts = @ + 1])
  /\ Ended(h)
  /\ UNCHANGED <<hides, nextHide, intake, artifacts, lost, withdrawn>>

RetryUncounted(h) ==
  LET retry == h.pc = "failed" /\ h.item.attempts + 1 < MaxAttempts[h.item.queue] IN
  /\ h.pc \in {"failed", "dead"}
  /\ IF retry THEN Push(Live(h.item.queue), h.item)
              ELSE Push(Dlq(h.item.queue), [h.item EXCEPT !.attempts = @ + 1])
  /\ Ended(h)
  /\ UNCHANGED <<hides, nextHide, intake, artifacts, lost, withdrawn>>

FailDropsExhausted(h) ==
  LET it == [h.item EXCEPT !.attempts = @ + 1] IN
  /\ h.pc \in {"failed", "dead"}
  /\ IF h.pc = "failed" /\ it.attempts < MaxAttempts[it.queue]
       THEN Push(Live(it.queue), it)
       ELSE UNCHANGED <<queue, file, accepted>>
  /\ Ended(h)
  /\ UNCHANGED <<hides, nextHide, intake, artifacts, lost, withdrawn>>

FailDeletesHide(h) ==
  LET it == [h.item EXCEPT !.attempts = @ + 1]
      retry == h.pc = "failed" /\ it.attempts < MaxAttempts[it.queue] IN
  /\ h.pc \in {"failed", "dead"}
  /\ Push(IF retry THEN Live(it.queue) ELSE Dlq(it.queue), it)
  /\ hides' = IF retry THEN hides ELSE hides \ {it.hide}
  /\ Ended(h)
  /\ UNCHANGED <<nextHide, intake, artifacts, lost, withdrawn>>

-----------------------------------------------------------------------------
(* Intake.                                                                 *)

\* The handlers write the hide first.  A webhook enqueues one item for every
\* matching route, a manual intake one item.
PutHide ==
  /\ nextHide <= MaxHides
  /\ hides' = hides \cup {nextHide}
  /\ nextHide' = nextHide + 1
  /\ \/ intake' = intake \cup {[hide |-> nextHide, todo |-> Routes, kind |-> "webhook"]}
     \/ \E q \in Routes :
          intake' = intake \cup {[hide |-> nextHide, todo |-> {q}, kind |-> "manual"]}
  /\ UNCHANGED <<queue, file, held, artifacts, accepted, lost, withdrawn>>

IntakeEnqueue(r, q) ==
  LET rest == r.todo \ {q} IN
  /\ PushSaved(Live(q), NewItem(r.hide, q))
  /\ intake' = (intake \ {r}) \cup
               (IF rest = {} THEN {} ELSE {[r EXCEPT !.todo = rest]})
  /\ UNCHANGED <<held, hides, nextHide, artifacts, lost, withdrawn>>

\* The first error ends the request.  The webhook deletes the hide, whatever
\* it enqueued before; the manual intake keeps it and reports it.
IntakeFails(r, q) ==
  /\ PushUnsaved(Live(q), NewItem(r.hide, q))
  /\ intake' = intake \ {r}
  /\ IF r.kind = "webhook"
       THEN hides' = hides \ {r.hide} /\ withdrawn' = withdrawn \cup {r.hide}
       ELSE UNCHANGED <<hides, withdrawn>>
  /\ UNCHANGED <<held, nextHide, artifacts, lost>>

-----------------------------------------------------------------------------
(* The worker of queue q.                                                  *)

\* The poll takes the head (the file is rewritten before the item is
\* returned; a failed save is a poll without effect) and starts its handler.
Dequeue(q) ==
  /\ queue[Live(q)] # <<>>
  /\ queue' = [queue EXCEPT ![Live(q)] = Tail(@)]
  /\ file' = [file EXCEPT ![Live(q)] = Tail(queue[Live(q)])]
  /\ held' = held \cup {[item |-> Head(queue[Live(q)]), pc |-> "waiting", out |-> 0]}
  /\ UNCHANGED <<hides, nextHide, intake, artifacts, accepted, lost, withdrawn>>

\* The goroutine gets a slot of the semaphore.
Acquire(h) ==
  /\ h.pc = "waiting"
  /\ Cardinality(Working(h.item.queue)) < Concurrency[h.item.queue]
  /\ Moved(h, "load")
  /\ UNCHANGED <<queue, file, hides, nextHide, intake, artifacts, accepted, lost, withdrawn>>

\* LoadIntoBuffer: a missing hide is an error that is not retried.
Load(h) ==
  /\ h.pc = "load"
  /\ \/ h.item.hide \in hides /\ Moved(h, "run")
     \/ h.item.hide \notin hides /\ Moved(h, "dead")
     \/ "load" \in Faults /\ Moved(h, "failed")
  /\ UNCHANGED <<queue, file, hides, nextHide, intake, artifacts, accepted, lost, withdrawn>>

RunAgent(h) ==
  /\ h.pc = "run"
  /\ \/ Moved(h, "write")
     \/ "run" \in Faults /\ Moved(h, "failed")
  /\ UNCHANGED <<queue, file, hides, nextHide, intake, artifacts, accepted, lost, withdrawn>>

\* The success boundary: no error after this one retries the item.
AfterArtifact(q) == IF Out[q] = NoQueue THEN "cleanup" ELSE "put"

WriteArtifact(h) ==
  /\ h.pc = "write"
  /\ \/ /\ artifacts' = artifacts \cup {Key(h.item)}
        /\ Moved(h, AfterArtifact(h.item.queue))
     \/ /\ "write" \in Faults
        /\ Moved(h, "failed")
        /\ UNCHANGED artifacts
  /\ UNCHANGED <<queue, file, hides, nextHide, intake, accepted, lost, withdrawn>>

\* dispatchQueue: the response becomes a hide ...
PutOutput(h) ==
  /\ h.pc = "put"
  /\ \/ /\ hides' = hides \cup {nextHide}
        /\ nextHide' = nextHide + 1
        /\ held' = (held \ {h}) \cup {[h EXCEPT !.pc = "send", !.out = nextHide]}
     \/ /\ "put" \in Faults
        /\ Moved(h, "cleanup")
        /\ UNCHANGED <<hides, nextHide>>
  /\ UNCHANGED <<queue, file, intake, artifacts, accepted, lost, withdrawn>>

\* ... and an item of the output queue; an error is only logged.
SendOutput(h) ==
  LET q == Out[h.item.queue] IN
  /\ h.pc = "send"
  /\ Push(Live(q), NewItem(h.out, q))
  /\ held' = (held \ {h}) \cup {[h EXCEPT !.pc = "cleanup", !.out = 0]}
  /\ UNCHANGED <<hides, nextHide, intake, artifacts, lost, withdrawn>>

Cleanup(h) ==
  /\ h.pc = "cleanup"
  /\ \/ hides' = hides \ {h.item.hide}
     \/ "delete" \in Faults /\ UNCHANGED hides
  /\ Ended(h)
  /\ UNCHANGED <<queue, file, nextHide, intake, artifacts, accepted, lost, withdrawn>>

\* handleItemFromQueue: back to the queue while attempts remain and the
\* failure is not final, else to the dead-letter queue.
Fail(h) ==
  LET it == [h.item EXCEPT !.attempts = @ + 1]
      q  == it.queue
      retry == h.pc = "failed" /\ it.attempts < MaxAttempts[q] IN
  /\ h.pc \in {"failed", "dead"}
  /\ Push(IF retry THEN Live(q) ELSE Dlq(q), it)
  /\ Ended(h)
  /\ UNCHANGED <<hides, nextHide, intake, artifacts, lost, withdrawn>>

\* recover() in the goroutine: the slot is released, the item is gone.
Panic(h) ==
  /\ "panic" \in Faults
  /\ h.pc \in {"load", "run", "write", "put", "send", "cleanup"}
  /\ Ended(h)
  /\ lost' = IF h.pc \in BeforeArtifact THEN lost \cup {Key(h.item)} ELSE lost
  /\ UNCHANGED <<queue, file, hides, nextHide, intake, artifacts, accepted, withdrawn>>

\* The process dies and a new one loads the files.
Unsaved == UNION {Range(queue[n]) \ Range(file[n]) : n \in Names}

Crash ==
  /\ "crash" \in Faults
  /\ lost' = lost \cup {Key(it) : it \in Unsaved}
                  \cup {Key(h.item) : h \in {g \in held : g.pc \in BeforeArtifact}}
  /\ queue' = file
  /\ held' = {}
  /\ intake' = {}
  /\ UNCHANGED <<file, hides, nextHide, artifacts, accepted, withdrawn>>

\* DELETE /hides/{id}.
DeleteHide(x) ==
  /\ "operator" \in Faults
  /\ Cardinality(withdrawn) < MaxDeletes
  /\ hides' = hides \ {x}
  /\ withdrawn' = withdrawn \cup {x}
  /\ UNCHANGED <<queue, file, held, nextHide, intake, artifacts, accepted, lost>>

Handle(h) ==
  \/ Acquire(h)
  \/ Load(h)
  \/ RunAgent(h)
  \/ WriteArtifact(h)
  \/ PutOutput(h)
  \/ SendOutput(h)
  \/ Cleanup(h)
  \/ Fail(h)
  \/ Panic(h)

Next ==
  \/ PutHide
  \/ \E r \in intake : \E q \in r.todo : IntakeEnqueue(r, q) \/ IntakeFails(r, q)
  \/ \E q \in Queues : Dequeue(q)
  \/ \E h \in held : Handle(h)
  \/ Crash
  \/ \E x \in hides : DeleteHide(x)

Spec == Init /\ [][Next]_vars

\* The worker loops poll for ever and the runtime schedules every goroutine;
\* nothing obliges clients, operators or faults to act.
Fairness ==
  /\ \A q \in Queues : WF_vars(Dequeue(q))
  /\ \A q \in Queues :
       WF_vars(\E h \in held : h.item.queue = q /\ Handle(h))

FairSpec == Spec /\ Fairness

-----------------------------------------------------------------------------
\* Queues and files hold items of their own queue, handlers are in a known
\* stage and carry the hide they have put exactly while they send it.
TypeOK ==
  /\ queue \in [Names -> Seq(Item)]
  /\ file \in [Names -> Seq(Item)]
  /\ held \subseteq Handler
  /\ hides \subseteq Nat \ {0}
  /\ nextHide \in Nat \ {0}
  /\ intake \subseteq Request
  /\ artifacts \subseteq (Nat \ {0}) \X Queues
  /\ accepted \subseteq (Nat \ {0}) \X Queues
  /\ lost \subseteq (Nat \ {0}) \X Queues
  /\ withdrawn \subseteq Nat \ {0}

\* An item whose artifact was written never comes back: no queue, no file and
\* no handler that has yet to write has it, so no item gets two artifacts,
\* through retries, failed saves and restarts alike.
ArtifactOnce ==
  /\ \A n \in Names : \A it \in Range(queue[n]) \cup Range(file[n]) :
       Key(it) \notin artifacts
  /\ \A h \in held : h.pc \in BeforeArtifact => Key(h.item) \notin artifacts

\* An item that waits for work has attempts left, so none is run more than
\* max_attempts times (which ItemLife says with the guard of Start).
RetryBudget ==
  /\ \A q \in Queues : \A it \in Range(queue[Live(q)]) :
       it.attempts < MaxAttempts[q]
  /\ \A h \in held : h.item.attempts < MaxAttempts[h.item.queue]

\* A dead letter used up its attempts, or its hide does not exist any more.
DeadLetterJustified ==
  \A q \in Queues : \A it \in Range(queue[Dlq(q)]) :
    it.attempts = MaxAttempts[q] \/ it.hide \notin hides

\* docs/GUIDE.md:51: items land in the DLQ after exhausting max_attempts.
DeadLetterExhausted ==
  \A q \in Queues : \A it \in Range(queue[Dlq(q)]) : it.attempts = MaxAttempts[q]

\* No accepted item disappears: it is queued, in the hands of a handler or
\* has its artifact; or a panic hit its handler, or a crash came while a
\* handler had it or after the save of its retry had failed.
Accounted ==
  \A k \in accepted :
    \/ k \in artifacts \cup lost
    \/ \E n \in Names : \E it \in Range(queue[n]) : Key(it) = k
    \/ \E h \in held : Key(h.item) = k

\* The same item is never queued twice, or queued and in a handler, or in two
\* handlers, which would run it twice.
DistinctKeys(s) == \A i, j \in DOMAIN s : Key(s[i]) = Key(s[j]) => i = j

OneCopy ==
  /\ \A n \in Names : DistinctKeys(queue[n])
  /\ \A n, m \in Names : n # m =>
       \A it \in Range(queue[n]), jt \in Range(queue[m]) : Key(it) # Key(jt)
  /\ \A n \in Names : \A it \in Range(queue[n]), h \in held : Key(it) # Key(h.item)
  /\ \A g, h \in held : Key(g.item) = Key(h.item) => g = h

\* The hide of an item is in the store for as long as the item may be run,
\* and after that for as long as it is a dead letter, unless an operator
\* deleted it or a webhook took it back.  (True when every hide has one
\* consumer: the worker assumes that, and a fan-out breaks it.)
HideRetained ==
  LET kept == hides \cup withdrawn IN
  /\ \A n \in Names : \A it \in Range(queue[n]) : it.hide \in kept
  /\ \A h \in held : h.item.hide \in kept /\ (h.pc = "send" => h.out \in kept)

\* Every accepted item ends with an artifact or as a dead letter, unless a
\* panic or a crash took it.  Items that have ended stay so, and only so many are
\* accepted: that each of them ends is that at some moment all have.
Settled(k) ==
  \/ k \in artifacts \cup lost
  \/ \E q \in Queues : \E it \in Range(queue[Dlq(q)]) : Key(it) = k

EveryItemSettles == []<>(\A k \in accepted : Settled(k))

-----------------------------------------------------------------------------
(***************************************************************************)
(* The inductive invariant behind ArtifactOnce, OneCopy, Accounted and the *)
(* retry limits; CuringWorkerProofs proves it.                             *)
(***************************************************************************)

\* A handler forwards only when its curing has an output queue, and sends a
\* hide it has put.
Forwarding ==
  \A h \in held :
    /\ h.pc \in {"put", "send"} => Out[h.item.queue] \in Queues
    /\ h.pc = "send" => h.out # 0

\* An item is retried in the queue it was sent to.
HomeQueue == \A n \in Names : \A it \in Range(queue[n]) : it.queue = n[1]

\* What a restart would load is part of what is in memory.
FileFollows ==
  \A n \in Names : Range(file[n]) \subseteq Range(queue[n]) /\ DistinctKeys(file[n])

\* A handler past the success boundary has its artifact in the store.
PastBoundary == \A h \in held : h.pc \notin BeforeArtifact => Key(h.item) \in artifacts

\* Hide numbers are given out once.
Numbered ==
  /\ \A n \in Names : \A it \in Range(queue[n]) : it.hide < nextHide
  /\ \A h \in held : h.item.hide < nextHide
  /\ \A k \in artifacts : k[1] < nextHide
  /\ \A r \in intake : r.hide < nextHide
  /\ \A h \in held : h.pc = "send" => h.out < nextHide

Somewhere(k) ==
  \/ \E n \in Names : \E it \in Range(queue[n]) : Key(it) = k
  \/ \E h \in held : Key(h.item) = k
  \/ k \in artifacts

\* The items still to be enqueued, by a request or by a handler that forwards
\* its artifact, do not exist yet, and no two of these have the same hide.
Unsent ==
  /\ \A r \in intake : \A q \in r.todo : ~Somewhere(<<r.hide, q>>)
  /\ \A h \in held : h.pc = "send" => ~Somewhere(<<h.out, Out[h.item.queue]>>)
  /\ \A r, s \in intake : r.hide = s.hide => r = s
  /\ \A r \in intake, h \in held : h.pc = "send" => h.out # r.hide
  /\ \A g, h \in held : g.pc = "send" /\ h.pc = "send" /\ g.out = h.out => g = h

\* A failure is final only when the hide does not exist.
DeadIsMissing == \A h \in held : h.pc = "dead" => h.item.hide \notin hides

\* Who has the hide of x[1] for a consumer of queue x[2]: the items in queues
\* and handlers, and the items still to be enqueued.
UsesQueued  == {Key(it) : it \in UNION {Range(queue[n]) : n \in Names}}
UsesHeld    == {Key(h.item) : h \in held}
UsesAsked   == UNION {{<<r.hide, q>> : q \in r.todo} : r \in intake}
UsesSending == {<<h.out, Out[h.item.queue]>> : h \in {g \in held : g.pc = "send"}}
Uses        == UsesQueued \cup UsesHeld \cup UsesAsked \cup UsesSending

\* With one route, every hide has one consumer, and has it in the store until
\* that one is through, unless the hide was withdrawn.
OneConsumer == \A x, y \in Uses : x[1] = y[1] => x = y
UsesKept    == \A x \in Uses : x[1] \in hides \cup withdrawn

Inductive ==
  /\ TypeOK
  /\ Forwarding
  /\ HomeQueue
  /\ FileFollows
  /\ OneCopy
  /\ ArtifactOnce
  /\ PastBoundary
  /\ Numbered
  /\ Unsent
  /\ Accounted
  /\ RetryBudget
  /\ DeadIsMissing
  /\ DeadLetterJustified

-----------------------------------------------------------------------------
(* How far an item is, from where it is: the refinement of ItemLife.        *)

\* What was lost is nowhere, and nobody will enqueue it.
LostForGood == \A k \in lost : k[1] < nextHide /\ k \notin artifacts /\ k \notin Uses

\* The failed attempts of an item that is in a queue or in a handler.
Tries(k) ==
  (CHOOSE it \in (UNION {Range(queue[n]) : n \in Names}) \cup {h.item : h \in held} :
     Key(it) = k).attempts

StageOf(k) ==
  IF k \in UsesHeld THEN "working"
  ELSE IF \E q \in Queues : \E it \in Range(queue[Live(q)]) : Key(it) = k THEN "waiting"
  ELSE "dead"

Life ==
  [k \in artifacts \cup lost \cup UsesQueued \cup UsesHeld |->
     IF k \in artifacts THEN [stage |-> "done", tries |-> 0]
     ELSE IF k \in lost THEN [stage |-> "lost", tries |-> 0]
     ELSE [stage |-> StageOf(k), tries |-> Tries(k)]]

Items == INSTANCE ItemLife WITH life <- Life

\* Each item has the life that ItemLife allows, with every interleaving of
\* workers, failed saves, panics and restarts: a failure costs one attempt, and
\* nothing comes back that was finished, given up or lost.
ImplementsItemLife == Items!Spec
=============================================================================
