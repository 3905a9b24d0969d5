---------------------------- MODULE CuringPrefix ----------------------------
(***************************************************************************)
(* internal/curing/worker.go, runPrefixScan: the workers of single-use     *)
(* queues.  A webhook stores one hide for an event and puts one item into  *)
(* a queue of its own for every route (leg); the name of that queue holds  *)
(* the hide's ID.  The worker of a leg scans the directory, starts a       *)
(* handler per item, deletes queues it finds empty, and a handler that is  *)
(* through with its item deletes its queue and then the shared hide, when  *)
(* no file name in the directory mentions the hide any more.               *)
(*                                                                         *)
(* This module has the legs; CuringFan composes them with the collecting   *)
(* worker their output goes to.  Manager.Delete is one step here, which    *)
(* may fail; what can happen inside it is the subject of QueueManager, and *)
(* what a failed save does to a queue that of FileQueue and CuringWorker.  *)
(***************************************************************************)
EXTENDS CuringEvents

CONSTANT MaxAttempts  \* max_attempts of the leg curings

ASSUME LegAssumption == MaxAttempts \in Nat \ {0}

VARIABLES
  todo,      \* todo[e]: the routes the webhook has yet to enqueue
  hides,     \* events whose hide is in the store
  received,  \* events whose webhook has come
  single,    \* single[k]: the queue file of k: absent, empty, or with the item
  dead,      \* keys with an item in their "-dlq" queue
  tries,     \* tries[k]: the item's AttemptCount
  stage,     \* stage[k]: the handler of the item, "none" without one
  closers,   \* handlers that are through with their item
  scan,      \* scan[l]: the event whose queue the scan found empty
  written,   \* keys with an artifact
  lost       \* history: keys whose item or handler a deletion, a panic or a crash took,
             \* or whose clean-up failed

legVars ==
  <<todo, hides, received, single, dead, tries, stage, closers, scan, written, lost>>

Stages  == {"none", "waiting", "running", "written", "failed", "missing"}
Closing == {"look", "delete", "unhide"}

LegInit ==
  /\ todo = [e \in Events |-> {}]
  /\ hides = {}
  /\ received = {}
  /\ single = [k \in Keys |-> "absent"]
  /\ dead = {}
  /\ tries = [k \in Keys |-> 0]
  /\ stage = [k \in Keys |-> "none"]
  /\ closers = {}
  /\ scan = [l \in Legs |-> NoEvent]
  /\ written = {}
  /\ lost = {}

Becomes(k, s) == stage' = [stage EXCEPT ![k] = s]

\* A handler at the end of its item: the run number tells it from the others
\* that closed the same queue.
Closes(k) == closers' = closers \cup {[key |-> k, run |-> tries[k], pc |-> "look"]}

\* Manager.Delete: an item that is in the file goes with it.
DeleteQueue(k) ==
  /\ single' = [single EXCEPT ![k] = "absent"]
  /\ lost' = IF single[k] = "item" THEN lost \cup {k} ELSE lost

Proceeds(c, pc) == closers' = (closers \ {c}) \cup {[c EXCEPT !.pc = pc]}
Ends(c)         == closers' = closers \ {c}

\* NamesContaining over the queues of the legs.
LegNames(q, e) == \E l \in Legs : q[<<e, l>>] # "absent" \/ <<e, l>> \in dead

(* Mutants, used only to test the properties: the hide is deleted without a *)
(* look for other queues; the file names are read before the own queue is   *)
(* gone.                                                                    *)

NamesIgnored(c, others) ==
  /\ c.pc = "delete"
  /\ DeleteQueue(c.key)
  /\ Proceeds(c, "unhide")
  /\ UNCHANGED <<todo, hides, received, dead, tries, stage, scan, written>>

NamesBeforeDelete(c, others) ==
  /\ c.pc = "delete"
  /\ DeleteQueue(c.key)
  /\ IF others \/ LegNames(single, c.key[1]) THEN Ends(c) ELSE Proceeds(c, "unhide")
  /\ UNCHANGED <<todo, hides, received, dead, tries, stage, scan, written>>

-----------------------------------------------------------------------------
(* The webhook.                                                            *)

Receive(e) ==
  /\ e \notin received
  /\ received' = received \cup {e}
  /\ hides' = hides \cup {e}
  /\ todo' = [todo EXCEPT ![e] = Legs]
  /\ UNCHANGED <<single, dead, tries, stage, closers, scan, written, lost>>

Send(e, l) ==
  /\ l \in todo[e]
  /\ todo' = [todo EXCEPT ![e] = @ \ {l}]
  /\ single' = [single EXCEPT ![<<e, l>>] = "item"]
  /\ UNCHANGED <<hides, received, dead, tries, stage, closers, scan, written, lost>>

\* An enqueue fails: the rest is not sent, and the hide is taken back, also
\* from the items that are on their way.
SendFails(e) ==
  /\ MayFail("intake")
  /\ todo[e] # {}
  /\ todo' = [todo EXCEPT ![e] = {}]
  /\ hides' = hides \ {e}
  /\ UNCHANGED <<received, single, dead, tries, stage, closers, scan, written, lost>>

-----------------------------------------------------------------------------
(* The scan of the worker of leg l.                                        *)

ScanTakes(l, e) ==
  /\ scan[l] = NoEvent
  /\ single[<<e, l>>] = "item"
  /\ single' = [single EXCEPT ![<<e, l>>] = "empty"]
  /\ Becomes(<<e, l>>, "waiting")
  /\ UNCHANGED <<todo, hides, received, dead, tries, closers, scan, written, lost>>

\* A queue without an item is a stale file, to be deleted ...
ScanFindsEmpty(l, e) ==
  /\ scan[l] = NoEvent
  /\ single[<<e, l>>] = "empty"
  /\ scan' = [scan EXCEPT ![l] = e]
  /\ UNCHANGED <<todo, hides, received, single, dead, tries, stage, closers, written, lost>>

\* ... whatever has been put into it since.
ScanDeletes(l) ==
  /\ scan[l] # NoEvent
  /\ DeleteQueue(<<scan[l], l>>)
  /\ scan' = [scan EXCEPT ![l] = NoEvent]
  /\ UNCHANGED <<todo, hides, received, dead, tries, stage, closers, written>>

\* A failure is logged; the next scan comes back to the queue.
ScanDeleteFails(l) ==
  /\ MayFail("delete")
  /\ scan[l] # NoEvent
  /\ scan' = [scan EXCEPT ![l] = NoEvent]
  /\ UNCHANGED <<todo, hides, received, single, dead, tries, stage, closers, written, lost>>

-----------------------------------------------------------------------------
(* The handler of item k = <<e, l>>.                                       *)

\* The hide is loaded into memory; a missing one is a final failure.
LoadHide(k) ==
  /\ stage[k] = "waiting"
  /\ Becomes(k, IF k[1] \in hides THEN "running" ELSE "missing")
  /\ UNCHANGED <<todo, hides, received, single, dead, tries, closers, scan, written, lost>>

\* The agent run and the artifact.
RunLeg(k) ==
  /\ stage[k] = "running"
  /\ \/ Becomes(k, "written") /\ written' = written \cup {k}
     \/ MayFail("leg") /\ Becomes(k, "failed") /\ UNCHANGED written
  /\ UNCHANGED <<todo, hides, received, single, dead, tries, closers, scan, lost>>

\* The output was routed, or its routing failed and was logged.  The hide stays.
Routed(k) ==
  /\ stage[k] = "written"
  /\ Becomes(k, "none")
  /\ UNCHANGED tries
  /\ Closes(k)
  /\ UNCHANGED <<todo, hides, received, single, dead, scan, written, lost>>

\* Back to the queue, or to its dead-letter queue.
Retry(k) ==
  LET again == stage[k] = "failed" /\ tries[k] + 1 < MaxAttempts IN
  /\ stage[k] \in {"failed", "missing"}
  /\ tries' = [tries EXCEPT ![k] = @ + 1]
  /\ IF again
       THEN single' = [single EXCEPT ![k] = "item"] /\ UNCHANGED dead
       ELSE dead' = dead \cup {k} /\ UNCHANGED single
  /\ Becomes(k, "none")
  /\ Closes(k)
  /\ UNCHANGED <<todo, hides, received, scan, written, lost>>

\* A panic ends the handler before it closes anything.
PanicInLeg(k) ==
  /\ MayFail("panic")
  /\ stage[k] \in {"running", "written"}
  /\ lost' = lost \cup {k}
  /\ Becomes(k, "none")
  /\ UNCHANGED <<todo, hides, received, single, dead, tries, closers, scan, written>>

-----------------------------------------------------------------------------
(* What a handler does after its item.                                     *)

\* Get opens a queue that was deleted, and finds it empty.
CloserLooks(c) ==
  /\ c.pc = "look"
  /\ IF single[c.key] = "item" THEN Ends(c) ELSE Proceeds(c, "delete")
  /\ UNCHANGED <<todo, hides, received, single, dead, tries, stage, scan, written, lost>>

\* The queue is deleted, and the file names are looked through for the hide's
\* ID; an error of that look is ignored, and counts as no name.  others: a queue
\* that is not a leg's has it in its name.
CloserDeletes(c, others) ==
  /\ c.pc = "delete"
  /\ DeleteQueue(c.key)
  /\ \/ (others \/ LegNames(single', c.key[1])) /\ Ends(c)
     \/ (~(others \/ LegNames(single', c.key[1])) \/ MayFail("names")) /\ Proceeds(c, "unhide")
  /\ UNCHANGED <<todo, hides, received, dead, tries, stage, scan, written>>

CloserUnhides(c) ==
  /\ c.pc = "unhide"
  /\ hides' = hides \ {c.key[1]}
  /\ Ends(c)
  /\ UNCHANGED <<todo, received, single, dead, tries, stage, scan, written, lost>>

\* The queue does not open, or the deletion of the queue or of the hide fails:
\* what is left stays, and the handler is not there to try again.
CloserFails(c) ==
  /\ MayFail("delete")
  /\ Ends(c)
  /\ lost' = lost \cup {c.key}
  /\ UNCHANGED <<todo, hides, received, single, dead, tries, stage, scan, written>>

\* The process dies; the next one finds the files.
LegCrash ==
  /\ MayFail("crash")
  /\ lost' = lost \cup {k \in Keys : stage[k] # "none" \/ k[2] \in todo[k[1]]}
                  \cup {c.key : c \in closers}
  /\ stage' = [k \in Keys |-> "none"]
  /\ closers' = {}
  /\ scan' = [l \in Legs |-> NoEvent]
  /\ todo' = [e \in Events |-> {}]
  /\ UNCHANGED <<hides, received, single, dead, tries, written>>

LegStep(k) ==
  \/ Send(k[1], k[2])
  \/ ScanTakes(k[2], k[1])
  \/ ScanFindsEmpty(k[2], k[1])
  \/ LoadHide(k)
  \/ RunLeg(k)
  \/ Retry(k)
  \/ PanicInLeg(k)

-----------------------------------------------------------------------------
LegTypeOK ==
  /\ todo \in [Events -> SUBSET Legs]
  /\ hides \subseteq received
  /\ received \subseteq Events
  /\ single \in [Keys -> {"absent", "empty", "item"}]
  /\ dead \subseteq Keys
  /\ tries \in [Keys -> 0..MaxAttempts]
  /\ stage \in [Keys -> Stages]
  /\ closers \subseteq [key : Keys, run : 0..MaxAttempts, pc : Closing]
  /\ scan \in [Legs -> Events \cup {NoEvent}]
  /\ written \subseteq Keys
  /\ lost \subseteq Keys

\* The item of k is in the hands of the system and may still be run.
Active(k) ==
  \/ k[2] \in todo[k[1]]
  \/ single[k] = "item"
  \/ stage[k] \in {"waiting", "running", "failed"}
=============================================================================
