------------------------------ MODULE FileQueue ------------------------------
(***************************************************************************)
(* internal/queue/queue.go: one FileQueue, that is a slice of items in     *)
(* memory and the JSONL file that every operation rewrites through a       *)
(* temporary file and a rename (internal/fileutil).  The mutex makes each  *)
(* operation one step; the rename makes a save all or nothing, so the only *)
(* faults are a save that fails and a crash between two operations.        *)
(*                                                                         *)
(* An entry is one call of Enqueue, known by its ticket; its id is what    *)
(* DequeueByIDs selects on and two entries may share it.                   *)
(***************************************************************************)
EXTENDS Selection, Functions

CONSTANTS
  Ids,          \* item IDs in use
  MaxEnqueues,  \* bound on the calls of Enqueue
  FailingOps,   \* the operations whose save() may fail in this instance
  NoFile        \* the JSONL file does not exist

Ops == {"Enqueue", "Dequeue", "DequeueByIDs", "Drain"}

Entry == [ticket : 1..MaxEnqueues, id : Ids]

ASSUME ConstantsAssumption ==
  /\ MaxEnqueues \in Nat
  /\ FailingOps \subseteq Ops
  /\ NoFile \notin Seq(Entry)    \* no file is not a file of entries

VARIABLES
  items,    \* q.items of the open handle; <<>> while no process has one
  file,     \* the items the JSONL file holds
  open,     \* a process has the queue open
  issued,   \* number of Enqueue calls so far
  erred,    \* entries whose Enqueue returned an error
  handed,   \* entries returned to a caller by a removing operation
  jumped,   \* entries a failed DequeueByIDs put back at the front
  dropped   \* entries a failed Drain took out of the slice

vars == <<items, file, open, issued, erred, handed, jumped, dropped>>

Selected(S)   == Select(items, {e \in Entry : e.id \in S})
Unselected(S) == Select(items, {e \in Entry : e.id \notin S})

\* Mutant of Saved: the old file stays when a file exists.
SaveSkipped == file' = IF file = NoFile THEN items' ELSE file

\* save(): the file takes the slice as it stands after the operation ...
Saved == file' = items'
\* ... or AtomicWriteFileFunc reports an error and leaves the file alone.
SaveFails(op) == op \in FailingOps /\ UNCHANGED file

Init ==
  /\ items = <<>>
  /\ file = NoFile
  /\ open = TRUE
  /\ issued = 0
  /\ erred = {}
  /\ handed = {}
  /\ jumped = {}
  /\ dropped = {}

(***************************************************************************)
(* Mutant, used only to test the properties: a restart that does not load  *)
(* the file.                                                               *)
(***************************************************************************)
OpenWithoutLoad ==
  /\ ~open
  /\ open' = TRUE
  /\ items' = <<>>
  /\ UNCHANGED <<file, issued, erred, handed, jumped, dropped>>

-----------------------------------------------------------------------------
\* The slice keeps the item whether or not the save succeeds.
Enqueue(id) ==
  LET e == [ticket |-> issued + 1, id |-> id] IN
  /\ open
  /\ issued < MaxEnqueues
  /\ issued' = issued + 1
  /\ items' = Append(items, e)
  /\ \/ Saved /\ UNCHANGED erred
     \/ SaveFails("Enqueue") /\ erred' = erred \cup {e}
  /\ UNCHANGED <<open, handed, jumped, dropped>>

\* A failed save puts the head back.
Dequeue ==
  /\ open
  /\ items # <<>>
  /\ \/ /\ items' = Tail(items)
        /\ Saved
        /\ handed' = handed \cup {Head(items)}
     \/ /\ SaveFails("Dequeue")
        /\ UNCHANGED <<items, handed>>
  /\ UNCHANGED <<open, issued, erred, jumped, dropped>>

\* A failed save puts the matched items back in front of the others.
DequeueByIDs(S) ==
  /\ open
  /\ Selected(S) # <<>>
  /\ \/ /\ items' = Unselected(S)
        /\ Saved
        /\ handed' = handed \cup Range(Selected(S))
        /\ UNCHANGED jumped
     \/ /\ SaveFails("DequeueByIDs")
        /\ items' = Selected(S) \o Unselected(S)
        /\ jumped' = jumped \cup Range(Selected(S))
        /\ UNCHANGED handed
  /\ UNCHANGED <<open, issued, erred, dropped>>

\* The slice is emptied before the save and stays empty when it fails; the
\* callers (the HTTP API) discard the returned items then.
Drain ==
  /\ open
  /\ items' = <<>>
  /\ \/ /\ Saved
        /\ handed' = handed \cup Range(items)
        /\ UNCHANGED dropped
     \/ /\ SaveFails("Drain")
        /\ dropped' = dropped \cup Range(items)
        /\ UNCHANGED handed
  /\ UNCHANGED <<open, issued, erred, jumped>>

Crash ==
  /\ open
  /\ open' = FALSE
  /\ items' = <<>>
  /\ UNCHANGED <<file, issued, erred, handed, jumped, dropped>>

\* NewFileQueue and load: the slice is read back; a missing file is an empty
\* queue.  A load that fails gives no handle and changes nothing, so it is a
\* step that leaves all as it is; a line that no save wrote is not modelled.
Loaded == IF file = NoFile THEN <<>> ELSE file

Open ==
  /\ ~open
  /\ open' = TRUE
  /\ items' = Loaded
  /\ UNCHANGED <<file, issued, erred, handed, jumped, dropped>>

Next ==
  \/ \E id \in Ids : Enqueue(id)
  \/ Dequeue
  \/ \E S \in SUBSET Ids : DequeueByIDs(S)
  \/ Drain
  \/ Crash
  \/ Open

Spec == Init /\ [][Next]_vars

-----------------------------------------------------------------------------
Entries == {e \in Entry : e.ticket <= issued}

\* The slice and the file hold entries that were enqueued; the history is
\* made of such entries.
TypeOK ==
  /\ items \in Seq(Entries)
  /\ file = NoFile \/ file \in Seq(Entries)
  /\ open \in BOOLEAN
  /\ issued \in 0..MaxEnqueues
  /\ erred \cup handed \cup jumped \cup dropped \subseteq Entries

Durable(t, excused) ==
  \/ \E e \in excused : e.ticket = t
  \/ \E e \in Range(Loaded) : e.ticket = t

\* An entry whose Enqueue succeeded is on disk until a caller gets it, or
\* until a Drain that fails: a crash at any moment finds it.
AckedIsDurable == \A t \in 1..issued : Durable(t, erred \cup handed \cup dropped)

\* docs/GUIDE.md:50 promises a durable on-disk FIFO: an acknowledged entry is
\* on disk until a caller gets it, without the exception for Drain.
DurableQueue == \A t \in 1..issued : Durable(t, erred \cup handed)

-----------------------------------------------------------------------------
(* Why an entry is durable, and why the queue is a FIFO.                    *)

Distinct(s) == \A i, j \in DOMAIN s : s[i].ticket = s[j].ticket => i = j

\* What the file has and the slice does not, a failed Drain has dropped.
FileBehind == open => Range(Loaded) \subseteq Range(items) \cup dropped

\* While the promise of DurableFifo holds, the file is the slice without the
\* entries whose save failed.
FileFollows ==
  open /\ jumped = {} /\ dropped = {} =>
    /\ Loaded = Select(items, Range(Loaded))
    /\ Range(items) \ Range(Loaded) \subseteq erred

Inductive ==
  /\ TypeOK
  /\ Distinct(items) /\ Distinct(Loaded)
  /\ FileBehind
  /\ FileFollows
  /\ AckedIsDurable

-----------------------------------------------------------------------------
\* The queue a caller sees: the slice, or what the next process will load.
Fifo0 == INSTANCE DurableFifo
           WITH pending <- IF open THEN items ELSE Loaded,
                unsure <- erred, intact <- jumped = {} /\ dropped = {}, Entries <- Entry

\* FileQueue implements the queue DurableFifo promises.
ImplementsDurableFifo == Fifo0!Spec
=============================================================================
