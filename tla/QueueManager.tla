----------------------------- MODULE QueueManager -----------------------------
(***************************************************************************)
(* internal/queue/manager.go: the map from queue names to open FileQueues, *)
(* seen through one name.  Get and Delete lock the map, the FileQueue has  *)
(* a lock of its own, and the convenience operations (Enqueue,             *)
(* EnqueueIfAbsent) and the collection of emptied single-use queues by the *)
(* worker (internal/curing/worker.go, runPrefixScan) take them one after   *)
(* the other.  A process that keeps a handle across Delete goes on writing *)
(* the file through it.                                                    *)
(*                                                                         *)
(* Each producer enqueues one item.  A scanning worker delivers items to   *)
(* handlers, which put an item back when the agent run fails.              *)
(***************************************************************************)
EXTENDS Integers, Sequences, FiniteSets, Functions

CONSTANTS
  Producers,   \* one item each
  IfAbsent,    \* the producers that use EnqueueIfAbsent
  Id,          \* Id[p]: the item ID producer p uses
  MaxRetries,  \* bound on the failed runs of an item
  Modes,       \* the kinds of queue in this instance, static or single-use
  Missing       \* the file does not exist

ASSUME ManagerAssumption ==
  /\ IfAbsent \subseteq Producers
  /\ DOMAIN Id = Producers
  /\ MaxRetries \in Nat
  /\ Modes \subseteq [producers : SUBSET Producers, singleUse : BOOLEAN]
  /\ Missing \notin Seq(Producers)

VARIABLES
  mode,       \* who enqueues, and whether the worker deletes the emptied queue
  current,    \* the handle the map has for the name, 0 for none
  handles,    \* handles[h]: the slice of FileQueue h
  disk,       \* the JSONL file behind the name
  pc,         \* pc[p]: where the item of producer p is in its life
  at,         \* at[p]: the handle the thread enqueueing that item got
  retries,    \* retries[p]: the failed runs of the item
  delivered,  \* delivered[p]: how often a worker got the item
  scanner,    \* the scanning worker: its stage and its handle
  closers     \* handlers past their item, collecting the queue

managerVars == <<mode, current, handles, disk, pc, at, retries, delivered, scanner, closers>>

Stages == {"start", "got", "absent", "skipped", "queued", "busy", "retry", "done"}
Thread == [pc : {"idle", "get", "look", "forget", "remove"}, at : Nat]
Closer == [by : Producers, run : Nat, pc : {"get", "look", "forget", "remove"}, at : Nat]

ManagerInit ==
  /\ mode \in Modes
  /\ current = 0
  /\ handles = <<>>
  /\ disk = Missing
  /\ pc = [p \in Producers |-> "start"]
  /\ at = [p \in Producers |-> 0]
  /\ retries = [p \in Producers |-> 0]
  /\ delivered = [p \in Producers |-> 0]
  /\ scanner = [pc |-> "idle", at |-> 0]
  /\ closers = {}

\* An operation of handle h that leaves it with the items s and saves them.
Write(h, s) ==
  /\ handles' = [handles EXCEPT ![h] = s]
  /\ disk' = s

\* Only the first enqueue of a producer may be the conditional one.
Checks(p)     == p \in IfAbsent /\ retries[p] = 0
MayEnqueue(p) == pc[p] = "absent" \/ (pc[p] = "got" /\ ~Checks(p))

-----------------------------------------------------------------------------
(***************************************************************************)
(* Mutant, used only to test the properties: a Get that opens the file     *)
(* before it takes the lock, and puts its handle in the place of another   *)
(* caller's.                                                               *)
(***************************************************************************)
GetOpensAgain ==
  /\ handles' = Append(handles, IF disk = Missing THEN <<>> ELSE disk)
  /\ current' = Len(handles) + 1

-----------------------------------------------------------------------------
\* load(): a missing file is an empty queue.
LoadedFile == IF disk = Missing THEN <<>> ELSE disk

\* Get under the map's lock: the handle of the map, or a new one that loads
\* the file.
Got == IF current # 0 THEN current ELSE Len(handles) + 1

Get ==
  IF current # 0
    THEN UNCHANGED <<current, handles>>
    ELSE /\ handles' = Append(handles, LoadedFile)
         /\ current' = Got

-----------------------------------------------------------------------------
(* Manager.Enqueue and EnqueueIfAbsent of the producers; Manager.Enqueue   *)
(* of a handler whose run failed.                                          *)

GetForEnqueue(p) ==
  /\ p \in mode.producers
  /\ pc[p] \in {"start", "retry"}
  /\ Get
  /\ at' = [at EXCEPT ![p] = Got]
  /\ pc' = [pc EXCEPT ![p] = "got"]
  /\ UNCHANGED <<mode, disk, retries, delivered, scanner, closers>>

\* EnqueueIfAbsent scans the queue and returns when it finds the ID.
ScanForId(p) ==
  /\ pc[p] = "got"
  /\ Checks(p)
  /\ pc' = [pc EXCEPT ![p] =
              IF \E q \in Range(handles[at[p]]) : Id[q] = Id[p]
                THEN "skipped" ELSE "absent"]
  /\ UNCHANGED <<mode, current, handles, disk, at, retries, delivered, scanner, closers>>

\* The handler that retried its item goes on to collect the queue.
ManagerEnqueue(p) ==
  /\ MayEnqueue(p)
  /\ Write(at[p], Append(handles[at[p]], p))
  /\ pc' = [pc EXCEPT ![p] = "queued"]
  /\ closers' = IF retries[p] > 0 /\ mode.singleUse
                  THEN closers \cup {[by |-> p, run |-> retries[p], pc |-> "get", at |-> 0]}
                  ELSE closers
  /\ UNCHANGED <<mode, current, at, retries, delivered, scanner>>

-----------------------------------------------------------------------------
(* The worker that scans the queue, and the handlers.                      *)

Taken(s) == Tail(s)

\* NamesWithPrefix lists the file, then Get.
ScanGet ==
  /\ scanner.pc = "idle"
  /\ disk # Missing
  /\ Get
  /\ scanner' = [pc |-> "look", at |-> Got]
  /\ UNCHANGED <<mode, disk, pc, at, retries, delivered, closers>>

ScanDequeue ==
  LET s == handles[scanner.at] IN
  /\ scanner.pc = "look"
  /\ s # <<>>
  /\ Write(scanner.at, Taken(s))
  /\ pc' = [pc EXCEPT ![Head(s)] = "busy"]
  /\ delivered' = [delivered EXCEPT ![Head(s)] = @ + 1]
  /\ scanner' = [pc |-> "idle", at |-> 0]
  /\ UNCHANGED <<mode, current, at, retries, closers>>

\* An empty queue on disk is taken for a stale file.
ScanFindsEmpty ==
  /\ scanner.pc = "look"
  /\ handles[scanner.at] = <<>>
  /\ scanner' = IF mode.singleUse THEN [pc |-> "forget", at |-> 0]
                             ELSE [pc |-> "idle", at |-> 0]
  /\ UNCHANGED <<mode, current, handles, disk, pc, at, retries, delivered, closers>>

\* Delete: the map first, the file after the lock is released.
ForgetHandle == current' = 0

ScanForget ==
  /\ scanner.pc = "forget"
  /\ ForgetHandle
  /\ scanner' = [pc |-> "remove", at |-> 0]
  /\ UNCHANGED <<mode, handles, disk, pc, at, retries, delivered, closers>>

ScanRemove ==
  /\ scanner.pc = "remove"
  /\ disk' = Missing
  /\ scanner' = [pc |-> "idle", at |-> 0]
  /\ UNCHANGED <<mode, current, handles, pc, at, retries, delivered, closers>>

\* The handler: success, or another attempt.
RunSucceeds(p) ==
  /\ pc[p] = "busy"
  /\ pc' = [pc EXCEPT ![p] = "done"]
  /\ closers' = IF mode.singleUse
                  THEN closers \cup {[by |-> p, run |-> retries[p] + 1, pc |-> "get", at |-> 0]}
                  ELSE closers
  /\ UNCHANGED <<mode, current, handles, disk, at, retries, delivered, scanner>>

RunFails(p) ==
  /\ pc[p] = "busy"
  /\ retries[p] < MaxRetries
  /\ retries' = [retries EXCEPT ![p] = @ + 1]
  /\ pc' = [pc EXCEPT ![p] = "retry"]
  /\ UNCHANGED <<mode, current, handles, disk, at, delivered, scanner, closers>>

Step(c, new) == closers' = (closers \ {c}) \cup {new}

\* After its item a handler gets the queue again and deletes it if empty.
CloserGet(c) ==
  /\ c.pc = "get"
  /\ Get
  /\ Step(c, [c EXCEPT !.pc = "look", !.at = Got])
  /\ UNCHANGED <<mode, disk, pc, at, retries, delivered, scanner>>

CloserLooks(c) ==
  /\ c.pc = "look"
  /\ closers' = IF handles[c.at] = <<>>
                  THEN (closers \ {c}) \cup {[c EXCEPT !.pc = "forget", !.at = 0]}
                  ELSE closers \ {c}
  /\ UNCHANGED <<mode, current, handles, disk, pc, at, retries, delivered, scanner>>

CloserForgets(c) ==
  /\ c.pc = "forget"
  /\ ForgetHandle
  /\ Step(c, [c EXCEPT !.pc = "remove"])
  /\ UNCHANGED <<mode, handles, disk, pc, at, retries, delivered, scanner>>

CloserRemoves(c) ==
  /\ c.pc = "remove"
  /\ disk' = Missing
  /\ closers' = closers \ {c}
  /\ UNCHANGED <<mode, current, handles, pc, at, retries, delivered, scanner>>

Producer(p) ==
  \/ GetForEnqueue(p)
  \/ ScanForId(p)
  \/ ManagerEnqueue(p)
  \/ RunSucceeds(p)
  \/ RunFails(p)

Scan ==
  \/ ScanGet
  \/ ScanDequeue
  \/ ScanFindsEmpty
  \/ ScanForget
  \/ ScanRemove

Close(c) ==
  \/ CloserGet(c)
  \/ CloserLooks(c)
  \/ CloserForgets(c)
  \/ CloserRemoves(c)

ManagerNext ==
  \/ \E p \in Producers : Producer(p)
  \/ Scan
  \/ \E c \in closers : Close(c)

ManagerSpec == ManagerInit /\ [][ManagerNext]_managerVars

-----------------------------------------------------------------------------
\* Handles are allocated in order, and threads hold allocated ones.
ManagerTypeOK ==
  /\ mode \in Modes
  /\ handles \in Seq(Seq(Producers))
  /\ current \in 0..Len(handles)
  /\ disk = Missing \/ disk \in Seq(Producers)
  /\ pc \in [Producers -> Stages]
  /\ at \in [Producers -> 0..Len(handles)]
  /\ retries \in [Producers -> 0..MaxRetries]
  /\ delivered \in [Producers -> Nat]
  /\ scanner \in Thread /\ scanner.at <= Len(handles)
  /\ closers \subseteq Closer
  /\ \A p \in Producers : pc[p] \in {"got", "absent"} => at[p] >= 1
  /\ scanner.pc = "look" => scanner.at >= 1

\* docs/GUIDE.md:50: a queue is durable.  An item whose Enqueue returned is in
\* the file until a worker gets it, whatever other threads do to the name.
QueuedIsDurable ==
  \A p \in Producers :
    pc[p] = "queued" => disk # Missing /\ p \in Range(disk)

\* Of a static queue, which nobody deletes, that is true.
StaticIsDurable == ~mode.singleUse => QueuedIsDurable

\* A worker gets an item once for each time it was enqueued, however many threads
\* ask for the queue by its name and whatever producers and retries meet in it: of
\* a static queue always, of a single-use one until a Delete comes under one of
\* them (two handles may then both hold an item that was enqueued through the
\* deleted one).
DeliveredOnce ==
  ~mode.singleUse \/ Len(handles) <= 1 =>
    \A p \in Producers : delivered[p] <= retries[p] + 1

-----------------------------------------------------------------------------
\* What StaticIsDurable needs to be inductive: nobody deletes a static queue, so
\* there is one handle, which the map keeps and whose slice is the file.
OneHandle ==
  ~mode.singleUse =>
    /\ closers = {} /\ scanner.pc \in {"idle", "look"}
    /\ Len(handles) <= 1
    /\ IF handles = <<>> THEN disk = Missing ELSE current = 1 /\ LoadedFile = handles[1]

\* What DeliveredOnce needs: until there is a second handle, the queue has the
\* items that are queued, each once, and the attempts are counted.
QueuedOnce ==
  Len(handles) <= 1 =>
    /\ handles = <<>> => disk = Missing
    /\ \A h \in DOMAIN handles :
         /\ \A i, j \in DOMAIN handles[h] : handles[h][i] = handles[h][j] => i = j
         /\ \A p \in Range(handles[h]) : pc[p] = "queued"
    /\ \A p \in Producers :
         delivered[p] <= (IF pc[p] \in {"busy", "done"} THEN retries[p] + 1 ELSE retries[p])

ManagerInductive == ManagerTypeOK /\ OneHandle /\ StaticIsDurable /\ QueuedOnce
=============================================================================
