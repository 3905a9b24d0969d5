---------------------------- MODULE CuringCollect ----------------------------
(***************************************************************************)
(* internal/curing/worker.go, runCollect and runCollectFromQueue: the      *)
(* worker of a fan-in.  It waits for Size outputs of one event, takes them *)
(* together and runs one agent on all of them; a group that stays          *)
(* incomplete for too long is evicted to the dead-letter queue.  The       *)
(* outputs of all events share one static queue, or every event has a      *)
(* single-use queue of its own.  What a failed run does to its group       *)
(* differs between the two.                                                *)
(*                                                                         *)
(* The queues are one sequence; that of event e is its items of e.  Time   *)
(* is a flag: an item is old when collect_timeout_seconds have passed      *)
(* since it was enqueued.                                                  *)
(***************************************************************************)
EXTENDS CuringEvents, Functions, Selection

CONSTANTS
  Size,             \* collect_size
  CollectAttempts,  \* max_attempts of the collecting curing
  Timeouts          \* collect_timeout_seconds is not zero

ASSUME CollectAssumption ==
  /\ Size \in Nat \ {0}
  /\ CollectAttempts \in Nat \ {0}
  /\ Timeouts \in BOOLEAN

VARIABLES
  joined,   \* the items that wait to be collected
  files,    \* events whose single-use queue has a file
  groups,   \* the handlers, each with the items it took
  tick,     \* the worker's scan and what it is about to do
  parked,   \* keys in the dead-letter queues
  decided,  \* keys that went into a decision's artifact
  dropped,  \* history: keys that left the system otherwise
  arrived   \* history: keys that were enqueued

collectVars ==
  <<joined, files, groups, tick, parked, decided, dropped, arrived>>

Member == [key : Keys, tries : Nat, old : BOOLEAN]
Idle   == [pc |-> "idle", event |-> NoEvent, items |-> <<>>]

SingleUse  == setup.out = "single"
KeysOf(s)  == {m.key : m \in Range(s)}
In(e)      == Select(joined, {m \in Range(joined) : m.key[1] = e})
Without(K) == Select(joined, {m \in Range(joined) : m.key \notin K})

CollectInit ==
  /\ joined = <<>>
  /\ files = {}
  /\ groups = {}
  /\ tick = Idle
  /\ parked = {}
  /\ decided = {}
  /\ dropped = {}
  /\ arrived = {}

\* Enqueue opens, and so creates, a single-use queue.
Put(m) ==
  /\ joined' = Append(joined, m)
  /\ files' = IF SingleUse THEN files \cup {m.key[1]} ELSE files

\* Manager.Delete, whatever the queue holds.
DeleteQueueOf(e) ==
  /\ files' = files \ {e}
  /\ joined' = Without(KeysOf(In(e)))
  /\ dropped' = dropped \cup KeysOf(In(e))

Evicting(e, then) == tick' = [pc |-> "evict", event |-> then, items |-> In(e)]
Purging(e)        == tick' = [pc |-> "purge", event |-> e, items |-> <<>>]

-----------------------------------------------------------------------------
(* Mutants, used only to test the properties: evicted items stay in the    *)
(* queue; an incomplete group is taken; stale groups are never evicted.    *)

EvictedStay(e) ==
  /\ tick.pc = "idle" /\ SingleUse /\ e \in files
  /\ Len(In(e)) < Size /\ \E m \in Range(In(e)) : m.old
  /\ Evicting(e, e)
  /\ UNCHANGED <<joined, files, groups, parked, decided, dropped, arrived>>

FirstItems(e) == SubSeq(joined, 1, Size)

NeverStale(e) == FALSE

-----------------------------------------------------------------------------
\* The output of leg k is enqueued.
Arrive(k) ==
  /\ Put([key |-> k, tries |-> 0, old |-> FALSE])
  /\ arrived' = arrived \cup {k}
  /\ UNCHANGED <<groups, tick, parked, decided, dropped>>

Age(i) ==
  /\ Timeouts
  /\ ~joined[i].old
  /\ joined' = [joined EXCEPT ![i].old = TRUE]
  /\ UNCHANGED <<files, groups, tick, parked, decided, dropped, arrived>>

-----------------------------------------------------------------------------
(* The scan of the worker.                                                 *)

Ready(e) == Len(In(e)) >= Size

\* An incomplete group is stale by its oldest item.
Stale(e) == ~Ready(e) /\ \E m \in Range(In(e)) : m.old

Complete == {e \in Events : Ready(e)}
Overdue  == {e \in Events : Stale(e)}

\* Of the events in E, e has the first item in queue order.
FirstOf(E, e) ==
  \E i \in DOMAIN joined :
    /\ joined[i].key[1] = e /\ e \in E
    /\ \A j \in 1..i - 1 : joined[j].key[1] \notin E

\* The first Size items of e, in queue order.
GroupOf(e) == SubSeq(In(e), 1, Size)

\* A handler starts with them.
Takes(e) ==
  /\ groups' = groups \cup {[event |-> e, items |-> GroupOf(e), pc |-> "run"]}
  /\ joined' = Without(KeysOf(GroupOf(e)))

\* Single-use: every queue with a file is looked at on its own.
TakesQueue(e) ==
  /\ tick.pc = "idle" /\ SingleUse /\ e \in files
  /\ Ready(e)
  /\ Takes(e)
  /\ UNCHANGED <<files, tick, parked, decided, dropped, arrived>>

FindsEmpty(e) ==
  /\ tick.pc = "idle" /\ SingleUse /\ e \in files
  /\ In(e) = <<>>
  /\ Purging(e)
  /\ UNCHANGED <<joined, files, groups, parked, decided, dropped, arrived>>

EvictsQueue(e) ==
  /\ tick.pc = "idle" /\ SingleUse /\ e \in files
  /\ Stale(e)
  /\ Evicting(e, e)
  /\ joined' = Without(KeysOf(In(e)))
  /\ UNCHANGED <<files, groups, parked, decided, dropped, arrived>>

\* The save of the eviction fails: the items stay in the queue, which is deleted
\* all the same, and they with it.
EvictionFails(e) ==
  /\ MayFail("save")
  /\ tick.pc = "idle" /\ SingleUse /\ e \in files
  /\ Stale(e)
  /\ Purging(e)
  /\ UNCHANGED <<joined, files, groups, parked, decided, dropped, arrived>>

\* Static: one stale group is evicted, then one ready group is taken.  Both
\* are chosen from one snapshot.
TakesStatic(e) ==
  /\ ~SingleUse
  /\ \/ /\ tick.pc = "idle"
        /\ Overdue = {}
        /\ FirstOf(Complete, e)
        /\ UNCHANGED tick
     \/ /\ tick.pc = "take" /\ tick.event = e
        /\ tick' = Idle
  /\ Takes(e)
  /\ UNCHANGED <<files, parked, decided, dropped, arrived>>

EvictsStatic(e) ==
  /\ tick.pc = "idle" /\ ~SingleUse
  /\ FirstOf(Overdue, e)
  /\ \E then \in Events \cup {NoEvent} :
       /\ IF Complete # {} THEN FirstOf(Complete, then) ELSE then = NoEvent
       /\ Evicting(e, then)
  /\ joined' = Without(KeysOf(In(e)))
  /\ UNCHANGED <<files, groups, parked, decided, dropped, arrived>>

\* The evicted items reach the dead-letter queue; a single-use queue is then
\* deleted, the static worker looks for a ready group.
Parks ==
  /\ tick.pc = "evict"
  /\ parked' = parked \cup KeysOf(tick.items)
  /\ tick' = IF tick.event = NoEvent THEN Idle
             ELSE [tick EXCEPT !.pc = IF SingleUse THEN "purge" ELSE "take",
                               !.items = <<>>]
  /\ UNCHANGED <<joined, files, groups, decided, dropped, arrived>>

Purges ==
  /\ tick.pc = "purge"
  /\ DeleteQueueOf(tick.event)
  /\ tick' = Idle
  /\ UNCHANGED <<groups, parked, decided, arrived>>

\* A deletion that fails is logged; the next scan comes back to the queue.
PurgeFails ==
  /\ MayFail("delete")
  /\ tick.pc = "purge"
  /\ tick' = Idle
  /\ UNCHANGED <<joined, files, groups, parked, decided, dropped, arrived>>

-----------------------------------------------------------------------------
(* The handler of a group.                                                 *)

Continues(g, h) == groups' = (groups \ {g}) \cup {h}
Finishes(g)     == groups' = groups \ {g}

\* The artifact is written and the hides of the group are deleted.
RunGroup(g) ==
  /\ g.pc = "run"
  /\ decided' = decided \cup KeysOf(g.items)
  /\ IF SingleUse THEN Continues(g, [g EXCEPT !.pc = "purge"]) ELSE Finishes(g)
  /\ UNCHANGED <<joined, files, tick, parked, dropped, arrived>>

PurgesOwn(g) ==
  /\ g.pc = "purge"
  /\ DeleteQueueOf(g.event)
  /\ Finishes(g)
  /\ UNCHANGED <<tick, parked, decided, arrived>>

PurgeOwnFails(g) ==
  /\ MayFail("delete")
  /\ g.pc = "purge"
  /\ Finishes(g)
  /\ UNCHANGED <<joined, files, tick, parked, decided, dropped, arrived>>

\* The count of the first item decides for the group.
Again(items) == items[1].tries < CollectAttempts

\* requeueOrDLQGroup: every item counts the attempt.  The static worker logs the failure.
FailGroup(g) ==
  LET counted == [i \in DOMAIN g.items |-> [g.items[i] EXCEPT !.tries = @ + 1]] IN
  /\ g.pc = "run"
  /\ MayFail("collect")
  /\ IF SingleUse
       THEN /\ Continues(g, [g EXCEPT !.items = counted,
                                      !.pc = IF Again(counted) THEN "requeue" ELSE "park"])
            /\ UNCHANGED dropped
       ELSE /\ Finishes(g)
            /\ dropped' = dropped \cup KeysOf(g.items)
  /\ UNCHANGED <<joined, files, tick, parked, decided, arrived>>

\* The items go back one by one, with the time of their first enqueue, which
\* may have become long ago.
PutsBack(g) ==
  LET m == Head(g.items) IN
  /\ g.pc \in {"requeue", "park"}
  /\ IF g.pc = "requeue"
       THEN /\ \E old \in {m.old, Timeouts} : Put([m EXCEPT !.old = old])
            /\ UNCHANGED parked
       ELSE parked' = parked \cup {m.key} /\ UNCHANGED <<joined, files>>
  /\ IF Len(g.items) = 1 THEN Finishes(g) ELSE Continues(g, [g EXCEPT !.items = Tail(@)])
  /\ UNCHANGED <<tick, decided, dropped, arrived>>

PanicInGroup(g) ==
  /\ g.pc = "run"
  /\ MayFail("panic")
  /\ dropped' = dropped \cup KeysOf(g.items)
  /\ Finishes(g)
  /\ UNCHANGED <<joined, files, tick, parked, decided, arrived>>

CollectCrash ==
  /\ MayFail("crash")
  /\ dropped' = dropped \cup KeysOf(tick.items)
                        \cup UNION {KeysOf(g.items) : g \in {h \in groups : h.pc # "purge"}}
  /\ groups' = {}
  /\ tick' = Idle
  /\ UNCHANGED <<joined, files, parked, decided, arrived>>

CollectScan ==
  \/ \E e \in Events : TakesQueue(e) \/ FindsEmpty(e) \/ EvictsQueue(e) \/ EvictionFails(e)
  \/ \E e \in Events : TakesStatic(e) \/ EvictsStatic(e)
  \/ Parks
  \/ Purges \/ PurgeFails

HandleGroup(g) ==
  \/ RunGroup(g) \/ PurgesOwn(g) \/ PurgeOwnFails(g)
  \/ FailGroup(g) \/ PutsBack(g) \/ PanicInGroup(g)

\* The worker by itself: the outputs of the legs come in any order, or never.
CollectNext ==
  /\ \/ \E k \in Keys : k[1] \in setup.events /\ k \notin arrived /\ Arrive(k)
     \/ CollectScan
     \/ \E g \in groups : HandleGroup(g)
     \/ \E i \in DOMAIN joined : Age(i)
     \/ CollectCrash
  /\ UNCHANGED setup

CollectInitially == setup \in Setups /\ CollectInit

\* The worker polls for ever, its handlers are scheduled, time passes.
CollectFairness ==
  /\ WF_<<setup, collectVars>>(CollectScan /\ UNCHANGED setup)
  /\ WF_<<setup, collectVars>>(\E g \in groups : HandleGroup(g) /\ UNCHANGED setup)
  /\ WF_<<setup, collectVars>>(\E i \in DOMAIN joined : Age(i) /\ UNCHANGED setup)

CollectSpec ==
  CollectInitially /\ [][CollectNext]_<<setup, collectVars>> /\ CollectFairness

-----------------------------------------------------------------------------
CollectTypeOK ==
  /\ joined \in Seq(Member)
  /\ files \subseteq Events
  /\ groups \subseteq
       [event : Events, items : Seq(Member), pc : {"run", "purge", "requeue", "park"}]
  /\ tick \in [pc : {"idle", "take", "evict", "purge"}, event : Events \cup {NoEvent},
               items : Seq(Member)]
  /\ parked \subseteq Keys
  /\ decided \subseteq Keys
  /\ dropped \subseteq Keys
  /\ arrived \subseteq Keys

\* An output that was delivered is in one place: it waits, a handler or an
\* eviction has it, or it is decided, parked or dropped, once and for all.
Held == KeysOf(tick.items) \cup UNION {KeysOf(g.items) : g \in {h \in groups : h.pc # "purge"}}

Where ==
  [waits |-> KeysOf(joined), held |-> Held, parked |-> parked, decided |-> decided,
   dropped |-> dropped]

DistinctKeys(s) == \A i, j \in DOMAIN s : s[i].key = s[j].key => i = j

OnePlace ==
  /\ arrived = UNION {Where[p] : p \in DOMAIN Where}
  /\ \A p, q \in DOMAIN Where : p # q => Where[p] \cap Where[q] = {}
  /\ DistinctKeys(joined)
  /\ \A g, h \in groups : g # h => KeysOf(g.items) \cap KeysOf(h.items) = {}

\* What OnePlace needs to be inductive: a group keeps apart from the eviction,
\* has no item twice, and has none left once it is decided; and the event that
\* the static worker is about to take is still complete.
GroupsApart ==
  /\ tick.pc # "evict" => tick.items = <<>>
  /\ \A g \in groups :
       /\ DistinctKeys(g.items) /\ KeysOf(g.items) \cap KeysOf(tick.items) = {}
       /\ IF g.pc = "purge" THEN KeysOf(g.items) \subseteq decided ELSE g.items # <<>>

StillReady ==
  ~SingleUse =>
    /\ tick.pc # "purge" /\ \A g \in groups : g.pc = "run"
    /\ tick.pc \in {"evict", "take"} /\ tick.event # NoEvent => Ready(tick.event)

\* worker.go:260-263: a decision is made from one event, and from all its legs.
WholeDecisions ==
  \A e \in Events : \A l, m \in Legs : <<e, l>> \in decided => <<e, m>> \in decided

\* What WholeDecisions needs: a handler runs with all the legs of its event.
GroupsWhole == \A g \in groups : g.pc = "run" => KeysOf(g.items) = {g.event} \X Legs

\* worker.go:650-658: no failed group is dropped; it is retried or dead.
NothingDropped == dropped = {}

\* model.go:798-806, collect_timeout_seconds: no output waits for ever for a leg
\* that has died; it is decided, parked or dropped in the end.
OutputsSettle == \A k \in Keys : k \in arrived ~> k \in decided \cup parked \cup dropped
=============================================================================
