------------------------------ MODULE CuringFan ------------------------------
(***************************************************************************)
(* A fan-out and the fan-in behind it (docs/GUIDE.md, "Fan-out and         *)
(* fan-in"; examples/10-ci-gate): the legs of CuringPrefix send their      *)
(* output to the worker of CuringCollect.  They meet in the directory of   *)
(* queues: a leg that is through looks for file names with the ID of the   *)
(* hide, and a single-use queue of the collecting worker has one.          *)
(***************************************************************************)
EXTENDS CuringPrefix, CuringCollect

vars == <<setup, legVars, collectVars>>

Init ==
  /\ setup \in Setups
  /\ LegInit
  /\ CollectInit

-----------------------------------------------------------------------------
\* dispatchQueue, or a failure of it that is only logged.
Deliver(k) ==
  /\ Routed(k)
  /\ UNCHANGED setup
  /\ \/ setup.out # "none" /\ Arrive(k)
     \/ (setup.out = "none" \/ MayFail("output")) /\ UNCHANGED collectVars

\* The collecting worker's queues that have the ID of e in their name.
CollectNames(e) ==
  SingleUse /\ (e \in files \/ \E k \in parked : k[1] = e)

LegNext(k) ==
  /\ LegStep(k)
  /\ UNCHANGED <<setup, collectVars>>

ScanNext(l) ==
  /\ ScanDeletes(l) \/ ScanDeleteFails(l)
  /\ UNCHANGED <<setup, collectVars>>

Close(c) ==
  /\ \/ CloserLooks(c)
     \/ CloserDeletes(c, CollectNames(c.key[1]))
     \/ CloserUnhides(c)
     \/ CloserFails(c)
  /\ UNCHANGED <<setup, collectVars>>

Collect ==
  /\ CollectScan \/ \E g \in groups : HandleGroup(g)
  /\ UNCHANGED <<setup, legVars>>

Grow == \E i \in DOMAIN joined : Age(i) /\ UNCHANGED <<setup, legVars>>

Crash == LegCrash /\ CollectCrash /\ UNCHANGED setup

Next ==
  \/ \E e \in setup.events : (Receive(e) \/ SendFails(e)) /\ UNCHANGED <<setup, collectVars>>
  \/ \E k \in Keys : LegNext(k) \/ Deliver(k)
  \/ \E l \in Legs : ScanNext(l)
  \/ \E c \in closers : Close(c)
  \/ Collect
  \/ Grow
  \/ Crash

Spec == Init /\ [][Next]_vars

-----------------------------------------------------------------------------
TypeOK ==
  /\ setup \in Setups
  /\ LegTypeOK
  /\ CollectTypeOK

Gone(e) == \E l \in Legs : <<e, l>> \in lost

\* worker.go:482-485: the hide is deleted when no queue refers to it any more,
\* so the item of a leg that may still be run finds it.
HideOutlivesItems == \A k \in Keys : Active(k) => k[1] \in hides

\* The output of a leg went away undecided: a crash or a panic had it in its
\* hands, or a deletion of its queue in the queue.
Dropped(e) == \E l \in Legs : <<e, l>> \in dropped

Retried(e) == \E l \in Legs : tries[<<e, l>>] > 0

\* While the outputs go to a single-use queue, its file keeps the hide: no leg
\* that succeeds deletes the hide of another, however far behind that one is.
\* (A leg that fails, or whose output is not routed, may: HideOutlivesItems;
\* so does the webhook when it fails half-way, a closer that cannot read the file
\* names, and, of three legs, one whose output is deleted with the queue that a
\* crash has left empty, or that a failed eviction has left full.)
NamesKnown == \A f \in {"output", "intake", "names"} : ~MayFail(f)

SiblingsKeepHide ==
  SingleUse /\ NamesKnown =>
    \A k \in Keys : Active(k) => k[1] \in hides \/ Retried(k[1]) \/ Dropped(k[1])

\* An event is over when no queue, dead letter or handler refers to it.
Over(e) ==
  /\ e \in received
  /\ todo[e] = {}
  /\ ~LegNames(single, e) /\ ~CollectNames(e)
  /\ groups = {} /\ tick = Idle
  /\ \A l \in Legs : stage[<<e, l>>] = "none" /\ scan[l] # e
  /\ \A c \in closers : c.key[1] # e

\* worker.go:1091-1094: the scan deletes the shared hide when the last queue
\* that refers to it is collected.  Nothing deletes it later.
HideReclaimed ==
  \A e \in Events : Over(e) => e \notin hides \/ Gone(e)

\* The same while no single-use queue of a collecting worker holds the hide's
\* ID: however the legs, their retries and the scan interleave, the last one
\* deletes the hide, unless an item was lost or is dead, or a deletion failed.
HideReclaimedWithoutFanIn == ~SingleUse => HideReclaimed

-----------------------------------------------------------------------------
(* What the invariants rest on.                                            *)

\* A leg's item is in one place before its output arrives, and nowhere after.
Pending(k) == k[2] \in todo[k[1]] \/ single[k] = "item" \/ stage[k] # "none"

OneItem ==
  /\ received \subseteq setup.events
  /\ \A k \in Keys : k \in arrived \/ tries[k] > 0 => k[1] \in received
  /\ \A k \in Keys : Pending(k) =>
       k[1] \in received /\ k \notin arrived /\ tries[k] < MaxAttempts
  /\ \A k \in Keys :
       /\ k[2] \in todo[k[1]] => single[k] # "item" /\ stage[k] = "none"
       /\ single[k] = "item" => stage[k] = "none"

\* Somebody is there to delete a queue without an item.
Served(k) ==
  \/ stage[k] # "none" \/ k \in lost
  \/ \E c \in closers : c.key = k /\ c.pc \in {"look", "delete"}

EmptyIsServed == \A k \in Keys : single[k] = "empty" => Served(k)

\* Without a fan-in, a hide in the store has somebody to delete it.
Referred(e) ==
  \/ todo[e] # {} \/ LegNames(single, e)
  \/ \E l \in Legs : stage[<<e, l>>] # "none"
  \/ \E c \in closers : c.key[1] = e

HideReferred == ~SingleUse => \A e \in hides : Gone(e) \/ Referred(e)

\* With a fan-in of all legs: a group of an event has all its legs; the queue of
\* the collecting worker keeps its file from the first arrival to the last, or
\* leaves a dead letter; and the hide is there until all have arrived.
AllArrived(e) == \A l \in Legs : <<e, l>> \in arrived
Spoilt(e)     == Retried(e) \/ Dropped(e)

FileKept(e) ==
  /\ (\E l \in Legs : <<e, l>> \in arrived) => CollectNames(e) \/ AllArrived(e)
  /\ e \in files => \E l \in Legs : <<e, l>> \in arrived
  /\ tick.pc = "purge" /\ tick.event = e =>
       AllArrived(e) \/ \E k \in parked \cup KeysOf(joined) : k[1] = e

HideKept(e) ==
  /\ e \in received => e \in hides \/ AllArrived(e)
  /\ \A c \in closers : c.key[1] = e =>
       c.key \in arrived /\ (c.pc = "unhide" => AllArrived(e))

GroupsArrived ==
  /\ \A g \in groups : AllArrived(g.event) /\ \A k \in KeysOf(g.items) : k[1] = g.event
  /\ tick.pc = "evict" => tick.items # <<>> /\ \A k \in KeysOf(tick.items) : k[1] = tick.event

HideHeld ==
  SingleUse /\ NamesKnown =>
    GroupsArrived /\ \A e \in Events : Spoilt(e) \/ (FileKept(e) /\ HideKept(e))
=============================================================================
