------------------------------ MODULE HttpPoll ------------------------------
(***************************************************************************)
(* internal/worker: the supervisor and its HTTP polling worker, which puts *)
(* what the endpoint lists into the queue of the agents.  It knows what it *)
(* has put by a set in memory; a new worker takes every item out of the    *)
(* queue and puts it back to learn their keys.  A worker runs until the    *)
(* context is cancelled.                                                   *)
(*                                                                         *)
(* A Retry-After only makes it poll later, and is left out.                *)
(***************************************************************************)
EXTENDS AgentQueue

VARIABLES
  pc,      \* "none", "seed", "refill", "idle" or "polled"
  left,    \* items the seeding has still to take
  taken,   \* items it has taken and not put back
  listed,  \* keys of the answer that are not handled yet
  seen     \* the dedup set

pollVars == <<pc, left, taken, listed, seen>>

NoPoller == pc = "none" /\ left = 0 /\ taken = <<>> /\ listed = {} /\ seen = {}
Stopped  == pc' = "none" /\ left' = 0 /\ taken' = <<>> /\ listed' = {} /\ seen' = {}

\* A mutant: a new worker knows nothing of what is in the queue.
SeenNothing(k) == seen

-----------------------------------------------------------------------------
\* newHTTPPollWorker: seedSeen reads the length once.
NewPoller ==
  /\ pc' = "seed" /\ left' = Len(queue["in"])
  /\ taken' = <<>> /\ listed' = {} /\ seen' = {}

rest == <<schedVars, done, gone, accepted, jobCount>>

\* An item, an error, or a queue that somebody else has emptied.
SeedTakes ==
  /\ pc = "seed" /\ left > 0
  /\ \/ Dequeue("in", pc' = "seed" /\ left' = left - 1 /\ taken' = Append(taken, Head(queue["in"])),
                      pc' = "refill" /\ left' = 0 /\ taken' = taken)
     \/ /\ queue["in"] = <<>>
        /\ pc' = "refill" /\ left' = 0 /\ taken' = taken
        /\ UNCHANGED <<queue, file, faults>>
  /\ UNCHANGED <<rest, listed, seen>>

SeedTaken ==
  /\ pc = "seed" /\ left = 0
  /\ pc' = "refill"
  /\ UNCHANGED <<rest, queue, file, faults, left, taken, listed, seen>>

Learned(k) == seen \cup {k}

\* The key is known even when the item's save fails.
SeedPutsBack ==
  /\ pc = "refill" /\ taken # <<>>
  /\ Enqueue("in", Head(taken), TRUE, TRUE)
  /\ seen' = Learned(Head(taken).key)
  /\ taken' = Tail(taken)
  /\ UNCHANGED <<rest, pc, left, listed>>

Seeded == pc = "refill" /\ taken = <<>>

\* poll: an answer lists some of the items of the endpoint.
Poll(offered) ==
  /\ pc = "idle"
  /\ listed' \in (SUBSET offered) \ {{}} /\ pc' = "polled"
  /\ UNCHANGED <<rest, queue, file, faults, left, taken, seen>>

\* An item whose save failed is not known, though it is in the slice.
Answer(k) ==
  /\ pc = "polled" /\ k \in listed
  /\ listed' = listed \ {k}
  /\ pc' = IF listed' = {} THEN "idle" ELSE "polled"
  /\ IF k \in seen
       THEN UNCHANGED <<queue, file, faults, seen, accepted>>
       ELSE Enqueue("in", [key |-> k, tries |-> 0],
                    seen' = seen \cup {k} /\ accepted' = accepted \cup {k},
                    seen' = seen /\ accepted' = accepted)
  /\ UNCHANGED <<schedVars, done, gone, jobCount, left, taken>>

PollStep(offered) ==
  \/ SeedTakes \/ SeedTaken \/ SeedPutsBack
  \/ Poll(offered) \/ \E k \in Keys : Answer(k)
=============================================================================
