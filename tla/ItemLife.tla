------------------------------ MODULE ItemLife ------------------------------
(***************************************************************************)
(* What internal/curing promises of an item, without queues, files and     *)
(* goroutines.  An item waits for its attempts, and each that fails is     *)
(* counted, until one succeeds or its curing allows no more; it ends with  *)
(* an artifact, as a dead letter or, when a panic or a crash takes it,     *)
(* lost.  No item starts over.  An item is <<hide, queue>>.                *)
(***************************************************************************)
EXTENDS Naturals

CONSTANT MaxAttempts   \* MaxAttempts[q]: what the curing of queue q allows

VARIABLE life          \* life[k]: how far item k is, for the items there were

Stage(name, n) == [stage |-> name, tries |-> n]
Waiting(n) == Stage("waiting", n)   \* after n failed attempts
Working(n) == Stage("working", n)
Dead(n)    == Stage("dead", n)
Done       == Stage("done", 0)
Lost       == Stage("lost", 0)

Init == life = [k \in {} |-> Done]

Come(k) ==
  /\ k \notin DOMAIN life
  /\ life' = [j \in DOMAIN life \cup {k} |-> IF j = k THEN Waiting(0) ELSE life[j]]

Become(k, end) == life' = [life EXCEPT ![k] = end]

Start(k) ==
  /\ life[k].stage = "waiting" /\ life[k].tries < MaxAttempts[k[2]]
  /\ Become(k, Working(life[k].tries))

\* A failed attempt: the item waits for another one, or it is over.
Retry(k) ==
  /\ life[k].stage = "working" /\ life[k].tries + 1 < MaxAttempts[k[2]]
  /\ Become(k, Waiting(life[k].tries + 1))
Bury(k) ==
  /\ life[k].stage = "working"
  /\ Become(k, Dead(life[k].tries + 1))

Finish(k) == life[k].stage = "working" /\ Become(k, Done)

\* A crash may take many, but none that has its artifact.
Lose(S) ==
  /\ \A k \in S : life[k].stage \in {"waiting", "working", "dead"}
  /\ life' = [k \in DOMAIN life |-> IF k \in S THEN Lost ELSE life[k]]

Next ==
  \/ \E k \in DOMAIN life' : Come(k)
  \/ \E k \in DOMAIN life : Start(k) \/ Retry(k) \/ Bury(k) \/ Finish(k)
  \/ \E S \in SUBSET DOMAIN life : Lose(S)

Spec == Init /\ [][Next]_life
=============================================================================
