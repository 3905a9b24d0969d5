-------------------------- MODULE CuringWorkerProofs --------------------------
(***************************************************************************)
(* Proofs about CuringWorker, for any set of queues, any topology, any     *)
(* concurrency and retry limits, any number of items and any faults.       *)
(***************************************************************************)
EXTENDS CuringWorker, TLAPS

-----------------------------------------------------------------------------
(* The values the actions build are of the expected types.                 *)

\* What an item becomes: a new one, and one with another attempt counted.
LEMMA ItemTypes ==
  ASSUME NEW h \in Nat \ {0}, NEW q \in Queues, NEW it \in Item
  PROVE  /\ NewItem(h, q) \in Item
         /\ [it EXCEPT !.attempts = @ + 1] \in Item
         /\ Key(it) \in (Nat \ {0}) \X Queues
  BY DEF NewItem, Item, Key

\* Stages move a handler to a handler.
LEMMA HandlerTypes ==
  ASSUME NEW h \in Handler, NEW pc \in PCs, NEW out \in Nat
  PROVE  /\ [h EXCEPT !.pc = pc] \in Handler
         /\ [h EXCEPT !.pc = pc, !.out = out] \in Handler
  BY DEF Handler

\* Pushing an item keeps the queues, the files and the history typed.
LEMMA PushTypes ==
  ASSUME TypeOK, NEW n \in Names, NEW it \in Item, Push(n, it)
  PROVE  /\ queue' \in [Names -> Seq(Item)]
         /\ file' \in [Names -> Seq(Item)]
         /\ accepted' \subseteq (Nat \ {0}) \X Queues
<1>1. Append(queue[n], it) \in Seq(Item)
  BY DEF TypeOK
<1>2. Key(it) \in (Nat \ {0}) \X Queues
  BY DEF Item, Key
<1>3. CASE PushSaved(n, it)
  BY <1>1, <1>2, <1>3 DEF PushSaved, TypeOK
<1>4. CASE PushUnsaved(n, it)
  BY <1>1, <1>4 DEF PushUnsaved, TypeOK
<1> QED BY <1>3, <1>4 DEF Push

LEMMA QueueNames ==
  ASSUME NEW q \in Queues
  PROVE  Live(q) \in Names /\ Dlq(q) \in Names
  BY DEF Live, Dlq, Names

-----------------------------------------------------------------------------
(* TypeOK is not inductive alone: SendOutput pushes an item of queue Out[q] *)
(* with the hide in h.out, so both must be known to exist at that stage.   *)

LEMMA TypeInit == Init => TypeOK
  BY DEF Init, TypeOK

LEMMA TypeNext == TypeOK /\ Forwarding /\ [Next]_vars => TypeOK'
<1> SUFFICES ASSUME TypeOK, Forwarding, [Next]_vars PROVE TypeOK'
  OBVIOUS
<1> USE ConstantsAssumption
<1>1. CASE PutHide
  BY <1>1 DEF PutHide, TypeOK, Request
<1>2. ASSUME NEW r \in intake, NEW q \in r.todo, IntakeEnqueue(r, q)
      PROVE  TypeOK'
  <2>1. r \in Request /\ q \in Queues
    BY DEF TypeOK, Request
  <2>2. NewItem(r.hide, q) \in Item
    BY <2>1 DEF Request, NewItem, Item
  <2>3. Push(Live(q), NewItem(r.hide, q))
    BY <1>2 DEF IntakeEnqueue, Push
  <2>4. [r EXCEPT !.todo = r.todo \ {q}] \in Request
    BY <2>1 DEF Request
  <2>5. intake' \subseteq Request
    BY <1>2, <2>4 DEF IntakeEnqueue, TypeOK
  <2> QED BY <1>2, <2>1, <2>2, <2>3, <2>5, QueueNames, PushTypes DEF IntakeEnqueue, TypeOK
<1>3. ASSUME NEW r \in intake, NEW q \in r.todo, IntakeFails(r, q)
      PROVE  TypeOK'
  <2>1. r \in Request /\ q \in Queues
    BY DEF TypeOK, Request
  <2>2. NewItem(r.hide, q) \in Item
    BY <2>1 DEF Request, NewItem, Item
  <2>3. Push(Live(q), NewItem(r.hide, q))
    BY <1>3 DEF IntakeFails, Push
  <2>4. hides' \subseteq Nat \ {0} /\ withdrawn' \subseteq Nat \ {0}
    BY <1>3, <2>1 DEF IntakeFails, TypeOK, Request
  <2> QED BY <1>3, <2>1, <2>2, <2>3, <2>4, QueueNames, PushTypes DEF IntakeFails, TypeOK
<1>4. ASSUME NEW q \in Queues, Dequeue(q)
      PROVE  TypeOK'
  <2>1. Live(q) \in Names
    BY QueueNames
  <2>2. queue[Live(q)] \in Seq(Item) /\ queue[Live(q)] # <<>>
    BY <1>4, <2>1 DEF TypeOK, Dequeue
  <2>3. Tail(queue[Live(q)]) \in Seq(Item) /\ Head(queue[Live(q)]) \in Item
    BY <2>2
  <2>4. [item |-> Head(queue[Live(q)]), pc |-> "waiting", out |-> 0] \in Handler
    BY <2>3 DEF Handler, PCs
  <2> QED BY <1>4, <2>1, <2>3, <2>4 DEF Dequeue, TypeOK
<1>5. ASSUME NEW h \in held, Handle(h)
      PROVE  TypeOK'
  <2>1. /\ h \in Handler
        /\ h.item \in Item
        /\ h.item.queue \in Queues
        /\ h.item.hide \in Nat \ {0}
    BY DEF TypeOK, Handler, Item
  <2>2. Key(h.item) \in (Nat \ {0}) \X Queues
    BY <2>1, ItemTypes
  <2>3. ASSUME NEW pc \in PCs, Moved(h, pc)
        PROVE  held' \subseteq Handler
    BY <2>1, <2>3, HandlerTypes DEF Moved, TypeOK
  <2>4. CASE Acquire(h)
    BY <2>3, <2>4 DEF Acquire, TypeOK, PCs
  <2>5. CASE Load(h)
    BY <2>3, <2>5 DEF Load, TypeOK, PCs
  <2>6. CASE RunAgent(h)
    BY <2>3, <2>6 DEF RunAgent, TypeOK, PCs
  <2>7. CASE WriteArtifact(h)
    BY <2>2, <2>3, <2>7 DEF WriteArtifact, AfterArtifact, TypeOK, PCs
  <2>8. CASE PutOutput(h)
    <3>1. nextHide \in Nat \ {0} /\ nextHide + 1 \in Nat \ {0}
      BY DEF TypeOK
    <3>2. [h EXCEPT !.pc = "send", !.out = nextHide] \in Handler
      BY <2>1, <3>1, HandlerTypes DEF PCs
    <3> QED BY <2>3, <2>8, <3>1, <3>2 DEF PutOutput, TypeOK, PCs
  <2>9. CASE SendOutput(h)
    <3> DEFINE q == Out[h.item.queue]
    <3>1. [h EXCEPT !.pc = "cleanup", !.out = 0] \in Handler
      BY <2>1, HandlerTypes DEF PCs
    <3>2. q \in Queues /\ h.out \in Nat \ {0}
      BY <2>1, <2>9 DEF SendOutput, Forwarding, Handler
    <3>3. Live(q) \in Names /\ NewItem(h.out, q) \in Item
      BY <3>2, QueueNames DEF NewItem, Item
    <3>4. Push(Live(q), NewItem(h.out, q)) /\ held' \subseteq Handler
      BY <2>9, <3>1 DEF SendOutput, TypeOK
    <3> HIDE DEF q
    <3> QED BY <2>9, <3>3, <3>4, PushTypes DEF SendOutput, TypeOK
  <2>10. CASE Cleanup(h)
    BY <2>10 DEF Cleanup, Ended, TypeOK
  <2>11. CASE Fail(h)
    <3> DEFINE it == [h.item EXCEPT !.attempts = @ + 1]
    <3>1. it \in Item /\ it.queue \in Queues
      BY <2>1, ItemTypes DEF Item
    <3>2. PICK n \in Names : Push(n, it)
      BY <2>11, <3>1, QueueNames DEF Fail
    <3> HIDE DEF it
    <3> QED BY <2>11, <3>1, <3>2, PushTypes DEF Fail, Ended, TypeOK
  <2>12. CASE Panic(h)
    BY <2>2, <2>12 DEF Panic, Ended, TypeOK
  <2> QED BY <1>5, <2>4, <2>5, <2>6, <2>7, <2>8, <2>9, <2>10, <2>11, <2>12 DEF Handle
<1>6. CASE Crash
  <2>1. \A it \in Unsaved : it \in Item
    BY DEF Unsaved, TypeOK, Range
  <2>2. \A h \in held : h.item \in Item
    BY DEF TypeOK, Handler
  <2>3. \A it \in Item : Key(it) \in (Nat \ {0}) \X Queues
    BY DEF Item, Key
  <2>4. lost' \subseteq (Nat \ {0}) \X Queues
    BY <1>6, <2>1, <2>2, <2>3 DEF Crash, TypeOK
  <2> QED BY <1>6, <2>4 DEF Crash, TypeOK
<1>7. ASSUME NEW x \in hides, DeleteHide(x)
      PROVE  TypeOK'
  BY <1>7 DEF DeleteHide, TypeOK
<1>8. CASE UNCHANGED vars
  BY <1>8 DEF vars, TypeOK
<1> QED BY <1>1, <1>2, <1>3, <1>4, <1>5, <1>6, <1>7, <1>8 DEF Next

-----------------------------------------------------------------------------
(* Sequences of items: what they hold after Append and Tail.               *)

LEMMA AppendRange ==
  ASSUME NEW s \in Seq(Item), NEW it \in Item
  PROVE  Range(Append(s, it)) = Range(s) \cup {it}
<1> DEFINE t == Append(s, it)
<1>1. /\ DOMAIN s = 1..Len(s) /\ DOMAIN t = 1..Len(s) + 1 /\ Len(s) \in Nat
      /\ \A i \in 1..Len(s) : t[i] = s[i]
      /\ t[Len(s) + 1] = it
  OBVIOUS
<1> HIDE DEF t
<1>2. ASSUME NEW x \in Range(t) PROVE x \in Range(s) \cup {it}
  BY <1>1, <1>2 DEF Range
<1>3. ASSUME NEW x \in Range(s) PROVE x \in Range(t)
  BY <1>1, <1>3 DEF Range
<1>4. it \in Range(t)
  BY <1>1 DEF Range
<1> QED BY <1>2, <1>3, <1>4 DEF t

LEMMA TailRange ==
  ASSUME NEW s \in Seq(Item), s # <<>>
  PROVE  /\ Head(s) \in Range(s)
         /\ Range(Tail(s)) \subseteq Range(s)
         /\ \A it \in Range(s) : it = Head(s) \/ it \in Range(Tail(s))
<1> DEFINE t == Tail(s)
<1>1. /\ DOMAIN s = 1..Len(s) /\ DOMAIN t = 1..Len(s) - 1 /\ Len(s) \in Nat \ {0}
      /\ \A i \in 1..Len(s) - 1 : t[i] = s[i + 1]
      /\ Head(s) = s[1]
  OBVIOUS
<1> HIDE DEF t
<1>2. Head(s) \in Range(s)
  BY <1>1 DEF Range
<1>3. Range(t) \subseteq Range(s)
  BY <1>1 DEF Range
<1>4. ASSUME NEW i \in 1..Len(s), i # 1
      PROVE  s[i] \in Range(t)
  <2>1. i - 1 \in 1..Len(s) - 1 /\ t[i - 1] = s[i]
    BY <1>1, <1>4
  <2> QED BY <1>1, <2>1 DEF Range
<1> QED BY <1>1, <1>2, <1>3, <1>4 DEF Range, t

LEMMA AppendDistinct ==
  ASSUME NEW s \in Seq(Item), NEW it \in Item, DistinctKeys(s),
         \A jt \in Range(s) : Key(jt) # Key(it)
  PROVE  DistinctKeys(Append(s, it))
<1> DEFINE t == Append(s, it)
<1>1. /\ DOMAIN s = 1..Len(s) /\ DOMAIN t = 1..Len(s) + 1 /\ Len(s) \in Nat
      /\ \A i \in 1..Len(s) : t[i] = s[i]
      /\ t[Len(s) + 1] = it
  OBVIOUS
<1> HIDE DEF t
<1>2. \A i \in 1..Len(s) : Key(t[i]) # Key(it)
  BY <1>1 DEF Range
<1>3. DistinctKeys(t)
  BY <1>1, <1>2 DEF DistinctKeys
<1> QED BY <1>3 DEF t

LEMMA TailDistinct ==
  ASSUME NEW s \in Seq(Item), s # <<>>, DistinctKeys(s)
  PROVE  /\ DistinctKeys(Tail(s))
         /\ \A it \in Range(Tail(s)) : Key(it) # Key(Head(s))
<1> DEFINE t == Tail(s)
<1>1. /\ DOMAIN s = 1..Len(s) /\ DOMAIN t = 1..Len(s) - 1 /\ Len(s) \in Nat \ {0}
      /\ \A i \in 1..Len(s) - 1 : t[i] = s[i + 1]
      /\ Head(s) = s[1]
  OBVIOUS
<1> HIDE DEF t
<1>2. DistinctKeys(t)
  BY <1>1 DEF DistinctKeys
<1>3. \A i \in DOMAIN t : Key(t[i]) # Key(Head(s))
  BY <1>1 DEF DistinctKeys
<1> QED BY <1>2, <1>3 DEF t, Range

LEMMA RangeItems ==
  ASSUME NEW s \in Seq(Item)
  PROVE  Range(s) \subseteq Item
  BY DEF Range

\* Push changes one queue; the file has what was there before or follows.
LEMMA PushEffect ==
  ASSUME TypeOK, NEW n \in Names, NEW it \in Item, Push(n, it)
  PROVE  /\ \A m \in Names : m # n => queue'[m] = queue[m] /\ file'[m] = file[m]
         /\ queue'[n] = Append(queue[n], it)
         /\ Range(queue'[n]) = Range(queue[n]) \cup {it}
         /\ file'[n] \in {file[n], Append(queue[n], it)}
<1>1. /\ \A m \in Names : m # n => queue'[m] = queue[m] /\ file'[m] = file[m]
      /\ queue'[n] = Append(queue[n], it)
      /\ file'[n] \in {file[n], Append(queue[n], it)}
  BY DEF TypeOK, Push, PushSaved, PushUnsaved
<1>2. queue[n] \in Seq(Item)
  BY DEF TypeOK
<1> QED BY <1>1, <1>2, AppendRange

-----------------------------------------------------------------------------
(* The induction step, action by action.  What an action leaves alone of   *)
(* the queues decides most of it, so the first lemmas are about groups of  *)
(* actions: a handler h is replaced by g, which owns the same item ...     *)

Replaced(h, g) == held' = (held \ {h}) \cup {g}

QueuesAlone == UNCHANGED <<queue, file>>

LEMMA HandlerFacts ==
  ASSUME TypeOK, NEW h \in held
  PROVE  /\ h \in Handler
         /\ h.item \in Item
         /\ h.item.queue \in Queues
         /\ h.item.hide \in Nat \ {0}
         /\ h.item.attempts \in Nat
         /\ Key(h.item) = <<h.item.hide, h.item.queue>>
         /\ Key(h.item) \in (Nat \ {0}) \X Queues
  BY DEF TypeOK, Handler, Item, Key

LEMMA ReplaceKeepsCopies ==
  ASSUME Inductive, NEW h \in held, NEW g, g.item = h.item, Replaced(h, g), QueuesAlone
  PROVE  HomeQueue' /\ FileFollows' /\ OneCopy' /\ RetryBudget'
<1>1. HomeQueue' /\ FileFollows'
  BY DEF Inductive, QueuesAlone, HomeQueue, FileFollows, DistinctKeys
<1>2. OneCopy'
  BY DEF Inductive, QueuesAlone, Replaced, OneCopy, DistinctKeys
<1>3. RetryBudget'
  BY DEF Inductive, QueuesAlone, Replaced, RetryBudget
<1> QED BY <1>1, <1>2, <1>3

\* ... or ends.
LEMMA EndKeepsCopies ==
  ASSUME Inductive, NEW h \in held, Ended(h), QueuesAlone
  PROVE  HomeQueue' /\ FileFollows' /\ OneCopy' /\ RetryBudget'
<1>1. HomeQueue' /\ FileFollows'
  BY DEF Inductive, QueuesAlone, HomeQueue, FileFollows, DistinctKeys
<1>2. OneCopy'
  BY DEF Inductive, QueuesAlone, Ended, OneCopy, DistinctKeys
<1>3. RetryBudget'
  BY DEF Inductive, QueuesAlone, Ended, RetryBudget
<1> QED BY <1>1, <1>2, <1>3

\* A handler moves to another stage on the same side of the success boundary,
\* and not into one that sends.
LEMMA MoveStep ==
  ASSUME Inductive, TypeOK', NEW h \in held, NEW pc \in PCs, Moved(h, pc),
         h.pc \in BeforeArtifact <=> pc \in BeforeArtifact,
         pc \notin {"put", "send"},
         pc = "dead" => h.item.hide \notin hides,
         UNCHANGED <<queue, file, hides, nextHide, intake, artifacts, accepted, lost, withdrawn>>
  PROVE  Inductive'
<1> DEFINE g == [h EXCEPT !.pc = pc]
<1>0. h \in Handler /\ g.item = h.item /\ g.pc = pc /\ g.out = h.out /\ Replaced(h, g)
  BY HandlerFacts DEF Inductive, Handler, Moved, Replaced
<1> HIDE DEF g
<1>1. HomeQueue' /\ FileFollows' /\ OneCopy' /\ RetryBudget'
  BY <1>0, ReplaceKeepsCopies DEF QueuesAlone
<1>2. Forwarding'
  BY <1>0 DEF Inductive, Forwarding, Replaced
<1>3. ArtifactOnce' /\ PastBoundary'
  BY <1>0 DEF Inductive, ArtifactOnce, PastBoundary, Replaced
<1>4. Numbered'
  BY <1>0 DEF Inductive, Numbered, Replaced
<1>5. \A k : Somewhere(k)' => Somewhere(k)
  BY <1>0 DEF Somewhere, Replaced
<1>6. Unsent'
  BY <1>0, <1>5 DEF Inductive, Unsent, Replaced
<1>7. Accounted'
  BY <1>0 DEF Inductive, Accounted, Replaced
<1>8. DeadIsMissing' /\ DeadLetterJustified'
  BY <1>0 DEF Inductive, DeadIsMissing, DeadLetterJustified, Replaced
<1> QED BY <1>1, <1>2, <1>3, <1>4, <1>6, <1>7, <1>8 DEF Inductive

\* The success boundary: the key of the item passes from the handlers that
\* may write to the artifacts.
LEMMA WriteStep ==
  ASSUME Inductive, TypeOK', NEW h \in held, WriteArtifact(h)
  PROVE  Inductive'
<1> USE ConstantsAssumption
<1> DEFINE pc == AfterArtifact(h.item.queue)
           g  == [h EXCEPT !.pc = pc]
<1>1. CASE "write" \in Faults /\ Moved(h, "failed") /\ UNCHANGED artifacts
  BY <1>1, MoveStep DEF WriteArtifact, BeforeArtifact, PCs
<1>2. CASE artifacts' = artifacts \cup {Key(h.item)} /\ Moved(h, pc)
  <2>1. /\ h \in Handler /\ g.item = h.item /\ g.pc = pc /\ g.out = h.out
        /\ Replaced(h, g) /\ h.pc = "write"
        /\ pc \in {"put", "cleanup"}
        /\ pc = "put" => Out[h.item.queue] \in Queues
        /\ UNCHANGED <<queue, file, hides, nextHide, intake, accepted, lost, withdrawn>>
    BY <1>2, HandlerFacts
       DEF Inductive, Handler, Moved, Replaced, AfterArtifact, WriteArtifact
  <2> HIDE DEF g, pc
  <2>2. HomeQueue' /\ FileFollows' /\ OneCopy' /\ RetryBudget'
    BY <2>1, ReplaceKeepsCopies DEF QueuesAlone
  <2>3. Forwarding'
    BY <2>1 DEF Inductive, Forwarding, Replaced
  <2>4. \A n \in Names : \A it \in Range(queue[n]) : Key(it) # Key(h.item)
    BY DEF Inductive, OneCopy
  <2>5. \A f \in held : Key(f.item) = Key(h.item) => f = h
    BY DEF Inductive, OneCopy
  <2>6. ArtifactOnce'
    BY <1>2, <2>1, <2>4, <2>5 DEF Inductive, ArtifactOnce, FileFollows, Replaced, BeforeArtifact
  <2>7. PastBoundary'
    BY <1>2, <2>1 DEF Inductive, PastBoundary, Replaced, BeforeArtifact
  <2>8. Numbered'
    <3>1. \A k \in artifacts' : k[1] < nextHide
      BY <1>2, HandlerFacts DEF Inductive, Numbered
    <3> QED BY <2>1, <3>1 DEF Inductive, Numbered, Replaced
  <2>9. \A k : Somewhere(k)' => Somewhere(k)
    BY <1>2, <2>1 DEF Somewhere, Replaced
  <2>10. Unsent'
    BY <2>1, <2>9 DEF Inductive, Unsent, Replaced
  <2>11. Accounted'
    BY <1>2, <2>1 DEF Inductive, Accounted, Replaced
  <2>12. DeadIsMissing' /\ DeadLetterJustified'
    BY <2>1 DEF Inductive, DeadIsMissing, DeadLetterJustified, Replaced
  <2> QED BY <2>2, <2>3, <2>6, <2>7, <2>8, <2>10, <2>11, <2>12 DEF Inductive
<1> QED BY <1>1, <1>2 DEF WriteArtifact

\* The hide put for the output has a number nothing else has.
LEMMA PutOutputStep ==
  ASSUME Inductive, TypeOK', NEW h \in held, PutOutput(h)
  PROVE  Inductive'
<1> DEFINE g == [h EXCEPT !.pc = "send", !.out = nextHide]
<1>1. CASE "put" \in Faults /\ Moved(h, "cleanup") /\ UNCHANGED <<hides, nextHide>>
  BY <1>1, MoveStep DEF PutOutput, BeforeArtifact, PCs
<1>2. CASE /\ hides' = hides \cup {nextHide}
           /\ nextHide' = nextHide + 1
           /\ Replaced(h, g)
  <2>1. /\ h \in Handler /\ g.item = h.item /\ g.pc = "send" /\ g.out = nextHide
        /\ h.pc = "put" /\ nextHide \in Nat \ {0}
        /\ UNCHANGED <<queue, file, intake, artifacts, accepted, lost, withdrawn>>
    BY <1>2, HandlerFacts DEF Inductive, TypeOK, Handler, PutOutput
  <2> HIDE DEF g
  <2>2. HomeQueue' /\ FileFollows' /\ OneCopy' /\ RetryBudget'
    BY <1>2, <2>1, ReplaceKeepsCopies DEF QueuesAlone
  <2>3. Forwarding'
    BY <1>2, <2>1 DEF Inductive, Forwarding, Replaced
  <2>4. ArtifactOnce' /\ PastBoundary'
    BY <1>2, <2>1 DEF Inductive, ArtifactOnce, PastBoundary, Replaced, BeforeArtifact
  <2>5. \A n \in Names : \A it \in Range(queue[n]) : it \in Item
    BY RangeItems DEF Inductive, TypeOK
  <2>6. Numbered'
    <3>1. \A x \in Nat : x < nextHide => x < nextHide'
      BY <1>2, <2>1
    <3>2. \A k \in artifacts : k[1] \in Nat
      BY DEF Inductive, TypeOK
    <3>3. \A r \in intake : r.hide \in Nat
      BY DEF Inductive, TypeOK, Request
    <3>4. \A f \in held : f.item.hide \in Nat /\ f.out \in Nat
      BY DEF Inductive, TypeOK, Handler, Item
    <3>5. nextHide < nextHide'
      BY <1>2, <2>1
    <3> QED BY <1>2, <2>1, <2>5, <3>1, <3>2, <3>3, <3>4, <3>5
            DEF Inductive, Numbered, Replaced, Item
  <2>7. \A k : Somewhere(k)' => Somewhere(k)
    BY <1>2, <2>1 DEF Somewhere, Replaced
  <2>8. \A q \in Queues : ~Somewhere(<<nextHide, q>>)
    <3> SUFFICES ASSUME NEW q \in Queues, Somewhere(<<nextHide, q>>) PROVE FALSE
      OBVIOUS
    <3>1. ASSUME NEW n \in Names, NEW it \in Range(queue[n]), Key(it) = <<nextHide, q>>
          PROVE  FALSE
      BY <2>1, <2>5, <3>1 DEF Inductive, Numbered, Key
    <3>2. ASSUME NEW f \in held, Key(f.item) = <<nextHide, q>>
          PROVE  FALSE
      BY <2>1, <3>2 DEF Inductive, Numbered, Key
    <3>3. ASSUME <<nextHide, q>> \in artifacts
          PROVE  FALSE
      BY <2>1, <3>3 DEF Inductive, Numbered
    <3> QED BY <3>1, <3>2, <3>3 DEF Somewhere
  <2>9. Unsent'
    <3>1. Out[h.item.queue] \in Queues
      BY <2>1 DEF Inductive, Forwarding
    <3>2. \A r \in intake : r.hide # nextHide
      BY <2>1 DEF Inductive, Numbered
    <3>3. \A f \in held : f.pc = "send" => f.out # nextHide
      BY <2>1 DEF Inductive, Numbered
    <3> QED BY <1>2, <2>1, <2>7, <2>8, <3>1, <3>2, <3>3 DEF Inductive, Unsent, Replaced
  <2>10. Accounted'
    BY <1>2, <2>1 DEF Inductive, Accounted, Replaced
  <2>11. DeadIsMissing' /\ DeadLetterJustified'
    <3>1. \A n \in Names : \A it \in Range(queue[n]) : it.hide # nextHide
      BY <2>1 DEF Inductive, Numbered
    <3>2. \A f \in held : f.item.hide # nextHide
      BY <2>1 DEF Inductive, Numbered
    <3> QED BY <1>2, <2>1, <3>1, <3>2, QueueNames
            DEF Inductive, DeadIsMissing, DeadLetterJustified, Replaced
  <2> QED BY <2>2, <2>3, <2>4, <2>6, <2>9, <2>10, <2>11 DEF Inductive
<1> QED BY <1>1, <1>2 DEF PutOutput, Replaced

\* A handler that ends is past the boundary, or its item is recorded as lost.
LEMMA EndStep ==
  ASSUME Inductive, TypeOK', NEW h \in held, Ended(h), QueuesAlone,
         UNCHANGED <<nextHide, intake, artifacts, accepted>>,
         hides' \subseteq hides,
         lost \subseteq lost',
         Key(h.item) \in artifacts \cup lost'
  PROVE  Inductive'
<1>1. HomeQueue' /\ FileFollows' /\ OneCopy' /\ RetryBudget'
  BY EndKeepsCopies
<1>2. Forwarding'
  BY DEF Inductive, Forwarding, Ended
<1>3. ArtifactOnce' /\ PastBoundary'
  BY DEF Inductive, ArtifactOnce, PastBoundary, Ended, QueuesAlone
<1>4. Numbered'
  BY DEF Inductive, Numbered, Ended, QueuesAlone
<1>5. \A k : Somewhere(k)' => Somewhere(k)
  BY DEF Somewhere, Ended, QueuesAlone
<1>6. Unsent'
  BY <1>5 DEF Inductive, Unsent, Ended
<1>7. Accounted'
  BY DEF Inductive, Accounted, Ended, QueuesAlone
<1>8. DeadIsMissing' /\ DeadLetterJustified'
  BY DEF Inductive, DeadIsMissing, DeadLetterJustified, Ended, QueuesAlone
<1> QED BY <1>1, <1>2, <1>3, <1>4, <1>6, <1>7, <1>8 DEF Inductive

-----------------------------------------------------------------------------
(* The actions that push an item no queue has.                             *)

LEMMA PushKeepsQueues ==
  ASSUME Inductive, NEW n \in Names, NEW it \in Item, Push(n, it), it.queue = n[1],
         \A m \in Names : \A jt \in Range(queue[m]) : Key(jt) # Key(it)
  PROVE  /\ HomeQueue' /\ FileFollows'
         /\ \A m \in Names : DistinctKeys(queue'[m])
         /\ \A m, k \in Names : m # k =>
              \A jt \in Range(queue'[m]), kt \in Range(queue'[k]) : Key(jt) # Key(kt)
<1>1. /\ \A m \in Names : m # n => queue'[m] = queue[m] /\ file'[m] = file[m]
      /\ queue'[n] = Append(queue[n], it)
      /\ Range(queue'[n]) = Range(queue[n]) \cup {it}
      /\ file'[n] \in {file[n], Append(queue[n], it)}
  BY PushEffect DEF Inductive
<1>2. queue[n] \in Seq(Item)
  BY DEF Inductive, TypeOK
<1>3. HomeQueue'
  BY <1>1 DEF Inductive, HomeQueue
<1>4. DistinctKeys(queue'[n])
  BY <1>1, <1>2, AppendDistinct DEF Inductive, OneCopy
<1>5. \A m \in Names : DistinctKeys(queue'[m])
  <2>1. ASSUME NEW m \in Names, m # n PROVE DistinctKeys(queue'[m])
    BY <1>1, <2>1 DEF Inductive, OneCopy, DistinctKeys
  <2> QED BY <1>4, <2>1
<1>6. FileFollows'
  <2>1. \A m \in Names : Range(file[m]) \subseteq Range(queue[m]) /\ DistinctKeys(file[m])
    BY DEF Inductive, FileFollows
  <2>2. ASSUME NEW m \in Names, m # n
        PROVE  Range(file'[m]) \subseteq Range(queue'[m]) /\ DistinctKeys(file'[m])
    <3>1. file'[m] = file[m] /\ queue'[m] = queue[m]
      BY <1>1, <2>2
    <3> QED BY <2>1, <3>1
  <2>3. CASE file'[n] = file[n]
    <3>1. Range(file'[n]) \subseteq Range(queue'[n]) /\ DistinctKeys(file'[n])
      BY <1>1, <2>1, <2>3
    <3> QED BY <2>2, <3>1 DEF FileFollows
  <2>4. CASE file'[n] = queue'[n]
    <3>1. Range(file'[n]) \subseteq Range(queue'[n]) /\ DistinctKeys(file'[n])
      BY <1>4, <2>4
    <3> QED BY <2>2, <3>1 DEF FileFollows
  <2> QED BY <1>1, <2>3, <2>4
<1>7. ASSUME NEW m \in Names, NEW k \in Names, m # k,
             NEW jt \in Range(queue'[m]), NEW kt \in Range(queue'[k])
      PROVE  Key(jt) # Key(kt)
  <2>1. jt \in Range(queue[m]) \/ (m = n /\ jt = it)
    BY <1>1, <1>7
  <2>2. kt \in Range(queue[k]) \/ (k = n /\ kt = it)
    BY <1>1, <1>7
  <2>3. jt \in Range(queue[m]) /\ kt \in Range(queue[k]) => Key(jt) # Key(kt)
    BY <1>7 DEF Inductive, OneCopy
  <2> QED BY <1>7, <2>1, <2>2, <2>3
<1> QED BY <1>3, <1>5, <1>6, <1>7

\* What is in a queue or a file afterwards was there before or is the item.
LEMMA PushMembers ==
  ASSUME Inductive, NEW n \in Names, NEW it \in Item, Push(n, it)
  PROVE  /\ \A m \in Names : \A jt \in Range(queue'[m]) :
              jt \in Range(queue[m]) \/ (m = n /\ jt = it)
         /\ \A m \in Names : \A jt \in Range(file'[m]) :
              jt \in Range(queue[m]) \/ (m = n /\ jt = it)
         /\ \A m \in Names : Range(queue[m]) \subseteq Range(queue'[m])
         /\ it \in Range(queue'[n])
         /\ accepted' \subseteq accepted \cup {Key(it)}
<1>1. /\ \A m \in Names : m # n => queue'[m] = queue[m] /\ file'[m] = file[m]
      /\ queue'[n] = Append(queue[n], it)
      /\ Range(queue'[n]) = Range(queue[n]) \cup {it}
      /\ file'[n] \in {file[n], Append(queue[n], it)}
  BY PushEffect DEF Inductive
<1>2. accepted' \subseteq accepted \cup {Key(it)}
  BY DEF Push, PushSaved, PushUnsaved
<1>3. \A m \in Names : Range(file[m]) \subseteq Range(queue[m])
  BY DEF Inductive, FileFollows
<1>4. ASSUME NEW m \in Names, NEW jt \in Range(file'[m])
      PROVE  jt \in Range(queue[m]) \/ (m = n /\ jt = it)
  <2>1. CASE m # n
    BY <1>1, <1>3, <1>4, <2>1
  <2>2. CASE m = n
    BY <1>1, <1>3, <1>4, <2>2
  <2> QED BY <2>1, <2>2
<1> QED BY <1>1, <1>2, <1>4

\* A new item, of a request or of a handler that forwards its artifact.  The
\* handlers afterwards are those before, but for stages past the boundary.
LEMMA NewItemFacts ==
  ASSUME NEW h \in Nat \ {0}, NEW q \in Queues
  PROVE  /\ NewItem(h, q) \in Item
         /\ NewItem(h, q).queue = q /\ NewItem(h, q).hide = h
         /\ NewItem(h, q).attempts = 0
         /\ Key(NewItem(h, q)) = <<h, q>>
         /\ Live(q) \in Names /\ Live(q)[1] = q
         /\ \A p \in Queues : Dlq(p) # Live(q) /\ (Live(p) = Live(q) => p = q)
  BY DEF NewItem, Item, Key, Live, Dlq, Names

LEMMA IntakeStep ==
  ASSUME Inductive, TypeOK', NEW r \in intake, NEW q \in r.todo,
         IntakeEnqueue(r, q) \/ IntakeFails(r, q)
  PROVE  Inductive'
<1> USE ConstantsAssumption
<1> DEFINE it == NewItem(r.hide, q)
<1>1. /\ r \in Request /\ q \in Queues /\ r.hide \in Nat \ {0}
      /\ Push(Live(q), it)
      /\ UNCHANGED <<held, nextHide, artifacts, lost>>
      /\ hides' \subseteq hides
  BY DEF Inductive, TypeOK, Request, IntakeEnqueue, IntakeFails, Push
<1>2. /\ it \in Item /\ it.queue = q /\ it.hide = r.hide /\ it.attempts = 0
      /\ Key(it) = <<r.hide, q>>
      /\ Live(q) \in Names /\ Live(q)[1] = q
      /\ \A p \in Queues : Dlq(p) # Live(q) /\ (Live(p) = Live(q) => p = q)
  BY <1>1, NewItemFacts
<1>3. intake' \subseteq (intake \ {r}) \cup {[r EXCEPT !.todo = r.todo \ {q}]}
  BY DEF IntakeEnqueue, IntakeFails
<1> HIDE DEF it
<1>4. ~Somewhere(Key(it))
  BY <1>2 DEF Inductive, Unsent
<1>5. /\ \A m \in Names : \A jt \in Range(queue[m]) : Key(jt) # Key(it)
      /\ \A h \in held : Key(h.item) # Key(it)
      /\ Key(it) \notin artifacts
  BY <1>4 DEF Somewhere
<1>6. /\ \A m \in Names : \A jt \in Range(queue'[m]) :
           jt \in Range(queue[m]) \/ (m = Live(q) /\ jt = it)
      /\ \A m \in Names : \A jt \in Range(file'[m]) :
           jt \in Range(queue[m]) \/ (m = Live(q) /\ jt = it)
      /\ \A m \in Names : Range(queue[m]) \subseteq Range(queue'[m])
      /\ it \in Range(queue'[Live(q)])
      /\ accepted' \subseteq accepted \cup {Key(it)}
  BY <1>1, <1>2, PushMembers
<1>7. /\ HomeQueue' /\ FileFollows'
      /\ \A m \in Names : DistinctKeys(queue'[m])
      /\ \A m, k \in Names : m # k =>
           \A jt \in Range(queue'[m]), kt \in Range(queue'[k]) : Key(jt) # Key(kt)
  BY <1>1, <1>2, <1>5, PushKeepsQueues
<1>8. OneCopy'
  BY <1>1, <1>5, <1>6, <1>7 DEF Inductive, OneCopy, DistinctKeys
<1>9. Forwarding' /\ PastBoundary'
  BY <1>1 DEF Inductive, Forwarding, PastBoundary
<1>10. ArtifactOnce'
  BY <1>1, <1>5, <1>6 DEF Inductive, ArtifactOnce
<1>11. RetryBudget'
  <2>1. 0 < MaxAttempts[q]
    BY <1>1
  <2>2. ASSUME NEW p \in Queues, NEW jt \in Range(queue'[Live(p)])
        PROVE  jt.attempts < MaxAttempts[p]
    BY <1>2, <1>6, <2>1, QueueNames DEF Inductive, RetryBudget
  <2> QED BY <1>1, <2>2 DEF Inductive, RetryBudget
<1>12. Numbered'
  <2>1. \A s \in intake' : s.hide < nextHide
    BY <1>1, <1>3 DEF Inductive, Numbered, Request
  <2>2. it.hide < nextHide
    BY <1>2 DEF Inductive, Numbered
  <2> QED BY <1>1, <1>6, <2>1, <2>2 DEF Inductive, Numbered
<1>13. \A k : Somewhere(k)' => Somewhere(k) \/ k = Key(it)
  BY <1>1, <1>6 DEF Somewhere
<1>14. Unsent'
  <2>1. \A s \in intake' : \/ s \in intake /\ s # r
                           \/ s.hide = r.hide /\ s.todo = r.todo \ {q}
    BY <1>1, <1>3 DEF Request
  <2>2. \A s \in intake' : s.hide = r.hide => s.todo = r.todo \ {q}
    BY <2>1 DEF Inductive, Unsent
  <2>3. ASSUME NEW s \in intake', NEW p \in s.todo
        PROVE  ~Somewhere(<<s.hide, p>>)'
    <3>1. CASE s.hide = r.hide
      BY <1>2, <1>13, <2>2, <2>3, <3>1 DEF Inductive, Unsent
    <3>2. CASE s.hide # r.hide
      BY <1>2, <1>13, <2>1, <2>3, <3>2 DEF Inductive, Unsent
    <3> QED BY <3>1, <3>2
  <2>4. \A h \in held : h.pc = "send" => h.out # r.hide
    BY DEF Inductive, Unsent
  <2>5. \A h \in held : h.pc = "send" => ~Somewhere(<<h.out, Out[h.item.queue]>>)'
    BY <1>2, <1>13, <2>4 DEF Inductive, Unsent
  <2>6. \A s, t \in intake' : s.hide = t.hide => s = t
    BY <1>3, <2>1 DEF Inductive, Unsent
  <2>7. \A s \in intake', h \in held : h.pc = "send" => h.out # s.hide
    BY <2>1, <2>4 DEF Inductive, Unsent
  <2> QED BY <1>1, <2>3, <2>5, <2>6, <2>7 DEF Inductive, Unsent
<1>15. Accounted'
  BY <1>1, <1>2, <1>6 DEF Inductive, Accounted
<1>16. DeadIsMissing'
  BY <1>1 DEF Inductive, DeadIsMissing
<1>17. DeadLetterJustified'
  BY <1>1, <1>2, <1>6, QueueNames DEF Inductive, DeadLetterJustified
<1> QED BY <1>7, <1>8, <1>9, <1>10, <1>11, <1>12, <1>14, <1>15, <1>16, <1>17 DEF Inductive

LEMMA SendStep ==
  ASSUME Inductive, TypeOK', NEW h \in held, SendOutput(h)
  PROVE  Inductive'
<1> USE ConstantsAssumption
<1> DEFINE q  == Out[h.item.queue]
           it == NewItem(h.out, q)
           g  == [h EXCEPT !.pc = "cleanup", !.out = 0]
<1>1. /\ q \in Queues /\ h.out \in Nat \ {0} /\ h.pc = "send"
      /\ g.item = h.item /\ g.pc = "cleanup" /\ Replaced(h, g)
      /\ Push(Live(q), it)
      /\ UNCHANGED <<hides, nextHide, intake, artifacts, lost>>
  BY HandlerFacts DEF Inductive, Forwarding, Handler, SendOutput, Replaced
<1>2. /\ it \in Item /\ it.queue = q /\ it.hide = h.out /\ it.attempts = 0
      /\ Key(it) = <<h.out, q>>
      /\ Live(q) \in Names /\ Live(q)[1] = q
      /\ \A p \in Queues : Dlq(p) # Live(q) /\ (Live(p) = Live(q) => p = q)
  BY <1>1, NewItemFacts
<1>3. ~Somewhere(Key(it))
  BY <1>1, <1>2 DEF Inductive, Unsent
<1> HIDE DEF q, it, g
<1>4. /\ \A m \in Names : \A jt \in Range(queue[m]) : Key(jt) # Key(it)
      /\ \A f \in held : Key(f.item) # Key(it)
      /\ Key(it) \notin artifacts
  BY <1>3 DEF Somewhere
<1>5. /\ \A m \in Names : \A jt \in Range(queue'[m]) :
           jt \in Range(queue[m]) \/ (m = Live(q) /\ jt = it)
      /\ \A m \in Names : \A jt \in Range(file'[m]) :
           jt \in Range(queue[m]) \/ (m = Live(q) /\ jt = it)
      /\ \A m \in Names : Range(queue[m]) \subseteq Range(queue'[m])
      /\ it \in Range(queue'[Live(q)])
      /\ accepted' \subseteq accepted \cup {Key(it)}
  BY <1>1, <1>2, PushMembers
<1>6. /\ HomeQueue' /\ FileFollows'
      /\ \A m \in Names : DistinctKeys(queue'[m])
      /\ \A m, k \in Names : m # k =>
           \A jt \in Range(queue'[m]), kt \in Range(queue'[k]) : Key(jt) # Key(kt)
  BY <1>1, <1>2, <1>4, PushKeepsQueues
<1>7. OneCopy'
  BY <1>1, <1>4, <1>5, <1>6 DEF Inductive, OneCopy, DistinctKeys, Replaced
<1>8. Forwarding' /\ PastBoundary'
  BY <1>1 DEF Inductive, Forwarding, PastBoundary, Replaced, BeforeArtifact
<1>9. ArtifactOnce'
  BY <1>1, <1>4, <1>5 DEF Inductive, ArtifactOnce, Replaced, BeforeArtifact
<1>10. RetryBudget'
  <2>1. 0 < MaxAttempts[q]
    BY <1>1
  <2>2. ASSUME NEW p \in Queues, NEW jt \in Range(queue'[Live(p)])
        PROVE  jt.attempts < MaxAttempts[p]
    BY <1>2, <1>5, <2>1, QueueNames DEF Inductive, RetryBudget
  <2> QED BY <1>1, <2>2 DEF Inductive, RetryBudget, Replaced
<1>11. Numbered'
  <2>1. it.hide < nextHide
    BY <1>1, <1>2 DEF Inductive, Numbered
  <2> QED BY <1>1, <1>5, <2>1 DEF Inductive, Numbered, Replaced
<1>12. \A k : Somewhere(k)' => Somewhere(k) \/ k = Key(it)
  BY <1>1, <1>5 DEF Somewhere, Replaced
<1>13. Unsent'
  <2>1. ASSUME NEW r \in intake, NEW p \in r.todo
        PROVE  ~Somewhere(<<r.hide, p>>)'
    <3>1. h.out # r.hide
      BY <1>1 DEF Inductive, Unsent
    <3> QED BY <1>2, <1>12, <3>1 DEF Inductive, Unsent
  <2>2. ASSUME NEW f \in held', f.pc = "send"
        PROVE  f \in held /\ f.out # h.out
    BY <1>1, <2>2 DEF Inductive, Unsent, Replaced
  <2>3. ASSUME NEW f \in held', f.pc = "send"
        PROVE  ~Somewhere(<<f.out, Out[f.item.queue]>>)'
    BY <1>2, <1>12, <2>2, <2>3 DEF Inductive, Unsent
  <2> QED BY <1>1, <2>1, <2>2, <2>3 DEF Inductive, Unsent
<1>14. Accounted'
  BY <1>1, <1>2, <1>5 DEF Inductive, Accounted, Replaced
<1>15. DeadIsMissing'
  BY <1>1 DEF Inductive, DeadIsMissing, Replaced
<1>16. DeadLetterJustified'
  BY <1>1, <1>2, <1>5, QueueNames DEF Inductive, DeadLetterJustified
<1> QED BY <1>6, <1>7, <1>8, <1>9, <1>10, <1>11, <1>13, <1>14, <1>15, <1>16 DEF Inductive

\* The item of a failed run goes back or to the dead letters with its key; the
\* attempt just counted decides which, and is the last one if it is the latter.
LEMMA FailStep ==
  ASSUME Inductive, TypeOK', NEW h \in held, Fail(h)
  PROVE  Inductive'
<1> USE ConstantsAssumption
<1> DEFINE it    == [h.item EXCEPT !.attempts = @ + 1]
           q     == h.item.queue
           retry == h.pc = "failed" /\ it.attempts < MaxAttempts[q]
           n     == IF retry THEN Live(q) ELSE Dlq(q)
<1>1. /\ h.item \in Item /\ q \in Queues /\ h.item.attempts \in Nat
      /\ MaxAttempts[q] \in Nat
      /\ h.item.attempts < MaxAttempts[q]
  BY HandlerFacts DEF Inductive, RetryBudget
<1>2. /\ it \in Item /\ it.queue = q /\ it.hide = h.item.hide
      /\ it.attempts = h.item.attempts + 1
      /\ Key(it) = Key(h.item)
  BY <1>1 DEF Item, Key
<1>3. /\ n \in Names /\ n[1] = q
      /\ \A p \in Queues : n = Live(p) => p = q /\ it.attempts < MaxAttempts[q]
      /\ \A p \in Queues : n = Dlq(p) => p = q /\ (h.pc = "dead" \/ it.attempts = MaxAttempts[q])
      /\ h.pc \in {"failed", "dead"}
  BY <1>1, <1>2 DEF Fail, Live, Dlq, Names
<1>4. /\ Push(n, it) /\ held' = held \ {h}
      /\ UNCHANGED <<hides, nextHide, intake, artifacts, lost>>
  BY <1>2 DEF Fail, Ended
<1> HIDE DEF it, q, retry, n
<1>5. /\ \A m \in Names : \A jt \in Range(queue[m]) : Key(jt) # Key(it)
      /\ \A f \in held \ {h} : Key(f.item) # Key(it)
      /\ Key(it) \notin artifacts
  BY <1>2, <1>3 DEF Inductive, OneCopy, ArtifactOnce, BeforeArtifact
<1>6. /\ \A m \in Names : \A jt \in Range(queue'[m]) :
           jt \in Range(queue[m]) \/ (m = n /\ jt = it)
      /\ \A m \in Names : \A jt \in Range(file'[m]) :
           jt \in Range(queue[m]) \/ (m = n /\ jt = it)
      /\ \A m \in Names : Range(queue[m]) \subseteq Range(queue'[m])
      /\ it \in Range(queue'[n])
      /\ accepted' \subseteq accepted \cup {Key(it)}
  BY <1>2, <1>3, <1>4, PushMembers
<1>7. /\ HomeQueue' /\ FileFollows'
      /\ \A m \in Names : DistinctKeys(queue'[m])
      /\ \A m, k \in Names : m # k =>
           \A jt \in Range(queue'[m]), kt \in Range(queue'[k]) : Key(jt) # Key(kt)
  BY <1>2, <1>3, <1>4, <1>5, PushKeepsQueues
<1>8. OneCopy'
  BY <1>4, <1>5, <1>6, <1>7 DEF Inductive, OneCopy, DistinctKeys
<1>9. Forwarding' /\ PastBoundary'
  BY <1>4 DEF Inductive, Forwarding, PastBoundary
<1>10. ArtifactOnce'
  BY <1>4, <1>5, <1>6 DEF Inductive, ArtifactOnce
<1>11. RetryBudget'
  <2>1. ASSUME NEW p \in Queues, NEW jt \in Range(queue'[Live(p)])
        PROVE  jt.attempts < MaxAttempts[p]
    BY <1>3, <1>6, <2>1, QueueNames DEF Inductive, RetryBudget
  <2> QED BY <1>4, <2>1 DEF Inductive, RetryBudget
<1>12. Numbered'
  <2>1. it.hide < nextHide
    BY <1>2 DEF Inductive, Numbered
  <2> QED BY <1>4, <1>6, <2>1 DEF Inductive, Numbered
<1>13. \A k : Somewhere(k)' => Somewhere(k)
  BY <1>2, <1>4, <1>6 DEF Somewhere
<1>14. Unsent'
  BY <1>4, <1>13 DEF Inductive, Unsent
<1>15. Accounted'
  BY <1>2, <1>3, <1>4, <1>6 DEF Inductive, Accounted
<1>16. DeadIsMissing'
  BY <1>4 DEF Inductive, DeadIsMissing
<1>17. DeadLetterJustified'
  <2>1. h.pc = "dead" => it.hide \notin hides
    BY <1>2 DEF Inductive, DeadIsMissing
  <2>2. ASSUME NEW p \in Queues, NEW jt \in Range(queue'[Dlq(p)])
        PROVE  jt.attempts = MaxAttempts[p] \/ jt.hide \notin hides
    BY <1>3, <1>6, <2>1, <2>2, QueueNames DEF Inductive, DeadLetterJustified
  <2> QED BY <1>4, <2>2 DEF DeadLetterJustified
<1> QED BY <1>7, <1>8, <1>9, <1>10, <1>11, <1>12, <1>14, <1>15, <1>16, <1>17 DEF Inductive

-----------------------------------------------------------------------------
(* The remaining actions.                                                  *)

LEMMA DequeueStep ==
  ASSUME Inductive, TypeOK', NEW q \in Queues, Dequeue(q)
  PROVE  Inductive'
<1> DEFINE n  == Live(q)
           s  == queue[n]
           it == Head(s)
           g  == [item |-> it, pc |-> "waiting", out |-> 0]
<1>1. /\ n \in Names /\ s \in Seq(Item) /\ s # <<>>
      /\ queue'[n] = Tail(s) /\ file'[n] = Tail(s)
      /\ \A m \in Names : m # n => queue'[m] = queue[m] /\ file'[m] = file[m]
      /\ held' = held \cup {g}
      /\ UNCHANGED <<hides, nextHide, intake, artifacts, accepted, lost, withdrawn>>
  BY QueueNames DEF Inductive, TypeOK, Dequeue
<1>2. g.item = it /\ g.pc = "waiting"
  OBVIOUS
<1>3. /\ it \in Range(s)
      /\ Range(Tail(s)) \subseteq Range(s)
      /\ \A jt \in Range(s) : jt = it \/ jt \in Range(Tail(s))
  BY <1>1, TailRange
<1>4. DistinctKeys(Tail(s)) /\ \A jt \in Range(Tail(s)) : Key(jt) # Key(it)
  <2>1. DistinctKeys(s)
    BY <1>1 DEF Inductive, OneCopy
  <2> QED BY <1>1, <2>1, TailDistinct
<1>5. it.queue = q
  BY <1>1, <1>3 DEF Inductive, HomeQueue, Live
<1> HIDE DEF it, g
<1>6. /\ \A m \in Names : Range(queue'[m]) \subseteq Range(queue[m])
      /\ \A m \in Names : \A jt \in Range(queue[m]) :
           jt \in Range(queue'[m]) \/ (m = n /\ jt = it)
      /\ \A m \in Names : \A jt \in Range(queue'[m]) : Key(jt) # Key(it)
  <2>1. \A m \in Names : m # n => \A jt \in Range(queue[m]) : Key(jt) # Key(it)
    BY <1>1, <1>3 DEF Inductive, OneCopy
  <2> QED BY <1>1, <1>3, <1>4, <2>1
<1>7. /\ \A h \in held : Key(h.item) # Key(it)
      /\ Key(it) \notin artifacts
  BY <1>1, <1>3 DEF Inductive, OneCopy, ArtifactOnce
<1>8. FileFollows'
  <2>1. Range(file'[n]) \subseteq Range(queue'[n]) /\ DistinctKeys(file'[n])
    BY <1>1, <1>4
  <2>2. ASSUME NEW m \in Names, m # n
        PROVE  Range(file'[m]) \subseteq Range(queue'[m]) /\ DistinctKeys(file'[m])
    <3>1. queue'[m] = queue[m] /\ file'[m] = file[m]
      BY <1>1, <2>2
    <3> QED BY <3>1 DEF Inductive, FileFollows
  <2> QED BY <2>1, <2>2 DEF FileFollows
<1>9. HomeQueue'
  BY <1>6 DEF Inductive, HomeQueue
<1>10. OneCopy'
  <2>1. ASSUME NEW m \in Names PROVE DistinctKeys(queue'[m])
    <3>1. CASE m = n
      BY <1>1, <1>4, <3>1
    <3>2. CASE m # n
      <4>1. queue'[m] = queue[m]
        BY <1>1, <3>2
      <4> QED BY <4>1 DEF Inductive, OneCopy
    <3> QED BY <3>1, <3>2
  <2>2. \A m, k \in Names : m # k =>
          \A jt \in Range(queue'[m]), kt \in Range(queue'[k]) : Key(jt) # Key(kt)
    BY <1>6 DEF Inductive, OneCopy
  <2>3. \A m \in Names : \A jt \in Range(queue'[m]), h \in held' : Key(jt) # Key(h.item)
    BY <1>1, <1>2, <1>6 DEF Inductive, OneCopy
  <2>4. \A f, h \in held' : Key(f.item) = Key(h.item) => f = h
    BY <1>1, <1>2, <1>7 DEF Inductive, OneCopy
  <2> QED BY <2>1, <2>2, <2>3, <2>4 DEF OneCopy
<1>11. Forwarding' /\ PastBoundary'
  BY <1>1, <1>2 DEF Inductive, Forwarding, PastBoundary, BeforeArtifact
<1>12. ArtifactOnce'
  BY <1>1, <1>2, <1>6, <1>7, <1>8 DEF Inductive, ArtifactOnce, FileFollows
<1>13. RetryBudget'
  <2>1. it.attempts < MaxAttempts[it.queue]
    BY <1>3, <1>5 DEF Inductive, RetryBudget
  <2> QED BY <1>1, <1>2, <1>6, <2>1, QueueNames DEF Inductive, RetryBudget
<1>14. Numbered'
  BY <1>1, <1>2, <1>3, <1>6 DEF Inductive, Numbered
<1>15. \A k : Somewhere(k)' => Somewhere(k)
  BY <1>1, <1>2, <1>3, <1>6 DEF Somewhere
<1>16. Unsent'
  BY <1>1, <1>2, <1>15 DEF Inductive, Unsent
<1>17. Accounted'
  BY <1>1, <1>2, <1>6 DEF Inductive, Accounted
<1>18. DeadIsMissing' /\ DeadLetterJustified'
  BY <1>1, <1>2, <1>6, QueueNames DEF Inductive, DeadIsMissing, DeadLetterJustified
<1> QED BY <1>8, <1>9, <1>10, <1>11, <1>12, <1>13, <1>14, <1>16, <1>17, <1>18 DEF Inductive

LEMMA PutHideStep ==
  ASSUME Inductive, TypeOK', PutHide
  PROVE  Inductive'
<1>1. PICK r \in Request : r.hide = nextHide /\ intake' = intake \cup {r}
  <2>1. nextHide \in Nat \ {0} /\ Routes \subseteq Queues
    BY ConstantsAssumption DEF Inductive, TypeOK
  <2>2. [hide |-> nextHide, todo |-> Routes, kind |-> "webhook"] \in Request
    BY <2>1 DEF Request
  <2>3. \A q \in Routes : [hide |-> nextHide, todo |-> {q}, kind |-> "manual"] \in Request
    BY <2>1 DEF Request
  <2> QED BY <2>2, <2>3 DEF PutHide
<1>2. /\ UNCHANGED <<queue, file, held, artifacts, accepted, lost, withdrawn>>
      /\ hides' = hides \cup {nextHide}
      /\ nextHide' = nextHide + 1
      /\ nextHide \in Nat \ {0}
  BY DEF Inductive, TypeOK, PutHide
<1>3. HomeQueue' /\ FileFollows' /\ OneCopy' /\ RetryBudget'
  BY <1>2 DEF Inductive, HomeQueue, FileFollows, OneCopy, DistinctKeys, RetryBudget
<1>4. Forwarding' /\ PastBoundary' /\ ArtifactOnce' /\ Accounted'
  BY <1>2 DEF Inductive, Forwarding, PastBoundary, ArtifactOnce, Accounted
<1>5. \A n \in Names : \A it \in Range(queue[n]) : it \in Item
  BY RangeItems DEF Inductive, TypeOK
<1>6. Numbered'
  <2>1. \A x \in Nat : x < nextHide => x < nextHide'
    BY <1>2
  <2>2. \A k \in artifacts : k[1] \in Nat
    BY DEF Inductive, TypeOK
  <2>3. \A f \in held : f.item.hide \in Nat /\ f.out \in Nat
    BY DEF Inductive, TypeOK, Handler, Item
  <2>4. \A s \in intake : s.hide \in Nat
    BY DEF Inductive, TypeOK, Request
  <2>5. nextHide < nextHide'
    BY <1>2
  <2> QED BY <1>1, <1>2, <1>5, <2>1, <2>2, <2>3, <2>4, <2>5 DEF Inductive, Numbered, Item
<1>7. \A k : Somewhere(k)' => Somewhere(k)
  BY <1>2 DEF Somewhere
<1>8. \A q \in Queues : ~Somewhere(<<nextHide, q>>)
  BY <1>2, <1>5 DEF Inductive, Somewhere, Numbered, Key
<1>9. Unsent'
  <2>1. r.todo \subseteq Queues
    BY DEF Request
  <2>2. \A s \in intake : s.hide # nextHide
    BY <1>2 DEF Inductive, Numbered
  <2>3. \A f \in held : f.pc = "send" => f.out # nextHide
    BY <1>2 DEF Inductive, Numbered
  <2> QED BY <1>1, <1>2, <1>7, <1>8, <2>1, <2>2, <2>3 DEF Inductive, Unsent
<1>10. DeadIsMissing' /\ DeadLetterJustified'
  <2>1. \A n \in Names : \A it \in Range(queue[n]) : it.hide # nextHide
    BY <1>2 DEF Inductive, Numbered
  <2>2. \A f \in held : f.item.hide # nextHide
    BY <1>2 DEF Inductive, Numbered
  <2> QED BY <1>2, <2>1, <2>2, QueueNames DEF Inductive, DeadIsMissing, DeadLetterJustified
<1> QED BY <1>3, <1>4, <1>6, <1>9, <1>10 DEF Inductive

\* A restart finds in the files part of what was in memory; what it does not
\* find there or in the artifacts is lost.
LEMMA CrashStep ==
  ASSUME Inductive, TypeOK', Crash
  PROVE  Inductive'
<1>1. /\ queue' = file /\ file' = file /\ held' = {} /\ intake' = {}
      /\ UNCHANGED <<hides, nextHide, artifacts, accepted>>
      /\ lost \subseteq lost'
      /\ \A it \in Unsaved : Key(it) \in lost'
      /\ \A h \in held : h.pc \in BeforeArtifact => Key(h.item) \in lost'
  BY DEF Crash
<1>2. \A n \in Names : Range(file[n]) \subseteq Range(queue[n]) /\ DistinctKeys(file[n])
  BY DEF Inductive, FileFollows
<1>3. HomeQueue' /\ FileFollows'
  BY <1>1, <1>2 DEF Inductive, HomeQueue, FileFollows, DistinctKeys
<1>4. OneCopy'
  <2>1. \A n \in Names : DistinctKeys(queue'[n])
    BY <1>1, <1>2
  <2>2. \A n, m \in Names : n # m =>
          \A it \in Range(queue'[n]), jt \in Range(queue'[m]) : Key(it) # Key(jt)
    BY <1>1, <1>2 DEF Inductive, OneCopy
  <2> QED BY <1>1, <2>1, <2>2 DEF OneCopy
<1>5. RetryBudget'
  BY <1>1, <1>2, QueueNames DEF Inductive, RetryBudget
<1>6. Forwarding' /\ PastBoundary' /\ DeadIsMissing'
  BY <1>1 DEF Forwarding, PastBoundary, DeadIsMissing
<1>7. ArtifactOnce'
  BY <1>1, <1>2 DEF Inductive, ArtifactOnce
<1>8. Numbered' /\ Unsent'
  BY <1>1, <1>2 DEF Inductive, Numbered, Unsent
<1>9. Accounted'
  <2>1. ASSUME NEW k \in accepted
        PROVE  \/ k \in artifacts \cup lost'
               \/ \E n \in Names : \E it \in Range(queue'[n]) : Key(it) = k
    <3>1. CASE k \in artifacts \cup lost
      BY <1>1, <3>1
    <3>2. ASSUME NEW h \in held, Key(h.item) = k
          PROVE  k \in artifacts \cup lost'
      BY <1>1, <3>2 DEF Inductive, PastBoundary
    <3>3. ASSUME NEW n \in Names, NEW it \in Range(queue[n]), Key(it) = k
          PROVE  k \in lost' \/ it \in Range(queue'[n])
      BY <1>1, <3>3 DEF Unsaved
    <3> QED BY <3>1, <3>2, <3>3 DEF Inductive, Accounted
  <2> QED BY <1>1, <2>1 DEF Accounted
<1>10. DeadLetterJustified'
  BY <1>1, <1>2, QueueNames DEF Inductive, DeadLetterJustified
<1> QED BY <1>3, <1>4, <1>5, <1>6, <1>7, <1>8, <1>9, <1>10 DEF Inductive

LEMMA DeleteHideStep ==
  ASSUME Inductive, TypeOK', NEW x \in hides, DeleteHide(x)
  PROVE  Inductive'
<1>1. /\ UNCHANGED <<queue, file, held, nextHide, intake, artifacts, accepted, lost>>
      /\ hides' \subseteq hides
  BY DEF DeleteHide
<1>2. HomeQueue' /\ FileFollows' /\ OneCopy' /\ RetryBudget'
  BY <1>1 DEF Inductive, HomeQueue, FileFollows, OneCopy, DistinctKeys, RetryBudget
<1>3. Forwarding' /\ PastBoundary' /\ ArtifactOnce' /\ Accounted' /\ Numbered'
  BY <1>1 DEF Inductive, Forwarding, PastBoundary, ArtifactOnce, Accounted, Numbered
<1>4. \A k : Somewhere(k)' => Somewhere(k)
  BY <1>1 DEF Somewhere
<1>5. Unsent'
  BY <1>1, <1>4 DEF Inductive, Unsent
<1>6. DeadIsMissing' /\ DeadLetterJustified'
  BY <1>1, QueueNames DEF Inductive, DeadIsMissing, DeadLetterJustified
<1> QED BY <1>2, <1>3, <1>5, <1>6 DEF Inductive

-----------------------------------------------------------------------------
(* The theorems.                                                           *)

LEMMA InductiveInit == Init => Inductive
<1> SUFFICES ASSUME Init PROVE Inductive
  OBVIOUS
<1>1. \A n \in Names : queue[n] = <<>> /\ file[n] = <<>> /\ Range(<<>>) = {}
  BY DEF Init, Range
<1>2. Forwarding /\ PastBoundary /\ DeadIsMissing /\ Accounted
  BY DEF Init, Forwarding, PastBoundary, DeadIsMissing, Accounted
<1>3. HomeQueue /\ FileFollows /\ OneCopy
  BY <1>1 DEF Init, HomeQueue, FileFollows, OneCopy, DistinctKeys
<1>4. ArtifactOnce /\ Numbered /\ Unsent
  BY <1>1 DEF Init, ArtifactOnce, Numbered, Unsent
<1>5. RetryBudget /\ DeadLetterJustified
  BY <1>1, QueueNames DEF Init, RetryBudget, DeadLetterJustified
<1> QED BY <1>2, <1>3, <1>4, <1>5, TypeInit DEF Inductive

LEMMA HandleStep ==
  ASSUME Inductive, TypeOK', NEW h \in held, Handle(h)
  PROVE  Inductive'
<1>1. CASE Acquire(h)
  BY <1>1, MoveStep DEF Acquire, BeforeArtifact, PCs
<1>2. CASE Load(h)
  BY <1>2, MoveStep DEF Load, BeforeArtifact, PCs
<1>3. CASE RunAgent(h)
  BY <1>3, MoveStep DEF RunAgent, BeforeArtifact, PCs
<1>4. CASE Cleanup(h)
  <2>1. Key(h.item) \in artifacts
    BY <1>4 DEF Cleanup, Inductive, PastBoundary, BeforeArtifact
  <2> QED BY <1>4, <2>1, EndStep DEF Cleanup, QueuesAlone
<1>5. CASE Panic(h)
  <2>1. Key(h.item) \in artifacts \cup lost'
    BY <1>5 DEF Panic, Inductive, PastBoundary
  <2> QED BY <1>5, <2>1, EndStep DEF Panic, QueuesAlone
<1> QED BY <1>1, <1>2, <1>3, <1>4, <1>5, WriteStep, PutOutputStep, SendStep, FailStep
        DEF Handle

LEMMA InductiveNext == Inductive /\ [Next]_vars => Inductive'
<1> SUFFICES ASSUME Inductive, [Next]_vars PROVE Inductive'
  OBVIOUS
<1>1. TypeOK'
  BY TypeNext DEF Inductive
<1>2. CASE Next
  BY <1>1, <1>2, PutHideStep, IntakeStep, DequeueStep, HandleStep, CrashStep, DeleteHideStep
     DEF Next
<1>3. CASE UNCHANGED vars
  <2>1. /\ UNCHANGED <<queue, file, held, hides, nextHide, intake>>
        /\ UNCHANGED <<artifacts, accepted, lost, withdrawn>>
    BY <1>3 DEF vars
  <2>2. HomeQueue' /\ FileFollows' /\ OneCopy' /\ RetryBudget'
    BY <2>1 DEF Inductive, HomeQueue, FileFollows, OneCopy, DistinctKeys, RetryBudget
  <2>3. Forwarding' /\ PastBoundary' /\ ArtifactOnce' /\ Accounted' /\ Numbered'
    BY <2>1 DEF Inductive, Forwarding, PastBoundary, ArtifactOnce, Accounted, Numbered
  <2>4. \A k : Somewhere(k)' => Somewhere(k)
    BY <2>1 DEF Somewhere
  <2>5. Unsent' /\ DeadIsMissing' /\ DeadLetterJustified'
    BY <2>1, <2>4 DEF Inductive, Unsent, DeadIsMissing, DeadLetterJustified
  <2> QED BY <1>1, <2>2, <2>3, <2>5 DEF Inductive
<1> QED BY <1>2, <1>3

\* The inductive invariant holds in every reachable state.
THEOREM InductiveHolds == Spec => []Inductive
  BY InductiveInit, InductiveNext, PTL DEF Spec

\* Every queue and file holds items, and every handler is in one of its
\* stages, in every reachable state.
THEOREM TypeCorrect == Spec => []TypeOK
<1>1. Inductive => TypeOK
  BY DEF Inductive
<1> QED BY <1>1, InductiveHolds, PTL

\* No item gets a second artifact: once written, the item is in no queue, no
\* file and no handler that could write again, whatever fails and restarts.
THEOREM ArtifactsAreWrittenOnce == Spec => []ArtifactOnce
<1>1. Inductive => ArtifactOnce
  BY DEF Inductive
<1> QED BY <1>1, InductiveHolds, PTL

\* No two queue entries or handlers have the same item, at any time.
THEOREM ItemsAreNotCopied == Spec => []OneCopy
<1>1. Inductive => OneCopy
  BY DEF Inductive
<1> QED BY <1>1, InductiveHolds, PTL

\* An acknowledged item is queued, held, done or lost to a panic or a crash
\* that hit its own handler or its unsaved retry; nothing else loses one.
THEOREM NothingElseIsLost == Spec => []Accounted
<1>1. Inductive => Accounted
  BY DEF Inductive
<1> QED BY <1>1, InductiveHolds, PTL

\* No item is run more often than its curing allows.
THEOREM RetriesAreBounded == Spec => []RetryBudget
<1>1. Inductive => RetryBudget
  BY DEF Inductive
<1> QED BY <1>1, InductiveHolds, PTL

\* Dead letters are exhausted or have lost their hide.
THEOREM DeadLettersAreJustified == Spec => []DeadLetterJustified
<1>1. Inductive => DeadLetterJustified
  BY DEF Inductive
<1> QED BY <1>1, InductiveHolds, PTL

-----------------------------------------------------------------------------
(* HideRetained, for a deployment with one route: every hide has one        *)
(* consumer then, and the worker that deletes it is that one.               *)

\* Items in queues and handlers use their hides, and so does what is still to be
\* enqueued.
LEMMA UsesHas ==
  /\ \A n \in Names : \A it \in Range(queue[n]) : Key(it) \in Uses
  /\ \A h \in held : Key(h.item) \in Uses
  /\ \A h \in held : h.pc = "send" => <<h.out, Out[h.item.queue]>> \in Uses
  /\ \A r \in intake : \A q \in r.todo : <<r.hide, q>> \in Uses
<1>1. \A n \in Names : \A it \in Range(queue[n]) : Key(it) \in UsesQueued
  BY DEF UsesQueued
<1>2. \A h \in held : Key(h.item) \in UsesHeld
  BY DEF UsesHeld
<1>3. \A r \in intake : \A q \in r.todo : <<r.hide, q>> \in UsesAsked
  BY DEF UsesAsked
<1>4. \A h \in held : h.pc = "send" => <<h.out, Out[h.item.queue]>> \in UsesSending
  BY DEF UsesSending
<1> QED BY <1>1, <1>2, <1>3, <1>4 DEF Uses

\* Nothing else uses a hide.
LEMMA UsesOnly ==
  ASSUME NEW S,
         \A n \in Names : \A it \in Range(queue'[n]) : Key(it) \in S,
         \A h \in held' : Key(h.item) \in S,
         \A h \in held' : h.pc = "send" => <<h.out, Out[h.item.queue]>> \in S,
         \A r \in intake' : \A q \in r.todo : <<r.hide, q>> \in S
  PROVE  Uses' \subseteq S
<1>1. UsesQueued' \subseteq S
  BY DEF UsesQueued
<1>2. UsesHeld' \subseteq S
  BY DEF UsesHeld
<1>3. UsesAsked' \subseteq S
  BY DEF UsesAsked
<1>4. UsesSending' \subseteq S
  BY DEF UsesSending
<1> QED BY <1>1, <1>2, <1>3, <1>4 DEF Uses

\* A hide that is used has been put.
LEMMA UsesNumbered ==
  ASSUME TypeOK, Numbered, NEW x \in Uses
  PROVE  x[1] # nextHide
<1>1. nextHide \in Nat
  BY DEF TypeOK
<1>2. ASSUME NEW n \in Names, NEW it \in Range(queue[n]) PROVE Key(it)[1] # nextHide
  <2>1. queue[n] \in Seq(Item)
    BY DEF TypeOK
  <2>2. it \in Item /\ it.hide < nextHide
    BY <2>1, RangeItems DEF Numbered
  <2> QED BY <1>1, <2>2 DEF Key, Item
<1>3. ASSUME NEW h \in held PROVE Key(h.item)[1] # nextHide
  BY <1>1, HandlerFacts DEF Numbered
<1>4. ASSUME NEW h \in held, h.pc = "send" PROVE h.out # nextHide
  <2>1. h.out \in Nat /\ h.out < nextHide
    BY <1>4 DEF TypeOK, Handler, Numbered
  <2> QED BY <1>1, <2>1
<1>5. ASSUME NEW r \in intake PROVE r.hide # nextHide
  <2>1. r.hide \in Nat /\ r.hide < nextHide
    BY DEF TypeOK, Request, Numbered
  <2> QED BY <1>1, <2>1
<1>6. CASE \E n \in Names : \E it \in Range(queue[n]) : x = Key(it)
  BY <1>2, <1>6
<1>7. CASE \E h \in held : x = Key(h.item)
  BY <1>3, <1>7
<1>8. CASE \E h \in held : h.pc = "send" /\ x = <<h.out, Out[h.item.queue]>>
  BY <1>4, <1>8
<1>9. CASE \E r \in intake : \E q \in r.todo : x = <<r.hide, q>>
  BY <1>5, <1>9
<1> QED BY <1>6, <1>7, <1>8, <1>9 DEF Uses, UsesQueued, UsesHeld, UsesAsked, UsesSending

\* A step that adds no use and deletes no hide, ...
LEMMA UsesShrink ==
  ASSUME OneConsumer, UsesKept, Uses' \subseteq Uses,
         hides \cup withdrawn \subseteq hides' \cup withdrawn'
  PROVE  OneConsumer' /\ UsesKept'
  BY DEF OneConsumer, UsesKept

\* ... and one that puts a hide for one consumer.
LEMMA UsesGrow ==
  ASSUME TypeOK, Numbered, OneConsumer, UsesKept, NEW q,
         Uses' \subseteq Uses \cup {<<nextHide, q>>},
         hides' = hides \cup {nextHide}, withdrawn' = withdrawn
  PROVE  OneConsumer' /\ UsesKept'
<1>1. \A x \in Uses : x[1] # nextHide
  BY UsesNumbered
<1>2. \A x \in Uses' : x \in Uses \/ x = <<nextHide, q>>
  OBVIOUS
<1>3. OneConsumer'
  BY <1>1, <1>2 DEF OneConsumer
<1>4. UsesKept'
  BY <1>2 DEF UsesKept
<1> QED BY <1>3, <1>4

\* A new item in a queue.
LEMMA PushUses ==
  ASSUME Inductive, NEW n \in Names, NEW it \in Item, Push(n, it), Key(it) \in Uses
  PROVE  \A m \in Names : \A jt \in Range(queue'[m]) : Key(jt) \in Uses
  BY UsesHas, PushMembers

\* An intake puts a hide for its one route, and enqueues one item for it.
LEMMA IntakeKeepsHides ==
  ASSUME Inductive, OneConsumer, UsesKept, \A p, q \in Routes : p = q,
         \/ PutHide
         \/ \E r \in intake : \E q \in r.todo : IntakeEnqueue(r, q) \/ IntakeFails(r, q)
  PROVE  OneConsumer' /\ UsesKept'
<1>0. TypeOK /\ Numbered
  BY DEF Inductive
<1>1. CASE PutHide
  <2>1. /\ hides' = hides \cup {nextHide} /\ UNCHANGED <<queue, held, withdrawn>>
        /\ \E r : intake' = intake \cup {r} /\ r.hide = nextHide /\ r.todo \subseteq Routes
    <3> DEFINE r(todo, kind) == [hide |-> nextHide, todo |-> todo, kind |-> kind]
    <3>1. \A todo, kind : r(todo, kind).hide = nextHide /\ r(todo, kind).todo = todo
      OBVIOUS
    <3>2. \E todo \in SUBSET Routes : \E kind : intake' = intake \cup {r(todo, kind)}
      <4>1. \A q \in Routes : {q} \in SUBSET Routes
        OBVIOUS
      <4> QED BY <1>1, <4>1 DEF PutHide
    <3> HIDE DEF r
    <3> QED BY <1>1, <3>1, <3>2 DEF PutHide
  <2>2. PICK r : intake' = intake \cup {r} /\ r.hide = nextHide /\ r.todo \subseteq Routes
    BY <2>1
  <2>3. \E q : \A p \in r.todo : p = q
    BY <2>2
  <2>4. PICK q : \A p \in r.todo : p = q
    BY <2>3
  <2>5. Uses' \subseteq Uses \cup {<<nextHide, q>>}
    <3>1. \A s \in intake' : \A p \in s.todo : <<s.hide, p>> \in Uses \cup {<<nextHide, q>>}
      BY <2>2, <2>4, UsesHas
    <3> QED BY <2>1, <3>1, UsesHas, UsesOnly
  <2> QED BY <1>0, <2>1, <2>5, UsesGrow
<1>2. ASSUME NEW r \in intake, NEW q \in r.todo, IntakeEnqueue(r, q) \/ IntakeFails(r, q)
      PROVE  OneConsumer' /\ UsesKept'
  <2>1. r \in Request /\ q \in Queues /\ r.hide \in Nat \ {0}
    BY <1>0 DEF TypeOK, Request
  <2>2. Push(Live(q), NewItem(r.hide, q)) /\ held' = held
    BY <1>2 DEF IntakeEnqueue, IntakeFails, Push
  <2>3. Key(NewItem(r.hide, q)) \in Uses
    BY <2>1, NewItemFacts, UsesHas
  <2>4. \A m \in Names : \A jt \in Range(queue'[m]) : Key(jt) \in Uses
    BY <2>1, <2>2, <2>3, NewItemFacts, PushUses
  <2>5. \A s \in intake' : \E t \in intake : s.hide = t.hide /\ s.todo \subseteq t.todo
    <3>1. [r EXCEPT !.todo = r.todo \ {q}].hide = r.hide
          /\ [r EXCEPT !.todo = r.todo \ {q}].todo = r.todo \ {q}
      BY <2>1 DEF Request
    <3> QED BY <1>2, <3>1 DEF IntakeEnqueue, IntakeFails
  <2>6. \A s \in intake' : \A p \in s.todo : <<s.hide, p>> \in Uses
    BY <2>5, UsesHas
  <2>7. Uses' \subseteq Uses
    BY <2>2, <2>4, <2>6, UsesHas, UsesOnly
  <2>8. hides \cup withdrawn \subseteq hides' \cup withdrawn'
    BY <1>2 DEF IntakeEnqueue, IntakeFails
  <2> QED BY <2>7, <2>8, UsesShrink
<1> QED BY <1>1, <1>2

\* The stages of a handler before it is through with its hide.
LEMMA StageKeepsHides ==
  ASSUME Inductive, OneConsumer, UsesKept, NEW h \in held,
         \/ Acquire(h) \/ Load(h) \/ RunAgent(h) \/ WriteArtifact(h) \/ Panic(h)
  PROVE  OneConsumer' /\ UsesKept'
<1>1. /\ UNCHANGED <<queue, intake, hides, withdrawn>>
      /\ Ended(h) \/ \E pc \in PCs \ {"send"} : Moved(h, pc)
  BY DEF Acquire, Load, RunAgent, WriteArtifact, AfterArtifact, Panic, PCs
<1>2. ASSUME NEW pc \in PCs \ {"send"}
      PROVE  [h EXCEPT !.pc = pc].item = h.item /\ [h EXCEPT !.pc = pc].pc = pc
  BY HandlerFacts DEF Inductive, Handler
<1>3. \A g \in held' : g \in held \/ (g.item = h.item /\ g.pc # "send")
  BY <1>1, <1>2 DEF Ended, Moved
<1>4. Uses' \subseteq Uses
  BY <1>1, <1>3, UsesHas, UsesOnly
<1> QED BY <1>1, <1>4, UsesShrink

\* The output is a hide for the one consumer of the output queue.
LEMMA OutputKeepsHides ==
  ASSUME Inductive, OneConsumer, UsesKept, NEW h \in held, PutOutput(h) \/ SendOutput(h)
  PROVE  OneConsumer' /\ UsesKept'
<1>0. TypeOK /\ Numbered /\ Forwarding /\ h \in Handler /\ h.out \in Nat
  BY HandlerFacts DEF Inductive, Handler
<1>1. CASE PutOutput(h)
  <2> DEFINE g == [h EXCEPT !.pc = "send", !.out = nextHide]
  <2>1. g.item = h.item /\ g.out = nextHide /\ nextHide \in Nat
    BY <1>0 DEF Handler, TypeOK
  <2>2. CASE held' = (held \ {h}) \cup {g} /\ hides' = hides \cup {nextHide}
    <3>1. \A k \in held' : k \in held \/ (k.item = h.item /\ k.out = nextHide)
      BY <2>1, <2>2
    <3>2. UNCHANGED <<queue, intake, withdrawn>>
      BY <1>1 DEF PutOutput
    <3>3. Uses' \subseteq Uses \cup {<<nextHide, Out[h.item.queue]>>}
      <4> DEFINE S == Uses \cup {<<nextHide, Out[h.item.queue]>>}
      <4>1. \A k \in held' : Key(k.item) \in S
        BY <3>1, UsesHas
      <4>2. \A k \in held' : k.pc = "send" => <<k.out, Out[k.item.queue]>> \in S
        BY <3>1, UsesHas
      <4>3. \A n \in Names : \A it \in Range(queue'[n]) : Key(it) \in S
        BY <3>2, UsesHas
      <4>4. \A r \in intake' : \A q \in r.todo : <<r.hide, q>> \in S
        BY <3>2, UsesHas
      <4> HIDE DEF S
      <4>5. Uses' \subseteq S
        BY <4>1, <4>2, <4>3, <4>4, UsesOnly
      <4> QED BY <4>5 DEF S
    <3> QED BY <1>0, <2>2, <3>2, <3>3, UsesGrow
  <2>3. CASE Moved(h, "cleanup") /\ UNCHANGED hides
    <3>1. [h EXCEPT !.pc = "cleanup"].item = h.item /\ [h EXCEPT !.pc = "cleanup"].pc = "cleanup"
      BY <1>0 DEF Handler
    <3>2. \A k \in held' : k \in held \/ (k.item = h.item /\ k.pc # "send")
      BY <2>3, <3>1 DEF Moved
    <3>3. UNCHANGED <<queue, intake, withdrawn>>
      BY <1>1 DEF PutOutput
    <3>4. Uses' \subseteq Uses
      BY <3>2, <3>3, UsesHas, UsesOnly
    <3> QED BY <2>3, <3>3, <3>4, UsesShrink
  <2> QED BY <1>1, <2>2, <2>3 DEF PutOutput
<1>2. CASE SendOutput(h)
  <2> DEFINE q == Out[h.item.queue]
             g == [h EXCEPT !.pc = "cleanup", !.out = 0]
  <2>1. /\ q \in Queues /\ h.out \in Nat \ {0} /\ h.pc = "send"
        /\ g.item = h.item /\ g.pc = "cleanup"
    BY <1>0, <1>2 DEF SendOutput, Forwarding, Handler
  <2>2. Push(Live(q), NewItem(h.out, q)) /\ UNCHANGED <<intake, hides, withdrawn>>
    BY <1>2 DEF SendOutput
  <2>3. NewItem(h.out, q) \in Item /\ Live(q) \in Names /\ Key(NewItem(h.out, q)) = <<h.out, q>>
    BY <2>1, NewItemFacts
  <2>4. <<h.out, q>> \in Uses
    BY <2>1, UsesHas
  <2>5. \A k \in held' : k \in held \/ (k.item = h.item /\ k.pc # "send")
    BY <1>2, <2>1 DEF SendOutput
  <2> HIDE DEF q, g
  <2>6. \A m \in Names : \A jt \in Range(queue'[m]) : Key(jt) \in Uses
    BY <2>2, <2>3, <2>4, PushUses
  <2>7. Uses' \subseteq Uses
    BY <2>2, <2>5, <2>6, UsesHas, UsesOnly
  <2> QED BY <2>2, <2>7, UsesShrink
<1> QED BY <1>1, <1>2

\* Whoever deletes a hide is the only one that used it.
LEMMA CleanupKeepsHides ==
  ASSUME Inductive, OneConsumer, UsesKept, NEW h \in held, Cleanup(h)
  PROVE  OneConsumer' /\ UsesKept'
<1> DEFINE k == Key(h.item)
<1>1. /\ UNCHANGED <<queue, intake, withdrawn>> /\ held' = held \ {h}
      /\ hides \ {h.item.hide} \subseteq hides'
  BY DEF Cleanup, Ended
<1>2. k \in Uses /\ k[1] = h.item.hide /\ Somewhere(k)
  BY UsesHas DEF Key, Somewhere
<1>3. \A n \in Names : \A it \in Range(queue'[n]) : Key(it) \in Uses \ {k}
  BY <1>1, UsesHas DEF Inductive, OneCopy
<1>4. \A g \in held' : Key(g.item) \in Uses \ {k}
  BY <1>1, UsesHas DEF Inductive, OneCopy
<1>5. \A g \in held' : g.pc = "send" => <<g.out, Out[g.item.queue]>> \in Uses \ {k}
  BY <1>1, <1>2, UsesHas DEF Inductive, Unsent
<1>6. \A r \in intake' : \A q \in r.todo : <<r.hide, q>> \in Uses \ {k}
  BY <1>1, <1>2, UsesHas DEF Inductive, Unsent
<1>7. Uses' \subseteq Uses \ {k}
  BY <1>3, <1>4, <1>5, <1>6, UsesOnly
<1>8. \A x \in Uses' : x \in Uses /\ x[1] # h.item.hide
  BY <1>2, <1>7 DEF OneConsumer
<1> QED BY <1>1, <1>8 DEF OneConsumer, UsesKept

\* A failed item keeps its hide, whichever queue it goes to.
LEMMA FailKeepsHides ==
  ASSUME Inductive, OneConsumer, UsesKept, NEW h \in held, Fail(h)
  PROVE  OneConsumer' /\ UsesKept'
<1> DEFINE it == [h.item EXCEPT !.attempts = @ + 1]
<1>1. it \in Item /\ it.queue \in Queues /\ Key(it) = Key(h.item)
  BY HandlerFacts, ItemTypes DEF Inductive, Item, Key
<1>2. PICK n \in Names : Push(n, it)
  BY <1>1, QueueNames DEF Fail
<1>3. UNCHANGED <<intake, hides, withdrawn>> /\ held' \subseteq held
  BY DEF Fail, Ended
<1> HIDE DEF it
<1>4. \A m \in Names : \A jt \in Range(queue'[m]) : Key(jt) \in Uses
  BY <1>1, <1>2, UsesHas, PushUses
<1>5. Uses' \subseteq Uses
  BY <1>3, <1>4, UsesHas, UsesOnly
<1> QED BY <1>3, <1>5, UsesShrink

\* The poll, a crash and an operator add no use; an operator's hide is withdrawn.
LEMMA RestKeepsHides ==
  ASSUME Inductive, OneConsumer, UsesKept,
         \/ \E q \in Queues : Dequeue(q)
         \/ Crash
         \/ \E x \in hides : DeleteHide(x)
         \/ UNCHANGED vars
  PROVE  OneConsumer' /\ UsesKept'
<1>1. hides \cup withdrawn \subseteq hides' \cup withdrawn' /\ intake' \subseteq intake
  BY DEF Dequeue, Crash, DeleteHide, vars
<1>2. CASE \E q \in Queues : Dequeue(q)
  <2>1. PICK q \in Queues : Dequeue(q)
    BY <1>2
  <2> DEFINE s == queue[Live(q)]
  <2>2. s \in Seq(Item) /\ s # <<>> /\ Live(q) \in Names
    BY <2>1, QueueNames DEF Inductive, TypeOK, Dequeue
  <2>3. \A m \in Names : Range(queue'[m]) \subseteq Range(queue[m])
    BY <2>1, <2>2, TailRange DEF Inductive, TypeOK, Dequeue
  <2>4. \A h \in held' : h \in held \/ (h.item \in Range(s) /\ h.pc = "waiting")
    BY <2>1, <2>2, TailRange DEF Dequeue
  <2>5. Uses' \subseteq Uses
    BY <1>1, <2>2, <2>3, <2>4, UsesHas, UsesOnly
  <2> QED BY <1>1, <2>5, UsesShrink
<1>3. CASE Crash
  <2>1. \A m \in Names : Range(queue'[m]) \subseteq Range(queue[m])
    BY <1>3 DEF Crash, Inductive, FileFollows
  <2>2. held' = {}
    BY <1>3 DEF Crash
  <2>3. Uses' \subseteq Uses
    BY <1>1, <2>1, <2>2, UsesHas, UsesOnly
  <2> QED BY <1>1, <2>3, UsesShrink
<1>4. CASE UNCHANGED <<queue, held, intake>>
  <2>1. Uses' \subseteq Uses
    BY <1>4, UsesHas, UsesOnly
  <2> QED BY <1>1, <2>1, UsesShrink
<1> QED BY <1>2, <1>3, <1>4 DEF DeleteHide, vars

\* worker.go:1048-1058: with one route, the hide of an item is in the store for as
\* long as the item may be run, or retried out of the dead-letter queue, unless
\* somebody withdrew it.  (With two routes the first worker deletes it.)
THEOREM HidesAreRetained ==
  ASSUME \A p, q \in Routes : p = q
  PROVE  Spec => []HideRetained
<1>1. Init => OneConsumer /\ UsesKept
  <2> SUFFICES ASSUME Init PROVE Uses = {}
    BY DEF OneConsumer, UsesKept
  <2>1. UNION {Range(queue[n]) : n \in Names} = {} /\ held = {} /\ intake = {}
    BY DEF Init, Range
  <2> QED BY <2>1 DEF Uses, UsesQueued, UsesHeld, UsesAsked, UsesSending
<1>2. Inductive /\ OneConsumer /\ UsesKept /\ [Next]_vars => OneConsumer' /\ UsesKept'
  <2> SUFFICES ASSUME Inductive, OneConsumer, UsesKept, [Next]_vars
               PROVE  OneConsumer' /\ UsesKept'
    OBVIOUS
  <2>1. ASSUME NEW h \in held, Handle(h) PROVE OneConsumer' /\ UsesKept'
    BY <2>1, StageKeepsHides, OutputKeepsHides, CleanupKeepsHides, FailKeepsHides DEF Handle
  <2> QED BY <2>1, IntakeKeepsHides, RestKeepsHides DEF Next
<1>3. Inductive /\ UsesKept => HideRetained
  BY UsesHas DEF Key, UsesKept, HideRetained
<1> QED BY <1>1, <1>2, <1>3, InductiveHolds, PTL DEF Spec

-----------------------------------------------------------------------------
(* ItemLife.  Nothing that is lost comes back: new items have a new hide,   *)
(* and a restart loads no item that it counts as lost.                      *)

\* The uses a step adds are of the next hide, and whatever gets its artifact was
\* in a handler.
LEMMA UsesStep ==
  ASSUME Inductive, [Next]_vars
  PROVE  /\ \A x \in Uses' : x \in Uses \/ x[1] = nextHide
         /\ \A k \in artifacts' : k \in artifacts \/ k \in Uses
         /\ nextHide \in Nat /\ nextHide' \in Nat /\ nextHide <= nextHide'
<1>0. TypeOK /\ TypeOK' /\ nextHide \in Nat /\ nextHide' \in Nat
  BY TypeNext DEF Inductive, TypeOK
<1>1. /\ \A k \in artifacts' : k \in artifacts \/ k \in Uses
      /\ nextHide <= nextHide'
  <2>1. CASE UNCHANGED <<artifacts, nextHide>>
    BY <1>0, <2>1
  <2>2. CASE PutHide \/ \E h \in held : PutOutput(h)
    <3>1. artifacts' = artifacts /\ (nextHide' = nextHide + 1 \/ nextHide' = nextHide)
      BY <2>2 DEF PutHide, PutOutput
    <3> QED BY <1>0, <3>1
  <2>3. ASSUME NEW h \in held, WriteArtifact(h)
        PROVE  UNCHANGED nextHide /\ artifacts' \subseteq artifacts \cup {Key(h.item)}
    BY <2>3 DEF WriteArtifact
  <2>4. ASSUME NEW h \in held, Handle(h)
        PROVE  \/ UNCHANGED <<artifacts, nextHide>>
               \/ PutOutput(h) \/ WriteArtifact(h)
    BY <2>4 DEF Handle, Acquire, Load, RunAgent, SendOutput, Cleanup, Fail, Panic
  <2>5. \/ UNCHANGED <<artifacts, nextHide>> \/ PutHide
        \/ \E h \in held : PutOutput(h) \/ WriteArtifact(h)
    BY <2>4 DEF Next, IntakeEnqueue, IntakeFails, Dequeue, Crash, DeleteHide, vars
  <2> QED BY <1>0, <2>1, <2>2, <2>3, <2>5, UsesHas
<1> DEFINE S == {x \in Uses \cup Uses' : x \in Uses \/ x[1] = nextHide}
<1>2. Uses' \subseteq S
  <2>1. ASSUME \A n \in Names : \A it \in Range(queue'[n]) : Key(it) \in Uses,
               \A h \in held' : Key(h.item) \in Uses,
               \A h \in held' : h.pc = "send" =>
                  <<h.out, Out[h.item.queue]>> \in Uses \/ h.out = nextHide,
               \A r \in intake' : \A q \in r.todo : <<r.hide, q>> \in Uses \/ r.hide = nextHide
        PROVE  Uses' \subseteq S
    <3> DEFINE T == Uses \cup {x \in Uses' : x[1] = nextHide}
    <3>1. \A h \in held' : h.pc = "send" => <<h.out, Out[h.item.queue]>> \in Uses'
      BY DEF Uses, UsesSending
    <3>2. \A r \in intake' : \A q \in r.todo : <<r.hide, q>> \in Uses'
      BY DEF Uses, UsesAsked
    <3>3. \A n \in Names : \A it \in Range(queue'[n]) : Key(it) \in T
      BY <2>1
    <3>4. \A h \in held' : Key(h.item) \in T
      BY <2>1
    <3>5. \A h \in held' : h.pc = "send" => <<h.out, Out[h.item.queue]>> \in T
      BY <2>1, <3>1
    <3>6. \A r \in intake' : \A q \in r.todo : <<r.hide, q>> \in T
      BY <2>1, <3>2
    <3> HIDE DEF T
    <3>7. Uses' \subseteq T
      BY <3>3, <3>4, <3>5, <3>6, UsesOnly
    <3> QED BY <3>7 DEF T
  <2>2. ASSUME queue' = queue, intake' = intake,
               \A h \in held' : \/ h \in held
                                \/ \E g \in held : h.item = g.item /\ h.pc # "send"
                                \/ \E g \in held : h.item = g.item /\ h.out = nextHide
        PROVE  Uses' \subseteq S
    BY <2>1, <2>2, UsesHas
  <2>3. CASE PutHide
    <3>1. /\ UNCHANGED <<queue, held>>
          /\ \A r \in intake' : r \in intake \/ r.hide = nextHide
      BY <2>3 DEF PutHide
    <3> QED BY <2>1, <3>1, UsesHas
  <2>4. ASSUME NEW r \in intake, NEW q \in r.todo, IntakeEnqueue(r, q) \/ IntakeFails(r, q)
        PROVE  Uses' \subseteq S
    <3>1. r \in Request /\ q \in Queues /\ r.hide \in Nat \ {0}
      BY <1>0 DEF TypeOK, Request
    <3>2. Push(Live(q), NewItem(r.hide, q)) /\ held' = held
      BY <2>4 DEF IntakeEnqueue, IntakeFails, Push
    <3>3. Key(NewItem(r.hide, q)) \in Uses
      BY <3>1, NewItemFacts, UsesHas
    <3>4. \A m \in Names : \A jt \in Range(queue'[m]) : Key(jt) \in Uses
      BY <3>1, <3>2, <3>3, NewItemFacts, PushUses
    <3>5. \A s \in intake' : \E t \in intake : s.hide = t.hide /\ s.todo \subseteq t.todo
      <4>1. [r EXCEPT !.todo = r.todo \ {q}].hide = r.hide
            /\ [r EXCEPT !.todo = r.todo \ {q}].todo = r.todo \ {q}
        BY <3>1 DEF Request
      <4> QED BY <2>4, <4>1 DEF IntakeEnqueue, IntakeFails
    <3> QED BY <2>1, <3>2, <3>4, <3>5, UsesHas
  <2>5. ASSUME NEW q \in Queues, Dequeue(q) PROVE Uses' \subseteq S
    <3> DEFINE s == queue[Live(q)]
    <3>1. s \in Seq(Item) /\ s # <<>> /\ Live(q) \in Names
      BY <1>0, <2>5, QueueNames DEF TypeOK, Dequeue
    <3>2. \A m \in Names : Range(queue'[m]) \subseteq Range(queue[m])
      BY <1>0, <2>5, <3>1, TailRange DEF TypeOK, Dequeue
    <3>3. /\ \A h \in held' : h \in held \/ (h.item \in Range(s) /\ h.pc = "waiting")
          /\ intake' = intake
      BY <2>5, <3>1, TailRange DEF Dequeue
    <3> HIDE DEF s
    <3>4. \A it \in Range(s) : Key(it) \in Uses
      BY <3>1, UsesHas DEF s
    <3> QED BY <2>1, <3>2, <3>3, <3>4, UsesHas
  <2>6. ASSUME NEW h \in held, Handle(h) PROVE Uses' \subseteq S
    <3>0. h \in Handler
      BY <1>0, HandlerFacts
    <3>1. CASE Acquire(h) \/ Load(h) \/ RunAgent(h) \/ WriteArtifact(h) \/ Panic(h) \/ Cleanup(h)
      <4>1. /\ UNCHANGED <<queue, intake>>
            /\ Ended(h) \/ \E pc \in PCs \ {"send"} : Moved(h, pc)
        BY <3>1 DEF Acquire, Load, RunAgent, WriteArtifact, AfterArtifact, Panic, Cleanup, PCs
      <4>2. ASSUME NEW pc \in PCs \ {"send"}
            PROVE  [h EXCEPT !.pc = pc].item = h.item /\ [h EXCEPT !.pc = pc].pc = pc
        BY <3>0 DEF Handler
      <4>3. \A g \in held' : g \in held \/ (g.item = h.item /\ g.pc # "send")
        BY <4>1, <4>2 DEF Ended, Moved
      <4> QED BY <2>2, <4>1, <4>3
    <3>2. CASE PutOutput(h)
      <4>1. [h EXCEPT !.pc = "send", !.out = nextHide].item = h.item
            /\ [h EXCEPT !.pc = "send", !.out = nextHide].out = nextHide
            /\ [h EXCEPT !.pc = "cleanup"].item = h.item
            /\ [h EXCEPT !.pc = "cleanup"].pc = "cleanup"
        BY <3>0 DEF Handler
      <4>2. UNCHANGED <<queue, intake>>
        BY <3>2 DEF PutOutput
      <4>3. \A g \in held' : g \in held \/ (g.item = h.item /\ (g.pc # "send" \/ g.out = nextHide))
        BY <3>2, <4>1 DEF PutOutput, Moved
      <4> QED BY <2>2, <4>2, <4>3
    <3>3. CASE SendOutput(h)
      <4> DEFINE q == Out[h.item.queue]
                 g == [h EXCEPT !.pc = "cleanup", !.out = 0]
      <4>1. /\ q \in Queues /\ h.out \in Nat \ {0} /\ h.pc = "send"
            /\ g.item = h.item /\ g.pc = "cleanup"
        BY <3>0, <3>3 DEF SendOutput, Inductive, Forwarding, Handler
      <4>2. Push(Live(q), NewItem(h.out, q)) /\ intake' = intake
        BY <3>3 DEF SendOutput
      <4>3. NewItem(h.out, q) \in Item /\ Live(q) \in Names /\ Key(NewItem(h.out, q)) = <<h.out, q>>
        BY <4>1, NewItemFacts
      <4>4. <<h.out, q>> \in Uses
        BY <4>1, UsesHas
      <4>5. \A k \in held' : k \in held \/ (k.item = h.item /\ k.pc # "send")
        BY <3>3, <4>1 DEF SendOutput
      <4> HIDE DEF q, g
      <4>6. \A m \in Names : \A jt \in Range(queue'[m]) : Key(jt) \in Uses
        BY <4>2, <4>3, <4>4, PushUses
      <4> QED BY <2>1, <4>2, <4>5, <4>6, UsesHas
    <3>4. CASE Fail(h)
      <4> DEFINE it == [h.item EXCEPT !.attempts = @ + 1]
      <4>1. it \in Item /\ it.queue \in Queues /\ Key(it) = Key(h.item)
        BY <1>0, HandlerFacts, ItemTypes DEF Item, Key
      <4>2. PICK n \in Names : Push(n, it)
        BY <3>4, <4>1, QueueNames DEF Fail
      <4>3. intake' = intake /\ held' \subseteq held
        BY <3>4 DEF Fail, Ended
      <4> HIDE DEF it
      <4>4. \A m \in Names : \A jt \in Range(queue'[m]) : Key(jt) \in Uses
        BY <4>1, <4>2, UsesHas, PushUses
      <4> QED BY <2>1, <4>3, <4>4, UsesHas
    <3> QED BY <2>6, <3>1, <3>2, <3>3, <3>4 DEF Handle
  <2>7. CASE Crash
    <3>1. /\ \A m \in Names : Range(queue'[m]) \subseteq Range(queue[m])
          /\ held' = {} /\ intake' = {}
      BY <2>7 DEF Crash, Inductive, FileFollows
    <3> QED BY <2>1, <3>1, UsesHas
  <2>8. CASE UNCHANGED <<queue, held, intake>>
    BY <2>2, <2>8
  <2> QED BY <2>3, <2>4, <2>5, <2>6, <2>7, <2>8 DEF Next, DeleteHide, vars
<1> QED BY <1>0, <1>1, <1>2

\* The item of a handler that ends without an artifact, and what a restart does
\* not load, are in use nowhere else.
LEMMA PanicLosesOne ==
  ASSUME Inductive, NEW h \in held, Panic(h)
  PROVE  Key(h.item) \in Uses \ Uses'
<1> DEFINE k == Key(h.item)
<1>1. UNCHANGED <<queue, intake>> /\ held' = held \ {h}
  BY DEF Panic, Ended
<1>2. k \in Uses /\ Somewhere(k)
  BY UsesHas DEF Somewhere
<1>3. \A n \in Names : \A it \in Range(queue'[n]) : Key(it) \in Uses \ {k}
  BY <1>1, UsesHas DEF Inductive, OneCopy
<1>4. \A g \in held' : Key(g.item) \in Uses \ {k}
  BY <1>1, UsesHas DEF Inductive, OneCopy
<1>5. \A g \in held' : g.pc = "send" => <<g.out, Out[g.item.queue]>> \in Uses \ {k}
  BY <1>1, <1>2, UsesHas DEF Inductive, Unsent
<1>6. \A r \in intake' : \A q \in r.todo : <<r.hide, q>> \in Uses \ {k}
  <2>1. \A r \in intake : \A q \in r.todo : ~Somewhere(<<r.hide, q>>)
    BY DEF Inductive, Unsent
  <2> QED BY <1>1, <1>2, <2>1, UsesHas
<1>7. Uses' \subseteq Uses \ {k}
  BY <1>3, <1>4, <1>5, <1>6, UsesOnly
<1> QED BY <1>2, <1>7

LEMMA CrashLosesRest ==
  ASSUME Inductive, Crash
  PROVE  \A k \in lost' : k \in lost \/ (k \in Uses /\ k \notin Uses' /\ k \notin artifacts)
<1> DEFINE Saved == {Key(it) : it \in UNION {Range(file[n]) : n \in Names}}
<1>1. Uses' \subseteq Saved
  <2>1. queue' = file /\ held' = {} /\ intake' = {}
    BY DEF Crash
  <2>2. \A n \in Names : \A it \in Range(file[n]) : Key(it) \in Saved
    OBVIOUS
  <2> QED BY <2>1, <2>2, UsesOnly
<1>2. \A m \in Names : \A it \in Range(file[m]) : it \in Range(queue[m])
  BY DEF Inductive, FileFollows
<1>3. ASSUME NEW n \in Names, NEW it \in Range(queue[n]), it \notin Range(file[n])
      PROVE  Key(it) \in Uses /\ Key(it) \notin Saved /\ Key(it) \notin artifacts
  <2>1. ASSUME NEW m \in Names, NEW jt \in Range(file[m]), Key(jt) = Key(it) PROVE FALSE
    <3>1. jt \in Range(queue[m]) /\ m = n
      BY <1>2, <2>1 DEF Inductive, OneCopy
    <3>2. jt = it
      BY <2>1, <3>1 DEF Inductive, OneCopy, DistinctKeys, Range
    <3> QED BY <1>3, <2>1, <3>1, <3>2
  <2> QED BY <2>1, UsesHas DEF Inductive, ArtifactOnce
<1>4. ASSUME NEW h \in held, h.pc \in BeforeArtifact
      PROVE  Key(h.item) \in Uses /\ Key(h.item) \notin Saved /\ Key(h.item) \notin artifacts
  BY <1>2, <1>4, UsesHas DEF Inductive, OneCopy, ArtifactOnce
<1>5. \A k \in lost' : \/ k \in lost
                       \/ \E n \in Names : \E it \in Range(queue[n]) :
                             it \notin Range(file[n]) /\ k = Key(it)
                       \/ \E h \in held : h.pc \in BeforeArtifact /\ k = Key(h.item)
  BY DEF Crash, Unsaved
<1> HIDE DEF Saved
<1> QED BY <1>1, <1>3, <1>4, <1>5

LEMMA LostStaysLost ==
  ASSUME Inductive, LostForGood, [Next]_vars
  PROVE  LostForGood'
<1>1. /\ \A x \in Uses' : x \in Uses \/ x[1] = nextHide
      /\ \A k \in artifacts' : k \in artifacts \/ k \in Uses
      /\ nextHide \in Nat /\ nextHide' \in Nat /\ nextHide <= nextHide'
  BY UsesStep
<1>2. \A k \in lost : k[1] \in Nat
  BY DEF Inductive, TypeOK
<1>3. ASSUME NEW k \in lost
      PROVE  k[1] < nextHide' /\ k \notin artifacts' /\ k \notin Uses'
  <2>1. k[1] < nextHide /\ k \notin artifacts /\ k \notin Uses
    BY DEF LostForGood
  <2> QED BY <1>1, <1>2, <2>1
<1>4. CASE lost' = lost
  BY <1>3, <1>4 DEF LostForGood
<1>5. \A k \in Uses : (\E n \in Names : \E it \in Range(queue[n]) : k = Key(it))
                      \/ (\E h \in held : k = Key(h.item)) => k[1] < nextHide
  BY DEF Inductive, Numbered, Key
<1>6. ASSUME NEW h \in held, Panic(h), h.pc \in BeforeArtifact PROVE LostForGood'
  <2>1. Key(h.item)[1] < nextHide'
    BY <1>1, HandlerFacts DEF Inductive, Numbered
  <2>2. Key(h.item) \notin artifacts' /\ lost' = lost \cup {Key(h.item)}
    BY <1>6 DEF Panic, Inductive, ArtifactOnce
  <2> QED BY <1>3, <1>6, <2>1, <2>2, PanicLosesOne DEF LostForGood
<1>7. CASE Crash
  <2>1. UNCHANGED <<nextHide, artifacts>>
    BY <1>7 DEF Crash
  <2>2. \A k \in lost' : \/ k \in lost
                         \/ \E n \in Names : \E it \in Range(queue[n]) : k = Key(it)
                         \/ \E h \in held : k = Key(h.item)
    BY <1>7 DEF Crash, Unsaved
  <2> QED BY <1>3, <1>5, <1>7, <2>1, <2>2, CrashLosesRest DEF LostForGood
<1>8. ASSUME NEW h \in held, Handle(h), lost' # lost
      PROVE  Panic(h) /\ h.pc \in BeforeArtifact
  BY <1>8 DEF Handle, Acquire, Load, RunAgent, WriteArtifact, PutOutput, SendOutput,
              Cleanup, Fail, Panic
<1> QED BY <1>4, <1>6, <1>7, <1>8
        DEF Next, PutHide, IntakeEnqueue, IntakeFails, Dequeue, DeleteHide, vars

-----------------------------------------------------------------------------
(* How far an item is can be read off the one place where it is.            *)

InQueue(k, v) ==
  \E n \in Names : \E it \in Range(queue[n]) :
    /\ k = Key(it)
    /\ v = [stage |-> IF n[2] = "live" THEN "waiting" ELSE "dead", tries |-> it.attempts]
InHand(k, v) ==
  \E h \in held : /\ h.pc \in BeforeArtifact /\ k = Key(h.item)
                  /\ v = [stage |-> "working", tries |-> h.item.attempts]
Over(k, v) == \/ k \in artifacts /\ v = [stage |-> "done", tries |-> 0]
              \/ k \in lost /\ v = [stage |-> "lost", tries |-> 0]
Where(k, v) == InQueue(k, v) \/ InHand(k, v) \/ Over(k, v)

\* The count of an item is that of the one copy there is.
LEMMA TriesIs ==
  ASSUME Inductive, NEW it,
         \/ \E n \in Names : it \in Range(queue[n])
         \/ \E h \in held : it = h.item
  PROVE  Tries(Key(it)) = it.attempts
<1> DEFINE All == (UNION {Range(queue[n]) : n \in Names}) \cup {h.item : h \in held}
<1>1. it \in All
  OBVIOUS
<1>2. ASSUME NEW jt \in All, Key(jt) = Key(it) PROVE jt = it
  <2>1. \A n \in Names : \A x, y \in Range(queue[n]) : Key(x) = Key(y) => x = y
    BY DEF Inductive, OneCopy, DistinctKeys, Range
  <2>2. \A n, m \in Names : \A x \in Range(queue[n]), y \in Range(queue[m]) :
          Key(x) = Key(y) => x = y
    BY <2>1 DEF Inductive, OneCopy
  <2>3. /\ \A n \in Names : \A x \in Range(queue[n]), h \in held : Key(x) # Key(h.item)
        /\ \A g, h \in held : Key(g.item) = Key(h.item) => g.item = h.item
    BY DEF Inductive, OneCopy
  <2>4. (\E n \in Names : jt \in Range(queue[n])) \/ (\E h \in held : jt = h.item)
    OBVIOUS
  <2> QED BY <1>2, <2>2, <2>3, <2>4
<1>3. (CHOOSE jt \in All : Key(jt) = Key(it)) = it
  BY <1>1, <1>2
<1> QED BY <1>3 DEF Tries

LifeIsWhere == \A k, v : Where(k, v) <=> k \in DOMAIN Life /\ v = Life[k]

LEMMA LifeWhere == Inductive /\ LostForGood => LifeIsWhere
<1> SUFFICES ASSUME Inductive, LostForGood, NEW k, NEW v
             PROVE  Where(k, v) <=> k \in DOMAIN Life /\ v = Life[k]
  BY DEF LifeIsWhere
<1>0. DOMAIN Life = artifacts \cup lost \cup UsesQueued \cup UsesHeld
  BY DEF Life
<1>1. ASSUME k \in artifacts PROVE k \in DOMAIN Life /\ Life[k] = [stage |-> "done", tries |-> 0]
  BY <1>1 DEF Life
<1>2. ASSUME k \in lost PROVE k \in DOMAIN Life /\ Life[k] = [stage |-> "lost", tries |-> 0]
  BY <1>2 DEF Life, LostForGood
<1>3. ASSUME NEW n \in Names, NEW it \in Range(queue[n]), k = Key(it)
      PROVE  /\ k \in DOMAIN Life
             /\ Life[k] = [stage |-> IF n[2] = "live" THEN "waiting" ELSE "dead",
                           tries |-> it.attempts]
  <2>1. k \in UsesQueued /\ k \in Uses /\ k \notin UsesHeld
    BY <1>3 DEF UsesQueued, Uses, UsesHeld, Inductive, OneCopy
  <2>2. k \notin artifacts /\ k \notin lost
    BY <1>3, <2>1 DEF LostForGood, Inductive, ArtifactOnce
  <2>3. Tries(k) = it.attempts
    BY <1>3, TriesIs
  <2>4. \A m \in Names : \A jt \in Range(queue[m]) : Key(jt) = k => m = n
    BY <1>3 DEF Inductive, OneCopy
  <2>5. n = Live(n[1]) \/ n = Dlq(n[1])
    BY DEF Names, Live, Dlq
  <2>6. n[2] = "live" => n = Live(n[1]) /\ n[1] \in Queues
    BY DEF Names, Live, Dlq
  <2>7. n[2] # "live" => \A q \in Queues : Live(q) # n /\ Live(q) \in Names
    BY DEF Names, Live
  <2>8. StageOf(k) = IF n[2] = "live" THEN "waiting" ELSE "dead"
    BY <1>3, <2>1, <2>4, <2>6, <2>7 DEF StageOf
  <2> QED BY <2>1, <2>2, <2>3, <2>8 DEF Life
<1>4. ASSUME NEW h \in held, h.pc \in BeforeArtifact, k = Key(h.item)
      PROVE  k \in DOMAIN Life /\ Life[k] = [stage |-> "working", tries |-> h.item.attempts]
  <2>1. k \in UsesHeld /\ k \in Uses
    BY <1>4 DEF UsesHeld, Uses
  <2>2. k \notin artifacts /\ k \notin lost
    BY <1>4, <2>1 DEF LostForGood, Inductive, ArtifactOnce
  <2>3. Tries(k) = h.item.attempts
    BY <1>4, TriesIs
  <2> QED BY <2>1, <2>2, <2>3 DEF Life, StageOf
<1>5. Where(k, v) => k \in DOMAIN Life /\ v = Life[k]
  BY <1>1, <1>2, <1>3, <1>4 DEF Where, InQueue, InHand, Over
<1>6. ASSUME k \in DOMAIN Life PROVE Where(k, Life[k])
  <2>1. CASE k \in artifacts \cup lost
    BY <1>1, <1>2, <2>1 DEF Where, Over
  <2>2. CASE k \in UsesQueued
    <3>1. \E n \in Names : \E it \in Range(queue[n]) : k = Key(it)
      BY <2>2 DEF UsesQueued
    <3> QED BY <1>3, <3>1 DEF Where, InQueue
  <2>3. CASE k \in UsesHeld /\ k \notin artifacts
    <3>1. PICK h \in held : k = Key(h.item)
      BY <2>3 DEF UsesHeld
    <3>2. h.pc \in BeforeArtifact
      BY <2>3, <3>1 DEF Inductive, PastBoundary
    <3> QED BY <1>4, <3>1, <3>2 DEF Where, InHand
  <2> QED BY <1>0, <1>6, <2>1, <2>2, <2>3
<1> QED BY <1>5, <1>6

\* The same of the next state.
LEMMA LifeWhereNext == Inductive' /\ LostForGood' => LifeIsWhere'
  BY LifeWhere, PTL

-----------------------------------------------------------------------------
(* Every step is a step of ItemLife or a stutter.                           *)

\* Nothing moves, one item does, or there is a new one.
LEMMA LifeSame ==
  ASSUME LifeIsWhere, LifeIsWhere', \A k, v : Where(k, v)' <=> Where(k, v)
  PROVE  Life' = Life
<1>1. DOMAIN Life' = DOMAIN Life /\ \A k \in DOMAIN Life : Life'[k] = Life[k]
  BY DEF LifeIsWhere
<1>2. Life = [k \in DOMAIN Life |-> Life[k]] /\ Life' = [k \in DOMAIN Life' |-> Life'[k]]
  BY DEF Life
<1> QED BY <1>1, <1>2

LEMMA LifeMoves ==
  ASSUME LifeIsWhere, LifeIsWhere', NEW k, NEW v, NEW w, Where(k, v), Where(k, w)',
         \A j, u : j # k => (Where(j, u)' <=> Where(j, u))
  PROVE  k \in DOMAIN Life /\ Life[k] = v /\ Life' = [Life EXCEPT ![k] = w]
<1>1. /\ k \in DOMAIN Life /\ Life[k] = v /\ k \in DOMAIN Life' /\ Life'[k] = w
      /\ DOMAIN Life' = DOMAIN Life
      /\ \A j \in DOMAIN Life : j # k => Life'[j] = Life[j]
  BY DEF LifeIsWhere
<1>2. Life = [j \in DOMAIN Life |-> Life[j]] /\ Life' = [j \in DOMAIN Life' |-> Life'[j]]
  BY DEF Life
<1> QED BY <1>1, <1>2

LEMMA LifeComes ==
  ASSUME LifeIsWhere, LifeIsWhere', NEW k, NEW w, Where(k, w)', \A v : ~Where(k, v),
         \A j, u : j # k => (Where(j, u)' <=> Where(j, u))
  PROVE  /\ k \notin DOMAIN Life /\ k \in DOMAIN Life'
         /\ Life' = [j \in DOMAIN Life \cup {k} |-> IF j = k THEN w ELSE Life[j]]
<1>1. /\ k \notin DOMAIN Life /\ k \in DOMAIN Life' /\ Life'[k] = w
      /\ DOMAIN Life' = DOMAIN Life \cup {k}
      /\ \A j \in DOMAIN Life : Life'[j] = Life[j]
  BY DEF LifeIsWhere
<1>2. Life' = [j \in DOMAIN Life' |-> Life'[j]]
  BY DEF Life
<1> QED BY <1>1, <1>2

LEMMA LifeLost ==
  ASSUME LifeIsWhere, LifeIsWhere', NEW S,
         \A k \in S : /\ Where(k, [stage |-> "lost", tries |-> 0])'
                      /\ \E v : Where(k, v) /\ v.stage \in {"waiting", "working", "dead"},
         \A j, u : j \notin S => (Where(j, u)' <=> Where(j, u))
  PROVE  \E T \in SUBSET DOMAIN Life : Items!Lose(T)
<1>1. /\ S \subseteq DOMAIN Life /\ DOMAIN Life' = DOMAIN Life
      /\ \A k \in S : /\ Life'[k] = [stage |-> "lost", tries |-> 0]
                      /\ Life[k].stage \in {"waiting", "working", "dead"}
      /\ \A k \in DOMAIN Life : k \notin S => Life'[k] = Life[k]
  BY DEF LifeIsWhere
<1>2. Life' = [j \in DOMAIN Life' |-> Life'[j]]
  BY DEF Life
<1>3. Life' = [j \in DOMAIN Life |-> IF j \in S THEN [stage |-> "lost", tries |-> 0]
                                               ELSE Life[j]]
  BY <1>1, <1>2
<1>4. Items!Lose(S)
  BY <1>1, <1>3 DEF Items!Lose, Items!Lost, Items!Stage
<1> QED BY <1>1, <1>4

\* A pushed item is new in one queue, and a handler's copy of it is gone.
LEMMA PushWhere ==
  ASSUME Inductive, NEW n \in Names, NEW it \in Item, Push(n, it)
  PROVE  \A k, v : InQueue(k, v)' <=>
           \/ InQueue(k, v)
           \/ /\ k = Key(it)
              /\ v = [stage |-> IF n[2] = "live" THEN "waiting" ELSE "dead",
                      tries |-> it.attempts]
<1>1. /\ \A m \in Names : m # n => queue'[m] = queue[m]
      /\ Range(queue'[n]) = Range(queue[n]) \cup {it}
  BY PushEffect DEF Inductive
<1> QED BY <1>1 DEF InQueue

\* worker.go:249, api_tannery.go: an item that is enqueued for the first time has a
\* hide that no item has had.
LEMMA IntakeComes ==
  ASSUME Inductive, LostForGood, LifeIsWhere, LifeIsWhere',
         NEW r \in intake, NEW q \in r.todo, IntakeEnqueue(r, q) \/ IntakeFails(r, q)
  PROVE  Items!Next
<1> DEFINE it == NewItem(r.hide, q)
           k  == <<r.hide, q>>
           w  == [stage |-> "waiting", tries |-> 0]
<1>1. /\ q \in Queues /\ r.hide \in Nat \ {0} /\ Push(Live(q), it)
      /\ UNCHANGED <<held, artifacts, lost>>
  BY DEF Inductive, TypeOK, Request, IntakeEnqueue, IntakeFails, Push
<1>2. it \in Item /\ it.attempts = 0 /\ Key(it) = k /\ Live(q) \in Names /\ Live(q)[2] = "live"
  BY <1>1, NewItemFacts DEF Live
<1>3. ~Somewhere(k) /\ k \notin lost
  BY UsesHas DEF Inductive, Unsent, LostForGood
<1> HIDE DEF it, k
<1>4. \A j, u : InQueue(j, u)' <=> InQueue(j, u) \/ (j = k /\ u = w)
  BY <1>1, <1>2, PushWhere
<1>5. \A j, u : (InHand(j, u)' <=> InHand(j, u)) /\ (Over(j, u)' <=> Over(j, u))
  BY <1>1 DEF InHand, Over
<1>6. \A v : ~Where(k, v)
  BY <1>3 DEF Somewhere, Where, InQueue, InHand, Over
<1>7. Where(k, w)' /\ \A j, u : j # k => (Where(j, u)' <=> Where(j, u))
  BY <1>4, <1>5 DEF Where
<1>8. /\ k \notin DOMAIN Life /\ k \in DOMAIN Life'
      /\ Life' = [j \in DOMAIN Life \cup {k} |-> IF j = k THEN w ELSE Life[j]]
  BY <1>6, <1>7, LifeComes
<1>9. Items!Come(k)
  BY <1>8 DEF Items!Come, Items!Waiting, Items!Stage
<1> QED BY <1>8, <1>9 DEF Items!Next

\* dispatcher.go: an output is such an item, and its handler has ended its own.
LEMMA OutputComes ==
  ASSUME Inductive, LostForGood, LifeIsWhere, LifeIsWhere', NEW h \in held, SendOutput(h)
  PROVE  Items!Next
<1> DEFINE q  == Out[h.item.queue]
           it == NewItem(h.out, q)
           k  == <<h.out, q>>
           w  == [stage |-> "waiting", tries |-> 0]
           g  == [h EXCEPT !.pc = "cleanup", !.out = 0]
<1>1. /\ q \in Queues /\ h.out \in Nat \ {0} /\ h.pc = "send" /\ Push(Live(q), it)
      /\ UNCHANGED <<artifacts, lost>>
  BY HandlerFacts DEF Inductive, TypeOK, Handler, Forwarding, SendOutput
<1>2. it \in Item /\ it.attempts = 0 /\ Key(it) = k /\ Live(q) \in Names /\ Live(q)[2] = "live"
  BY <1>1, NewItemFacts DEF Live
<1>3. ~Somewhere(k) /\ k \notin lost
  BY <1>1, UsesHas DEF Inductive, Unsent, LostForGood
<1>4. g.pc = "cleanup" /\ held' = (held \ {h}) \cup {g}
  BY HandlerFacts DEF Inductive, Handler, SendOutput
<1> HIDE DEF it, k, g
<1>5. \A j, u : InQueue(j, u)' <=> InQueue(j, u) \/ (j = k /\ u = w)
  BY <1>1, <1>2, PushWhere
<1>6. \A j, u : (InHand(j, u)' <=> InHand(j, u)) /\ (Over(j, u)' <=> Over(j, u))
  <2>1. h.pc \notin BeforeArtifact /\ g.pc \notin BeforeArtifact
    BY <1>1, <1>4 DEF BeforeArtifact
  <2>2. \A f : f.pc \in BeforeArtifact => (f \in held' <=> f \in held)
    BY <1>4, <2>1
  <2> QED BY <1>1, <2>2 DEF InHand, Over
<1>7. \A v : ~Where(k, v)
  BY <1>3 DEF Somewhere, Where, InQueue, InHand, Over
<1>8. Where(k, w)' /\ \A j, u : j # k => (Where(j, u)' <=> Where(j, u))
  BY <1>5, <1>6 DEF Where
<1>9. /\ k \notin DOMAIN Life /\ k \in DOMAIN Life'
      /\ Life' = [j \in DOMAIN Life \cup {k} |-> IF j = k THEN w ELSE Life[j]]
  BY <1>7, <1>8, LifeComes
<1>10. Items!Come(k)
  BY <1>9 DEF Items!Come, Items!Waiting, Items!Stage
<1> QED BY <1>9, <1>10 DEF Items!Next

\* worker.go:205: the head of the queue starts its next attempt, which it has.
LEMMA DequeueStarts ==
  ASSUME Inductive, LifeIsWhere, LifeIsWhere', NEW q \in Queues, Dequeue(q)
  PROVE  Items!Next
<1>0. PICK it : it = Head(queue[Live(q)])
  OBVIOUS
<1> DEFINE n  == Live(q)
           s  == queue[n]
           k  == Key(it)
           g  == [item |-> it, pc |-> "waiting", out |-> 0]
           v  == [stage |-> "waiting", tries |-> it.attempts]
           w  == [stage |-> "working", tries |-> it.attempts]
<1>1. /\ n \in Names /\ n[2] = "live" /\ s \in Seq(Item) /\ s # <<>> /\ queue'[n] = Tail(s)
      /\ \A m \in Names : m # n => queue'[m] = queue[m]
      /\ held' = held \cup {g}
      /\ UNCHANGED <<artifacts, lost>>
  BY <1>0, QueueNames DEF Inductive, TypeOK, Dequeue, Live
<1>2. /\ it \in Range(s) /\ it \in Item
      /\ \A jt \in Range(Tail(s)) : jt \in Range(s) /\ Key(jt) # k
      /\ \A jt \in Range(s) : jt = it \/ jt \in Range(Tail(s))
  BY <1>0, <1>1, TailRange, TailDistinct, RangeItems DEF Inductive, OneCopy
<1>3. it.attempts < MaxAttempts[k[2]] /\ k[2] = q
  BY <1>1, <1>2 DEF Inductive, RetryBudget, HomeQueue, Key, Live
<1>4. g.pc \in BeforeArtifact /\ g.item = it /\ \A h \in held : Key(h.item) # k
  BY <1>1, <1>2 DEF BeforeArtifact, Inductive, OneCopy
<1>5. \A m \in Names : m # n => \A jt \in Range(queue[m]) : Key(jt) # k
  BY <1>1, <1>2 DEF Inductive, OneCopy
<1> HIDE DEF n, g, k
<1>6. Where(k, v) /\ Where(k, w)'
  <2>1. InQueue(k, v)
    BY <1>1, <1>2 DEF InQueue, k
  <2>2. InHand(k, w)'
    BY <1>1, <1>4 DEF InHand, k
  <2> QED BY <2>1, <2>2 DEF Where
<1>7. ASSUME NEW j, NEW u, j # k
      PROVE  Where(j, u)' <=> Where(j, u)
  <2>1. InQueue(j, u)' <=> InQueue(j, u)
    <3>1. \A m \in Names : \A jt : Key(jt) = j => (jt \in Range(queue'[m]) <=> jt \in Range(queue[m]))
      BY <1>1, <1>2, <1>7 DEF k
    <3> QED BY <3>1 DEF InQueue
  <2>2. InHand(j, u)' <=> InHand(j, u)
    BY <1>1, <1>4, <1>7 DEF InHand, k
  <2>3. Over(j, u)' <=> Over(j, u)
    BY <1>1 DEF Over
  <2> QED BY <2>1, <2>2, <2>3 DEF Where
<1>8. k \in DOMAIN Life /\ Life[k] = v /\ Life' = [Life EXCEPT ![k] = w]
  BY <1>6, <1>7, LifeMoves
<1>9. Items!Start(k)
  BY <1>3, <1>8 DEF Items!Start, Items!Become, Items!Working, Items!Stage
<1> QED BY <1>8, <1>9 DEF Items!Next

\* worker.go:375: the artifact ends its item.
LEMMA WriteFinishes ==
  ASSUME Inductive, LifeIsWhere, LifeIsWhere', NEW h \in held, WriteArtifact(h)
  PROVE  Items!Next \/ Life' = Life
<1> DEFINE k == Key(h.item)
           v == [stage |-> "working", tries |-> h.item.attempts]
           w == [stage |-> "done", tries |-> 0]
           G(pc) == [h EXCEPT !.pc = pc]
<1>0. /\ h.pc = "write" /\ "write" \in BeforeArtifact /\ "failed" \in BeforeArtifact
      /\ "cleanup" \notin BeforeArtifact /\ "put" \notin BeforeArtifact
      /\ UNCHANGED <<queue, lost>>
      /\ \A pc : G(pc).item = h.item /\ G(pc).pc = pc
  BY HandlerFacts DEF Inductive, WriteArtifact, BeforeArtifact, Handler
<1>1. \A j, u : InQueue(j, u)' <=> InQueue(j, u)
  BY <1>0 DEF InQueue
<1>2. CASE artifacts' = artifacts /\ held' = (held \ {h}) \cup {G("failed")}
  <2>1. \A j, u : InHand(j, u)' <=> InHand(j, u)
    <3>1. G("failed") \in held' /\ h \in held
      BY <1>2
    <3>2. \A f \in held : f = h \/ f \in held'
      BY <1>2
    <3>3. \A f \in held' : f = G("failed") \/ f \in held
      BY <1>2
    <3> HIDE DEF G
    <3> QED BY <1>0, <3>1, <3>2, <3>3 DEF InHand
  <2>2. \A j, u : Over(j, u)' <=> Over(j, u)
    BY <1>0, <1>2 DEF Over
  <2>3. \A j, u : Where(j, u)' <=> Where(j, u)
    BY <1>1, <2>1, <2>2 DEF Where
  <2> QED BY <2>3, LifeSame
<1>3. ASSUME artifacts' = artifacts \cup {k}, NEW pc \in {"put", "cleanup"},
             held' = (held \ {h}) \cup {G(pc)}
      PROVE  Items!Next
  <2>1. InHand(k, v) /\ Over(k, w)'
    BY <1>0, <1>3 DEF InHand, Over
  <2>2. \A f \in held : f # h => Key(f.item) # k
    BY DEF Inductive, OneCopy
  <2>3. \A j, u : j # k => (InHand(j, u)' <=> InHand(j, u))
    BY <1>0, <1>3, <2>2 DEF InHand
  <2>4. \A j, u : j # k => (Over(j, u)' <=> Over(j, u))
    BY <1>0, <1>3 DEF Over
  <2>5. \A j, u : j # k => (Where(j, u)' <=> Where(j, u))
    BY <1>1, <2>3, <2>4 DEF Where
  <2>6. Where(k, v) /\ Where(k, w)'
    BY <2>1 DEF Where
  <2>7. k \in DOMAIN Life /\ Life[k] = v /\ Life' = [Life EXCEPT ![k] = w]
    BY <2>5, <2>6, LifeMoves
  <2>8. Items!Finish(k)
    BY <2>7 DEF Items!Finish, Items!Become, Items!Done, Items!Stage
  <2> QED BY <2>7, <2>8 DEF Items!Next
<1> QED BY <1>2, <1>3 DEF WriteArtifact, Moved, AfterArtifact

\* worker.go:276: a failed attempt is counted, and the item waits for another one
\* or is a dead letter.
LEMMA FailEnds ==
  ASSUME Inductive, LifeIsWhere, LifeIsWhere', NEW h \in held, Fail(h)
  PROVE  Items!Next
<1> DEFINE it == [h.item EXCEPT !.attempts = @ + 1]
           k  == Key(h.item)
           v  == [stage |-> "working", tries |-> h.item.attempts]
<1>1. /\ it \in Item /\ Key(it) = k /\ it.attempts = h.item.attempts + 1
      /\ h.item.queue \in Queues /\ it.queue = h.item.queue /\ k[2] = h.item.queue
      /\ h.pc \in BeforeArtifact
  BY HandlerFacts, ItemTypes DEF Inductive, Fail, BeforeArtifact, Item, Key
<1>2. held' = held \ {h} /\ UNCHANGED <<artifacts, lost>>
  BY DEF Fail, Ended
<1>3. PICK n \in Names : /\ Push(n, it)
                         /\ n[2] = "live" => it.attempts < MaxAttempts[k[2]]
  <2> DEFINE retry == h.pc = "failed" /\ it.attempts < MaxAttempts[it.queue]
  <2>1. Push(IF retry THEN Live(it.queue) ELSE Dlq(it.queue), it)
    BY DEF Fail
  <2>2. Dlq(it.queue)[2] # "live"
    BY DEF Dlq
  <2> QED BY <1>1, <2>1, <2>2, QueueNames
<1> DEFINE w == [stage |-> IF n[2] = "live" THEN "waiting" ELSE "dead",
                 tries |-> it.attempts]
<1> HIDE DEF it, k
<1>4. \A j, u : InQueue(j, u)' <=> InQueue(j, u) \/ (j = k /\ u = w)
  BY <1>1, <1>3, PushWhere
<1>5. \A j, u : j # k => (InHand(j, u)' <=> InHand(j, u))
  BY <1>2 DEF InHand, k
<1>6. \A j, u : Over(j, u)' <=> Over(j, u)
  BY <1>2 DEF Over
<1>7. InHand(k, v)
  BY <1>1 DEF InHand, k
<1>8. Where(k, v) /\ Where(k, w)' /\ \A j, u : j # k => (Where(j, u)' <=> Where(j, u))
  BY <1>4, <1>5, <1>6, <1>7 DEF Where
<1>9. k \in DOMAIN Life /\ Life[k] = v /\ Life' = [Life EXCEPT ![k] = w]
  BY <1>8, LifeMoves
<1>10. CASE n[2] = "live"
  <2>1. Items!Retry(k)
    BY <1>1, <1>3, <1>9, <1>10 DEF Items!Retry, Items!Become, Items!Waiting, Items!Stage
  <2> QED BY <1>9, <2>1 DEF Items!Next
<1>11. CASE n[2] # "live"
  <2>1. Items!Bury(k)
    BY <1>1, <1>9, <1>11 DEF Items!Bury, Items!Become, Items!Dead, Items!Stage
  <2> QED BY <1>9, <2>1 DEF Items!Next
<1> QED BY <1>10, <1>11

\* worker.go: a panic takes the item of the handler that it hits, unless that one
\* has written the artifact.
LEMMA PanicLoses ==
  ASSUME Inductive, LifeIsWhere, LifeIsWhere', NEW h \in held, Panic(h)
  PROVE  Items!Next \/ Life' = Life
<1> DEFINE k == Key(h.item)
           S == {k}
<1>1. held' = held \ {h} /\ UNCHANGED <<queue, artifacts>>
  BY DEF Panic, Ended
<1>2. \A j, u : InQueue(j, u)' <=> InQueue(j, u)
  BY <1>1 DEF InQueue
<1>3. CASE h.pc \in BeforeArtifact
  <2>1. lost' = lost \cup S
    BY <1>3 DEF Panic
  <2>2. InHand(k, [stage |-> "working", tries |-> h.item.attempts])
    BY <1>3 DEF InHand
  <2>3. Over(k, [stage |-> "lost", tries |-> 0])'
    BY <2>1 DEF Over
  <2>4. \A j, u : j \notin S => (InHand(j, u)' <=> InHand(j, u))
    BY <1>1 DEF InHand
  <2>5. \A j, u : j \notin S => (Over(j, u)' <=> Over(j, u))
    BY <1>1, <2>1 DEF Over
  <2>6. \A j, u : j \notin S => (Where(j, u)' <=> Where(j, u))
    BY <1>2, <2>4, <2>5 DEF Where
  <2>7. Where(k, [stage |-> "lost", tries |-> 0])'
    BY <2>3 DEF Where
  <2>8. \E v : Where(k, v) /\ v.stage \in {"waiting", "working", "dead"}
    <3>1. Where(k, [stage |-> "working", tries |-> h.item.attempts])
      BY <2>2 DEF Where
    <3> QED BY <3>1
  <2>9. \A i \in S : /\ Where(i, [stage |-> "lost", tries |-> 0])'
                    /\ \E v : Where(i, v) /\ v.stage \in {"waiting", "working", "dead"}
    BY <2>7, <2>8
  <2> HIDE DEF S
  <2>10. \E T \in SUBSET DOMAIN Life : Items!Lose(T)
    BY <2>6, <2>9, LifeLost
  <2> QED BY <2>10 DEF Items!Next
<1>4. CASE h.pc \notin BeforeArtifact
  <2>1. lost' = lost
    BY <1>4 DEF Panic
  <2>2. \A j, u : InHand(j, u)' <=> InHand(j, u)
    BY <1>1, <1>4 DEF InHand
  <2>3. \A j, u : Over(j, u)' <=> Over(j, u)
    BY <1>1, <2>1 DEF Over
  <2>4. \A j, u : Where(j, u)' <=> Where(j, u)
    BY <1>2, <2>2, <2>3 DEF Where
  <2> QED BY <2>4, LifeSame
<1> QED BY <1>3, <1>4

\* A crash takes the items of the handlers that have not written the artifact, and
\* those that no file has.
LEMMA CrashLoses ==
  ASSUME Inductive, LifeIsWhere, LifeIsWhere', Crash
  PROVE  Items!Next
<1>0. PICK S : S = {Key(it) : it \in Unsaved}
                   \cup {Key(h.item) : h \in {g \in held : g.pc \in BeforeArtifact}}
  OBVIOUS
<1>1. lost' = lost \cup S /\ queue' = file /\ held' = {} /\ artifacts' = artifacts
  BY <1>0 DEF Crash
<1>2. \A k \in S : \/ \E n \in Names : \E it \in Range(queue[n]) : k = Key(it)
                   \/ \E h \in held : h.pc \in BeforeArtifact /\ k = Key(h.item)
  BY <1>0 DEF Unsaved
<1>3. ASSUME NEW k \in S
      PROVE  /\ Where(k, [stage |-> "lost", tries |-> 0])'
             /\ \E v : Where(k, v) /\ v.stage \in {"waiting", "working", "dead"}
  <2>1. Where(k, [stage |-> "lost", tries |-> 0])'
    BY <1>1 DEF Where, Over
  <2>2. ASSUME NEW n \in Names, NEW it \in Range(queue[n]), k = Key(it)
        PROVE  \E v : Where(k, v) /\ v.stage \in {"waiting", "working", "dead"}
    <3> DEFINE v == [stage |-> IF n[2] = "live" THEN "waiting" ELSE "dead",
                     tries |-> it.attempts]
    <3>1. Where(k, v)
      BY <2>2 DEF Where, InQueue
    <3> QED BY <3>1
  <2>3. ASSUME NEW h \in held, h.pc \in BeforeArtifact, k = Key(h.item)
        PROVE  \E v : Where(k, v) /\ v.stage \in {"waiting", "working", "dead"}
    <3> DEFINE v == [stage |-> "working", tries |-> h.item.attempts]
    <3>1. Where(k, v)
      BY <2>3 DEF Where, InHand
    <3> QED BY <3>1
  <2> QED BY <1>2, <2>1, <2>2, <2>3
<1>4. ASSUME NEW j, NEW u, j \notin S
      PROVE  Where(j, u)' <=> Where(j, u)
  <2>1. InQueue(j, u)' <=> InQueue(j, u)
    <3>1. \A n \in Names : \A it : Key(it) = j =>
            (it \in Range(file[n]) <=> it \in Range(queue[n]))
      <4>1. \A n \in Names : Range(file[n]) \subseteq Range(queue[n])
        BY DEF Inductive, FileFollows
      <4>2. \A n \in Names : \A it \in Range(queue[n]) :
              it \notin Range(file[n]) => it \in Unsaved
        BY DEF Unsaved
      <4> QED BY <1>0, <1>4, <4>1, <4>2
    <3> QED BY <1>1, <3>1 DEF InQueue
  <2>2. ~InHand(j, u)' /\ ~InHand(j, u)
    BY <1>0, <1>1, <1>4 DEF InHand
  <2>3. Over(j, u)' <=> Over(j, u)
    BY <1>1, <1>4 DEF Over
  <2> QED BY <2>1, <2>2, <2>3 DEF Where
<1>5. \E T \in SUBSET DOMAIN Life : Items!Lose(T)
  BY <1>3, <1>4, LifeLost
<1> QED BY <1>5 DEF Items!Next

\* What a handler does in between, and what touches hides and requests only, is
\* no event of an item.
LEMMA StageStutters ==
  ASSUME LifeIsWhere, LifeIsWhere', NEW h \in held, Inductive,
         Acquire(h) \/ Load(h) \/ RunAgent(h) \/ PutOutput(h) \/ Cleanup(h)
  PROVE  Life' = Life
<1>1. UNCHANGED <<queue, artifacts, lost>>
  BY DEF Acquire, Load, RunAgent, PutOutput, Cleanup
<1>2. \A pc, out : /\ [h EXCEPT !.pc = pc].item = h.item /\ [h EXCEPT !.pc = pc].pc = pc
                   /\ [h EXCEPT !.pc = "send", !.out = out].item = h.item
                   /\ [h EXCEPT !.pc = "send", !.out = out].pc = "send"
  BY HandlerFacts DEF Inductive, Handler
<1> DEFINE Becomes(g) == /\ held' = (held \ {h}) \cup {g}
                         /\ g.pc \in BeforeArtifact <=> h.pc \in BeforeArtifact
                         /\ g.item = h.item
<1>3. (held' = held \ {h} /\ h.pc \notin BeforeArtifact) \/ \E g : Becomes(g)
  <2>1. ASSUME NEW pc, Moved(h, pc), pc \in BeforeArtifact <=> h.pc \in BeforeArtifact
        PROVE  \E g : Becomes(g)
    <3>1. Becomes([h EXCEPT !.pc = pc])
      BY <1>2, <2>1 DEF Moved
    <3> QED BY <3>1
  <2> HIDE DEF Becomes
  <2>2. CASE Acquire(h) \/ Load(h) \/ RunAgent(h)
    <3>1. \E pc \in {"load", "run", "dead", "failed", "write"} : Moved(h, pc)
      BY <2>2 DEF Acquire, Load, RunAgent
    <3>2. h.pc \in {"waiting", "load", "run"}
      BY <2>2 DEF Acquire, Load, RunAgent
    <3> QED BY <2>1, <3>1, <3>2 DEF BeforeArtifact
  <2>3. CASE PutOutput(h)
    <3>1. h.pc = "put"
      BY <2>3 DEF PutOutput
    <3>2. CASE Moved(h, "cleanup")
      BY <2>1, <3>1, <3>2 DEF BeforeArtifact
    <3>3. CASE held' = (held \ {h}) \cup {[h EXCEPT !.pc = "send", !.out = nextHide]}
      <4>1. Becomes([h EXCEPT !.pc = "send", !.out = nextHide])
        BY <1>2, <3>1, <3>3 DEF Becomes, BeforeArtifact
      <4> QED BY <4>1
    <3> QED BY <2>3, <3>2, <3>3 DEF PutOutput
  <2>4. CASE Cleanup(h)
    BY <2>4 DEF Cleanup, Ended, BeforeArtifact
  <2> QED BY <2>2, <2>3, <2>4
<1>4. \A j, u : InHand(j, u)' <=> InHand(j, u)
  <2>1. CASE held' = held \ {h} /\ h.pc \notin BeforeArtifact
    BY <2>1 DEF InHand
  <2>2. ASSUME NEW g, held' = (held \ {h}) \cup {g}, g.item = h.item,
               g.pc \in BeforeArtifact <=> h.pc \in BeforeArtifact
        PROVE  \A j, u : InHand(j, u)' <=> InHand(j, u)
    <3>1. /\ g \in held' /\ h \in held
          /\ \A f \in held : f = h \/ f \in held'
          /\ \A f \in held' : f = g \/ f \in held
      BY <2>2
    <3> QED BY <2>2, <3>1 DEF InHand
  <2> QED BY <1>3, <2>1, <2>2
<1>5. \A j, u : Where(j, u)' <=> Where(j, u)
  BY <1>1, <1>4 DEF Where, InQueue, Over
<1> QED BY <1>5, LifeSame

LEMMA RestStutters ==
  ASSUME LifeIsWhere, LifeIsWhere', UNCHANGED <<queue, held, artifacts, lost>>
  PROVE  Life' = Life
<1>1. \A j, u : Where(j, u)' <=> Where(j, u)
  BY DEF Where, InQueue, InHand, Over
<1> QED BY <1>1, LifeSame

LEMMA LifeNext ==
  ASSUME Inductive, LostForGood, LifeIsWhere, LifeIsWhere', [Next]_vars
  PROVE  [Items!Next]_Life
<1>1. ASSUME NEW h \in held, Handle(h) PROVE Items!Next \/ Life' = Life
  BY <1>1, StageStutters, WriteFinishes, OutputComes, FailEnds, PanicLoses DEF Handle
<1>2. CASE PutHide \/ (\E x \in hides : DeleteHide(x)) \/ UNCHANGED vars
  BY <1>2, RestStutters DEF PutHide, DeleteHide, vars
<1> QED BY <1>1, <1>2, IntakeComes, DequeueStarts, CrashLoses DEF Next

LEMMA LifeInit == Init => Items!Init /\ LostForGood
<1> SUFFICES ASSUME Init PROVE Items!Init /\ LostForGood
  OBVIOUS
<1>1. artifacts = {} /\ lost = {} /\ held = {} /\ \A n \in Names : Range(queue[n]) = {}
  BY DEF Init, Range
<1>2. artifacts \cup lost \cup UsesQueued \cup UsesHeld = {}
  BY <1>1 DEF UsesQueued, UsesHeld
<1> QED BY <1>1, <1>2 DEF Items!Init, Life, LostForGood

\* What a panic or a crash took is nowhere, and nobody will enqueue it again.
THEOREM LostItemsStayLost == Spec => []LostForGood
<1>1. Inductive /\ LostForGood /\ [Next]_vars => LostForGood'
  BY LostStaysLost
<1> QED BY <1>1, LifeInit, InductiveHolds, PTL DEF Spec

\* The workers of static queues, with failed saves, panics and restarts, give every
\* item the life that ItemLife describes.
THEOREM WorkerImplementsItemLife == Spec => ImplementsItemLife
<1>1. Inductive /\ Inductive' /\ LostForGood /\ LostForGood' /\ [Next]_vars
        => [Items!Next]_Life
  BY LifeNext, LifeWhere, LifeWhereNext
<1> QED BY <1>1, LifeInit, InductiveHolds, LostItemsStayLost, PTL
        DEF Spec, ImplementsItemLife, Items!Spec
=============================================================================
