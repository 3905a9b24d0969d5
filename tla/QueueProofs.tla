------------------------------ MODULE QueueProofs ------------------------------
(***************************************************************************)
(* Proofs about the package queue.  The first part is about FileQueue, for *)
(* any number of calls, any item IDs and any set of operations whose save  *)
(* may fail; the second about QueueManager, for any producers, item IDs,   *)
(* retries and modes.  The two modules share no name and no variable.      *)
(***************************************************************************)
EXTENDS FileQueue, QueueManager, SelectionProofs

(* The operations on slices keep entries distinct. *)

\* Entries stay entries when more are issued.
LEMMA SeqEntries ==
  ASSUME NEW A, NEW B, A \subseteq B, NEW s \in Seq(A)
  PROVE  s \in Seq(B)
  OBVIOUS

\* In a slice with distinct tickets, a ticket is one entry.
LEMMA SameEntry ==
  ASSUME NEW s \in Seq(Entry), Distinct(s),
         NEW a \in Range(s), NEW b \in Range(s), a.ticket = b.ticket
  PROVE  a = b
<1>1. PICK i \in 1..Len(s), j \in 1..Len(s) : s[i] = a /\ s[j] = b
  BY RangeSeq
<1>2. i = j
  BY <1>1 DEF Distinct
<1> QED BY <1>1, <1>2

\* Distinct tickets stay distinct under the loop of DequeueByIDs, ...
LEMMA DistinctSelect ==
  ASSUME NEW s \in Seq(Entry), Distinct(s), NEW S
  PROVE  Distinct(Select(s, S))
<1> DEFINE t == Select(s, S)
<1>1. t \in Seq(Entry)
  BY SelectPicks
<1>2. PICK h \in [1..Len(t) -> 1..Len(s)] :
        /\ \A i, j \in 1..Len(t) : h[i] = h[j] => i = j
        /\ \A i \in 1..Len(t) : t[i] = s[h[i]]
  BY SelectInjective
<1> HIDE DEF t
<1>3. DOMAIN t = 1..Len(t) /\ DOMAIN s = 1..Len(s)
  BY <1>1
<1>4. ASSUME NEW i \in 1..Len(t), NEW j \in 1..Len(t), t[i].ticket = t[j].ticket
      PROVE  i = j
  <2>1. h[i] \in 1..Len(s) /\ h[j] \in 1..Len(s)
    BY <1>2
  <2>2. s[h[i]].ticket = s[h[j]].ticket
    BY <1>2, <1>4
  <2>3. h[i] = h[j]
    BY <1>3, <2>1, <2>2 DEF Distinct
  <2> QED BY <1>2, <2>3
<1>5. Distinct(t)
  BY <1>3, <1>4 DEF Distinct
<1> QED BY <1>5 DEF t

\* ... when the head leaves, ...
LEMMA DistinctTail ==
  ASSUME NEW s \in Seq(Entry), Distinct(s), s # <<>>
  PROVE  Distinct(Tail(s)) /\ Head(s) \notin Range(Tail(s))
<1> DEFINE t == Tail(s)
<1>1. /\ DOMAIN s = 1..Len(s) /\ DOMAIN t = 1..Len(s) - 1 /\ Len(s) \in Nat \ {0}
      /\ \A i \in 1..Len(s) - 1 : t[i] = s[i + 1]
      /\ Head(s) = s[1]
  OBVIOUS
<1> HIDE DEF t
<1>2. Distinct(t)
  BY <1>1 DEF Distinct
<1>3. Head(s) \notin Range(t)
  BY <1>1 DEF Distinct, Range
<1> QED BY <1>2, <1>3 DEF t

\* ... when a new ticket is appended, ...
LEMMA DistinctAppend ==
  ASSUME NEW s \in Seq(Entry), Distinct(s), NEW e \in Entry,
         \A x \in Range(s) : x.ticket # e.ticket
  PROVE  Distinct(Append(s, e))
<1> DEFINE a == Append(s, e)
<1>1. /\ DOMAIN s = 1..Len(s) /\ DOMAIN a = 1..Len(s) + 1 /\ Len(s) \in Nat
      /\ \A i \in 1..Len(s) : a[i] = s[i]
      /\ a[Len(s) + 1] = e
  OBVIOUS
<1> HIDE DEF a
<1>2. \A i \in 1..Len(s) : s[i].ticket # e.ticket
  BY RangeSeq
<1>3. Distinct(a)
  BY <1>1, <1>2 DEF Distinct
<1> QED BY <1>3 DEF a

\* ... and when two parts are put together that share none.
LEMMA DistinctConcat ==
  ASSUME NEW s \in Seq(Entry), Distinct(s), NEW t \in Seq(Entry), Distinct(t),
         \A x \in Range(s), y \in Range(t) : x.ticket # y.ticket
  PROVE  Distinct(s \o t)
<1> DEFINE a == s \o t
<1>1. /\ DOMAIN s = 1..Len(s) /\ DOMAIN t = 1..Len(t)
      /\ DOMAIN a = 1..Len(s) + Len(t) /\ Len(s) \in Nat /\ Len(t) \in Nat
      /\ \A i \in 1..Len(s) : a[i] = s[i]
      /\ \A i \in 1..Len(s) + Len(t) : i > Len(s) => a[i] = t[i - Len(s)]
  OBVIOUS
<1>2. \A i \in 1..Len(s), j \in 1..Len(t) : s[i].ticket # t[j].ticket
  BY RangeSeq
<1> HIDE DEF a
<1>3. ASSUME NEW i \in 1..Len(s) + Len(t), NEW j \in 1..Len(s) + Len(t),
             a[i].ticket = a[j].ticket
      PROVE  i = j
  <2>1. CASE i <= Len(s) /\ j <= Len(s)
    BY <1>1, <1>3, <2>1 DEF Distinct
  <2>2. CASE i > Len(s) /\ j > Len(s)
    <3>1. i - Len(s) \in 1..Len(t) /\ j - Len(s) \in 1..Len(t)
      BY <1>1, <2>2
    <3>2. i - Len(s) = j - Len(s)
      BY <1>1, <1>3, <2>2, <3>1 DEF Distinct
    <3> QED BY <1>1, <3>2
  <2>3. CASE i <= Len(s) /\ j > Len(s)
    <3>1. i \in 1..Len(s) /\ j - Len(s) \in 1..Len(t)
      BY <1>1, <2>3
    <3> QED BY <1>1, <1>2, <1>3, <2>3, <3>1
  <2>4. CASE i > Len(s) /\ j <= Len(s)
    <3>1. j \in 1..Len(s) /\ i - Len(s) \in 1..Len(t)
      BY <1>1, <2>4
    <3>2. a[i] = t[i - Len(s)] /\ a[j] = s[j]
      BY <1>1, <2>4, <3>1
    <3> QED BY <1>2, <1>3, <3>1, <3>2
  <2> QED BY <1>1, <2>1, <2>2, <2>3, <2>4
<1>4. Distinct(a)
  BY <1>1, <1>3 DEF Distinct
<1> QED BY <1>4 DEF a
-----------------------------------------------------------------------------
(* What a save does to the file, whichever operation calls it.              *)

\* What a process would load is a slice of issued entries.
LEMMA FileKnown ==
  ASSUME TypeOK
  PROVE  /\ Loaded \in Seq(Entries) /\ Loaded \in Seq(Entry)
         /\ items \in Seq(Entry)
         /\ Entries \subseteq Entry
<1>1. Loaded \in Seq(Entries) /\ Entries \subseteq Entry
  BY DEF TypeOK, Loaded, Entries
<1> QED BY <1>1, SeqEntries DEF TypeOK

\* After a save the file is the slice, ...
LEMMA SavedIsCurrent ==
  ASSUME Saved, items' \in Seq(Entry), Distinct(items)'
  PROVE  /\ Loaded' = items'
         /\ Distinct(Loaded)' /\ FileBehind' /\ FileFollows'
<1>1. Loaded' = items'
  BY ConstantsAssumption DEF Saved, Loaded
<1>2. Distinct(Loaded)'
  BY <1>1 DEF Distinct
<1>3. FileBehind'
  BY <1>1 DEF FileBehind
<1>4. Select(items', Range(items')) = items'
  BY SelectAll
<1>5. FileFollows'
  BY <1>1, <1>4 DEF FileFollows
<1> QED BY <1>1, <1>2, <1>3, <1>5

\* ... and after a save that failed it is what it was.
LEMMA UnsavedFile ==
  ASSUME UNCHANGED file
  PROVE  Loaded' = Loaded
  BY DEF Loaded

\* An entry that leaves the file is with a caller, or a failed Drain has it.
LEMMA StaysDurable ==
  ASSUME TypeOK, AckedIsDurable, issued' = issued,
         erred \cup handed \cup dropped \subseteq (erred \cup handed \cup dropped)',
         Range(Loaded) \subseteq Range(Loaded') \cup (erred \cup handed \cup dropped)'
  PROVE  AckedIsDurable'
<1> SUFFICES ASSUME NEW t \in 1..issued
             PROVE  Durable(t, erred \cup handed \cup dropped)'
  BY DEF AckedIsDurable
<1>1. Durable(t, erred \cup handed \cup dropped)
  BY DEF AckedIsDurable
<1> QED BY <1>1 DEF Durable

-----------------------------------------------------------------------------
(* Every operation preserves Inductive.                                     *)

\* An empty queue without a file satisfies the invariant.
LEMMA InitInductive ==
  Init => Inductive
<1> SUFFICES ASSUME Init PROVE Inductive
  OBVIOUS
<1>1. Loaded = <<>> /\ items = <<>>
  BY DEF Init, Loaded
<1>2. TypeOK
  BY ConstantsAssumption DEF Init, TypeOK
<1>3. Range(<<>>) = {}
  BY DEF Range
<1>4. Select(<<>>, {}) = <<>>
  <2>1. <<>> \in Seq({})
    OBVIOUS
  <2>2. Range(<<>>) \subseteq {}
    BY <1>3
  <2> QED BY <2>1, <2>2, SelectAll
<1>5. FileFollows
  BY <1>1, <1>3, <1>4 DEF FileFollows
<1> QED BY <1>1, <1>2, <1>5 DEF Inductive, Init, Distinct, FileBehind, AckedIsDurable

\* A new entry has a new ticket; it is in the file or has an error.
LEMMA EnqueueInductive ==
  ASSUME Inductive, NEW id \in Ids, Enqueue(id)
  PROVE  Inductive'
<1> DEFINE e == [ticket |-> issued + 1, id |-> id]
<1>1. /\ TypeOK /\ Distinct(items) /\ Distinct(Loaded) /\ FileBehind
      /\ FileFollows /\ AckedIsDurable
  BY DEF Inductive
<1>2. issued \in Nat /\ issued + 1 \in 1..MaxEnqueues /\ issued' = issued + 1 /\ MaxEnqueues \in Nat
  BY <1>1, ConstantsAssumption DEF TypeOK, Enqueue
<1>3. /\ e \in Entry /\ e \in Entries' /\ Entries \subseteq Entries'
      /\ \A x \in Entries : x.ticket # e.ticket
  BY <1>2 DEF Entry, Entries
<1>4. items \in Seq(Entries') /\ Loaded \in Seq(Entries')
  <2>1. items \in Seq(Entries) /\ Loaded \in Seq(Entries)
    BY <1>1, FileKnown DEF TypeOK
  <2> QED BY <1>3, <2>1, SeqEntries
<1>5. items' = Append(items, e)
  BY DEF Enqueue
<1>6. items' \in Seq(Entries') /\ Range(items') = Range(items) \cup {e}
  BY <1>3, <1>4, <1>5, RangeAppend
<1>7. Entries' \subseteq Entry
  BY DEF Entries
<1>8. items' \in Seq(Entry) /\ items \in Seq(Entry) /\ Loaded \in Seq(Entry)
  BY <1>1, <1>6, <1>7, FileKnown, SeqEntries
<1>9. \A x \in Range(items) \cup Range(Loaded) : x \in Entries
  <2>1. items \in Seq(Entries) /\ Loaded \in Seq(Entries)
    BY <1>1, FileKnown DEF TypeOK
  <2> QED BY <2>1, RangeSeq
<1>10. Distinct(items)'
  <2>1. Distinct(Append(items, e))
    BY <1>1, <1>3, <1>8, <1>9, DistinctAppend
  <2> QED BY <1>5, <2>1 DEF Distinct
<1> HIDE DEF e
<1>11. CASE Saved /\ UNCHANGED erred
  <2>1. /\ Loaded' = items'
        /\ Distinct(Loaded)' /\ FileBehind' /\ FileFollows'
    BY <1>8, <1>10, <1>11, SavedIsCurrent
  <2>2. TypeOK'
    BY <1>1, <1>2, <1>3, <1>6, <1>11 DEF TypeOK, Enqueue, Saved
  <2>3. AckedIsDurable'
    <3> SUFFICES ASSUME NEW t \in 1..issued'
                 PROVE  Durable(t, erred \cup handed \cup dropped)'
      BY DEF AckedIsDurable
    <3>1. CASE t = issued + 1
      <4>1. e \in Range(Loaded') /\ e.ticket = t
        BY <1>6, <2>1, <3>1 DEF e
      <4> QED BY <4>1 DEF Durable
    <3>2. CASE t # issued + 1
      <4>1. t \in 1..issued
        BY <1>2, <3>2
      <4>2. Durable(t, erred \cup handed \cup dropped)
        BY <1>1, <4>1 DEF AckedIsDurable
      <4>3. Range(Loaded) \subseteq Range(items') \cup dropped
        BY <1>1, <1>6 DEF FileBehind, Enqueue
      <4>4. UNCHANGED <<erred, handed, dropped>>
        BY <1>11 DEF Enqueue
      <4> QED BY <2>1, <4>2, <4>3, <4>4 DEF Durable
    <3> QED BY <3>1, <3>2
  <2> QED BY <1>10, <2>1, <2>2, <2>3 DEF Inductive
<1>12. CASE SaveFails("Enqueue") /\ erred' = erred \cup {e}
  <2>1. Loaded' = Loaded
    BY <1>12, UnsavedFile DEF SaveFails
  <2>2. TypeOK'
    <3>1. file' = NoFile \/ file' \in Seq(Entries')
      BY <1>1, <1>3, <1>12, SeqEntries DEF TypeOK, SaveFails
    <3> QED BY <1>1, <1>2, <1>3, <1>6, <1>12, <3>1 DEF TypeOK, Enqueue
  <2>3. Distinct(Loaded)' /\ FileBehind'
    BY <1>1, <1>6, <2>1 DEF Distinct, FileBehind, Enqueue
  <2>4. FileFollows'
    <3> SUFFICES ASSUME jumped = {}, dropped = {}
                 PROVE  /\ Loaded = Select(items', Range(Loaded))
                        /\ Range(items') \ Range(Loaded) \subseteq erred'
      BY <2>1 DEF FileFollows, Enqueue
    <3>1. /\ Loaded = Select(items, Range(Loaded))
          /\ Range(items) \ Range(Loaded) \subseteq erred
      BY <1>1 DEF FileFollows, Enqueue
    <3>2. e \notin Range(Loaded)
      BY <1>3, <1>9
    <3>3. Select(items', Range(Loaded)) = Select(items, Range(Loaded))
      BY <1>3, <1>5, <1>8, <3>2, SelectAppend
    <3> QED BY <1>6, <1>12, <3>1, <3>3
  <2>5. AckedIsDurable'
    <3> SUFFICES ASSUME NEW t \in 1..issued'
                 PROVE  Durable(t, erred \cup handed \cup dropped)'
      BY DEF AckedIsDurable
    <3>1. CASE t = issued + 1
      <4>1. e \in (erred \cup handed \cup dropped)' /\ e.ticket = t
        BY <1>12, <3>1 DEF e
      <4> QED BY <4>1 DEF Durable
    <3>2. CASE t # issued + 1
      <4>1. t \in 1..issued
        BY <1>2, <3>2
      <4>2. Durable(t, erred \cup handed \cup dropped)
        BY <1>1, <4>1 DEF AckedIsDurable
      <4>3. UNCHANGED <<handed, dropped>>
        BY DEF Enqueue
      <4> QED BY <1>12, <2>1, <4>2, <4>3 DEF Durable
    <3> QED BY <3>1, <3>2
  <2> QED BY <1>10, <2>2, <2>3, <2>4, <2>5 DEF Inductive
<1> QED BY <1>11, <1>12 DEF Enqueue, e

\* Every operation but Enqueue.
LEMMA SameEntries ==
  ASSUME issued' = issued
  PROVE  Entries' = Entries
  BY DEF Entries

\* The head is with its caller, or back in front.
LEMMA DequeueInductive ==
  ASSUME Inductive, Dequeue
  PROVE  Inductive'
<1>1. /\ TypeOK /\ Distinct(items) /\ Distinct(Loaded) /\ FileBehind
      /\ FileFollows /\ AckedIsDurable
      /\ items \in Seq(Entries) /\ items \in Seq(Entry)
      /\ Entries' = Entries
  BY FileKnown, SameEntries DEF Inductive, TypeOK, Dequeue
<1>2. CASE /\ items' = Tail(items)
           /\ Saved
           /\ handed' = handed \cup {Head(items)}
  <2>1. /\ Tail(items) \in Seq(Entries) /\ Head(items) \in Entries
        /\ Range(items) = {Head(items)} \cup Range(Tail(items))
    BY <1>1, RangeTail DEF Dequeue
  <2>2. Tail(items) \in Seq(Entry) /\ Distinct(Tail(items))
    BY <1>1, RangeTail, DistinctTail DEF Dequeue
  <2>3. TypeOK'
    BY <1>1, <1>2, <2>1 DEF TypeOK, Dequeue, Saved
  <2>4. Distinct(items)'
    BY <1>2, <2>2 DEF Distinct
  <2>5. /\ Loaded' = items'
        /\ Distinct(Loaded)' /\ FileBehind' /\ FileFollows'
    BY <1>2, <2>2, <2>4, SavedIsCurrent
  <2>6. AckedIsDurable'
    <3>1. Range(Loaded) \subseteq Range(items) \cup dropped
      BY <1>1 DEF FileBehind, Dequeue
    <3>2. UNCHANGED <<issued, erred, dropped>>
      BY DEF Dequeue
    <3> QED BY <1>1, <1>2, <2>1, <2>5, <3>1, <3>2, StaysDurable
  <2> QED BY <2>3, <2>4, <2>5, <2>6 DEF Inductive
<1>3. CASE SaveFails("Dequeue") /\ UNCHANGED <<items, handed>>
  <2>1. UNCHANGED vars
    BY <1>3 DEF Dequeue, SaveFails, vars
  <2> QED BY <2>1 DEF vars, Inductive, TypeOK, Distinct, Loaded, FileBehind,
             FileFollows, AckedIsDurable, Durable, Entries
<1> QED BY <1>2, <1>3 DEF Dequeue

\* Selected entries are with the caller, or back in front of the others: in
\* another order, which only FileFollows minds.
LEMMA DequeueByIDsInductive ==
  ASSUME Inductive, NEW S \in SUBSET Ids, DequeueByIDs(S)
  PROVE  Inductive'
<1>1. /\ TypeOK /\ Distinct(items) /\ Distinct(Loaded) /\ FileBehind
      /\ FileFollows /\ AckedIsDurable
      /\ items \in Seq(Entries) /\ items \in Seq(Entry)
      /\ Entries' = Entries
  BY FileKnown, SameEntries DEF Inductive, TypeOK, DequeueByIDs
<1> DEFINE In == {e \in Entry : e.id \in S}
           Out == {e \in Entry : e.id \notin S}
<1>2. Selected(S) = Select(items, In) /\ Unselected(S) = Select(items, Out)
  BY DEF Selected, Unselected
<1>3. Range(items) \subseteq Entry
  BY <1>1, RangeSeq
<1>4. In \cup Out = Entry /\ In \cap Out = {}
  OBVIOUS
<1> HIDE DEF In, Out
<1>5. /\ Selected(S) \in Seq(Entries) /\ Unselected(S) \in Seq(Entries)
      /\ Selected(S) \in Seq(Entry) /\ Unselected(S) \in Seq(Entry)
      /\ Distinct(Selected(S)) /\ Distinct(Unselected(S))
  BY <1>1, <1>2, SelectPicks, DistinctSelect
<1>6. /\ Range(Selected(S)) = Range(items) \cap In
      /\ Range(Unselected(S)) = Range(items) \cap Out
  BY <1>1, <1>2, SelectRange
<1>7. Range(items) = Range(Selected(S)) \cup Range(Unselected(S))
  BY <1>3, <1>4, <1>6
<1>8. Range(Selected(S)) \subseteq Entries
  BY <1>5, RangeSeq
<1>9. Range(Loaded) \subseteq Range(items) \cup dropped
  BY <1>1 DEF FileBehind, DequeueByIDs
<1>10. CASE /\ items' = Unselected(S)
            /\ Saved
            /\ handed' = handed \cup Range(Selected(S))
            /\ UNCHANGED jumped
  <2>1. TypeOK'
    BY <1>1, <1>5, <1>8, <1>10 DEF TypeOK, DequeueByIDs, Saved
  <2>2. Distinct(items)'
    BY <1>5, <1>10 DEF Distinct
  <2>3. /\ Loaded' = items'
        /\ Distinct(Loaded)' /\ FileBehind' /\ FileFollows'
    BY <1>5, <1>10, <2>2, SavedIsCurrent
  <2>4. UNCHANGED <<issued, erred, dropped>>
    BY DEF DequeueByIDs
  <2>5. AckedIsDurable'
    BY <1>1, <1>7, <1>9, <1>10, <2>3, <2>4, StaysDurable
  <2> QED BY <2>1, <2>2, <2>3, <2>5 DEF Inductive
<1>11. CASE /\ SaveFails("DequeueByIDs")
            /\ items' = Selected(S) \o Unselected(S)
            /\ jumped' = jumped \cup Range(Selected(S))
            /\ UNCHANGED handed
  <2>1. items' \in Seq(Entries) /\ Range(items') = Range(items)
    BY <1>5, <1>7, <1>11, RangeConcat
  <2>2. Loaded' = Loaded
    BY <1>11, UnsavedFile DEF SaveFails
  <2>3. TypeOK'
    BY <1>1, <1>8, <1>11, <2>1 DEF TypeOK, DequeueByIDs, SaveFails
  <2>4. Distinct(items)'
    <3>1. ASSUME NEW x \in Range(Selected(S)), NEW y \in Range(Unselected(S))
          PROVE  x.ticket # y.ticket
      <4>1. x # y /\ x \in Range(items) /\ y \in Range(items)
        BY <1>4, <1>6
      <4> QED BY <1>1, <4>1, SameEntry
    <3>2. Distinct(Selected(S) \o Unselected(S))
      BY <1>5, <3>1, DistinctConcat
    <3> QED BY <1>11, <3>2 DEF Distinct
  <2>5. Distinct(Loaded)' /\ FileBehind'
    BY <1>1, <2>1, <2>2 DEF Distinct, FileBehind, DequeueByIDs
  <2>6. FileFollows'
    <3>1. Range(Selected(S)) # {}
      BY <1>5, RangeSeq DEF DequeueByIDs
    <3> QED BY <1>11, <3>1 DEF FileFollows
  <2>7. AckedIsDurable'
    BY <1>1, <1>11, <2>2, StaysDurable DEF DequeueByIDs
  <2> QED BY <2>3, <2>4, <2>5, <2>6, <2>7 DEF Inductive
<1> QED BY <1>10, <1>11 DEF DequeueByIDs

\* Entries that a failed Drain takes from the slice are counted as dropped.
LEMMA DrainInductive ==
  ASSUME Inductive, Drain
  PROVE  Inductive'
<1>1. /\ TypeOK /\ Distinct(items) /\ Distinct(Loaded) /\ FileBehind
      /\ FileFollows /\ AckedIsDurable
      /\ items \in Seq(Entries) /\ items \in Seq(Entry)
      /\ Entries' = Entries
  BY FileKnown, SameEntries DEF Inductive, TypeOK, Drain
<1>2. items' = <<>> /\ items' \in Seq(Entry) /\ Distinct(items)'
  BY DEF Drain, Distinct
<1>3. Range(items) \subseteq Entries
  BY <1>1, RangeSeq
<1>4. Range(Loaded) \subseteq Range(items) \cup dropped
  BY <1>1 DEF FileBehind, Drain
<1>5. CASE /\ Saved
           /\ handed' = handed \cup Range(items)
           /\ UNCHANGED dropped
  <2>1. TypeOK'
    BY <1>1, <1>2, <1>3, <1>5 DEF TypeOK, Drain, Saved
  <2>2. /\ Loaded' = items'
        /\ Distinct(Loaded)' /\ FileBehind' /\ FileFollows'
    BY <1>2, <1>5, SavedIsCurrent
  <2>3. UNCHANGED <<issued, erred>>
    BY DEF Drain
  <2>4. AckedIsDurable'
    BY <1>1, <1>4, <1>5, <2>3, StaysDurable
  <2> QED BY <1>2, <2>1, <2>2, <2>4 DEF Inductive
<1>6. CASE /\ SaveFails("Drain")
           /\ dropped' = dropped \cup Range(items)
           /\ UNCHANGED handed
  <2>1. Loaded' = Loaded
    BY <1>6, UnsavedFile DEF SaveFails
  <2>2. TypeOK'
    BY <1>1, <1>2, <1>3, <1>6 DEF TypeOK, Drain, SaveFails
  <2>3. Distinct(Loaded)' /\ FileBehind'
    BY <1>1, <1>4, <1>6, <2>1 DEF Distinct, FileBehind
  <2>4. FileFollows'
    <3> SUFFICES ASSUME jumped = {}, dropped' = {}
                 PROVE  /\ Loaded = Select(items', Range(Loaded))
                        /\ Range(items') \ Range(Loaded) \subseteq erred
      BY <2>1 DEF FileFollows, Drain
    <3>1. dropped = {} /\ items' = items
      BY <1>1, <1>2, <1>6, RangeSeq
    <3> QED BY <1>1, <3>1 DEF FileFollows, Drain
  <2>5. AckedIsDurable'
    BY <1>1, <1>6, <2>1, StaysDurable DEF Drain
  <2> QED BY <1>2, <2>2, <2>3, <2>4, <2>5 DEF Inductive
<1> QED BY <1>5, <1>6 DEF Drain

\* The slice is gone and the file stays, ...
LEMMA CrashInductive ==
  ASSUME Inductive, Crash
  PROVE  Inductive'
<1>1. Loaded' = Loaded /\ Entries' = Entries
  BY UnsavedFile, SameEntries DEF Crash
<1>2. TypeOK'
  <2>1. TypeOK
    BY DEF Inductive
  <2>2. items' \in Seq(Entries)
    BY DEF Crash
  <2> QED BY <1>1, <2>1, <2>2 DEF TypeOK, Crash
<1>3. AckedIsDurable'
  BY <1>1, StaysDurable DEF Inductive, Crash
<1> QED BY <1>1, <1>2, <1>3 DEF Inductive, Crash, Distinct, FileBehind, FileFollows

\* ... and the next process reads the slice from it.
LEMMA OpenInductive ==
  ASSUME Inductive, Open
  PROVE  Inductive'
<1>1. Loaded' = Loaded /\ Entries' = Entries /\ items' = Loaded
  BY UnsavedFile, SameEntries DEF Open
<1>2. Loaded \in Seq(Entries) /\ Loaded \in Seq(Entry)
  BY FileKnown DEF Inductive
<1>3. TypeOK'
  BY <1>1, <1>2 DEF Inductive, TypeOK, Open
<1>4. AckedIsDurable'
  BY <1>1, StaysDurable DEF Inductive, Open
<1>5. Loaded = Select(Loaded, Range(Loaded))
  BY <1>2, SelectAll
<1>6. FileFollows'
  BY <1>1, <1>5 DEF FileFollows
<1> QED BY <1>1, <1>3, <1>4, <1>6 DEF Inductive, Distinct, FileBehind

\* Nothing changes.
LEMMA StutterInductive ==
  ASSUME Inductive, UNCHANGED vars
  PROVE  Inductive'
  BY DEF vars, Inductive, TypeOK, Distinct, Loaded, FileBehind, FileFollows,
     AckedIsDurable, Durable, Entries

\* Every operation, and a crash before or after it, preserves the invariant.
LEMMA NextInductive ==
  Inductive /\ [Next]_vars => Inductive'
<1> SUFFICES ASSUME Inductive, [Next]_vars PROVE Inductive'
  OBVIOUS
<1>1. CASE \E id \in Ids : Enqueue(id)
  BY <1>1, EnqueueInductive
<1>2. CASE Dequeue
  BY <1>2, DequeueInductive
<1>3. CASE \E S \in SUBSET Ids : DequeueByIDs(S)
  BY <1>3, DequeueByIDsInductive
<1>4. CASE Drain
  BY <1>4, DrainInductive
<1>5. CASE Crash
  BY <1>5, CrashInductive
<1>6. CASE Open
  BY <1>6, OpenInductive
<1>7. CASE UNCHANGED vars
  BY <1>7, StutterInductive
<1> QED BY <1>1, <1>2, <1>3, <1>4, <1>5, <1>6, <1>7 DEF Next

\* The inductive invariant of queue.go: the file has every entry of the slice but
\* those whose save failed, and no ticket twice.
THEOREM InductiveHolds ==
  Spec => []Inductive
  BY InitInductive, NextInductive, PTL DEF Spec

\* The slice, the file and the history are made of entries that were enqueued.
THEOREM QueueTypeOK ==
  Spec => []TypeOK
<1>1. Inductive => TypeOK
  BY DEF Inductive
<1> QED BY <1>1, InductiveHolds, PTL

\* docs/GUIDE.md:50, for any number of calls and any operations that fail: an
\* entry whose Enqueue succeeded is in the file until a caller has it or a Drain
\* fails (queue.go:130).
THEOREM AckedStaysDurable ==
  Spec => []AckedIsDurable
<1>1. Inductive => AckedIsDurable
  BY DEF Inductive
<1> QED BY <1>1, InductiveHolds, PTL
-----------------------------------------------------------------------------
(* The queue implements DurableFifo.                                        *)

Pending == IF open THEN items ELSE Loaded
Intact  == jumped = {} /\ dropped = {}

\* DurableFifo and FileQueue mean the same by their operators.
LEMMA FifoWithout ==
  ASSUME NEW s, NEW S
  PROVE  Fifo0!Without(s, S) = Select(s, Range(s) \ S)
<1>1. Fifo0!Range(s) = Range(s)
  BY DEF Fifo0!Range, Range
<1>2. ASSUME NEW R PROVE Fifo0!Select(s, R) = Select(s, R)
  BY DEF Fifo0!Select, Select
<1> QED BY <1>1, <1>2 DEF Fifo0!Without

\* An empty file queue is an empty FIFO.
LEMMA FifoInit ==
  Init => Fifo0!Init
  BY DEF Init, Fifo0!Init

\* Enqueue, with its save or without, is the Enqueue of the FIFO.
LEMMA FifoEnqueue ==
  ASSUME Inductive, NEW id \in Ids, Enqueue(id)
  PROVE  Fifo0!Next
<1> DEFINE e == [ticket |-> issued + 1, id |-> id]
<1>1. issued \in Nat /\ issued + 1 \in 1..MaxEnqueues
  BY ConstantsAssumption DEF Inductive, TypeOK, Enqueue
<1>2. e \in Entry /\ e \notin Entries
  BY <1>1 DEF Entry, Entries
<1>3. Range(items) \cup erred \cup handed \subseteq Entries
  <2>1. items \in Seq(Entries)
    BY DEF Inductive, TypeOK
  <2> QED BY <2>1, RangeSeq DEF Inductive, TypeOK
<1>4. /\ open /\ open' = open /\ items' = Append(items, e)
      /\ erred' \in {erred, erred \cup {e}} /\ UNCHANGED <<handed, jumped, dropped>>
  BY DEF Enqueue
<1> HIDE DEF e
<1>5. Fifo0!Range(items) = Range(items)
  BY DEF Fifo0!Range, Range
<1>6. Fifo0!Put(e)
  BY <1>2, <1>3, <1>4, <1>5 DEF Fifo0!Put
<1> QED BY <1>2, <1>4, <1>6 DEF Fifo0!Next

\* A step that takes the entries S and leaves the rest.
LEMMA FifoTake ==
  ASSUME open, open', NEW S \in SUBSET Range(items), S # {},
         items' = Select(items, Range(items) \ S), handed' = handed \cup S,
         UNCHANGED erred
  PROVE  Fifo0!Next
<1>1. Fifo0!Range(items) = Range(items)
  BY DEF Fifo0!Range, Range
<1>2. Fifo0!Take(S)
  BY FifoWithout DEF Fifo0!Take
<1> QED BY <1>1, <1>2 DEF Fifo0!Next

\* Dequeue takes the head, or nothing.
LEMMA FifoDequeue ==
  ASSUME Inductive, Dequeue
  PROVE  [Fifo0!Next]_Fifo0!fifoVars
<1>1. items \in Seq(Entry) /\ Distinct(items) /\ items # <<>> /\ open /\ open' = open
  BY FileKnown DEF Inductive, Dequeue
<1>2. CASE /\ items' = Tail(items)
           /\ Saved
           /\ handed' = handed \cup {Head(items)}
  <2> DEFINE S == {Head(items)}
  <2>1. /\ Range(items) = S \cup Range(Tail(items))
        /\ Head(items) \notin Range(Tail(items))
    BY <1>1, RangeTail, DistinctTail
  <2>2. Select(items, Range(items) \ S) = Tail(items)
    <3>1. Range(Tail(items)) \subseteq Range(items) \ S
      BY <2>1
    <3> QED BY <1>1, <3>1, SelectTail
  <2>3. S \in SUBSET Range(items) /\ S # {}
    BY <2>1
  <2>4. UNCHANGED erred
    BY DEF Dequeue
  <2>5. items' = Select(items, Range(items) \ S) /\ handed' = handed \cup S
    BY <1>2, <2>2
  <2> HIDE DEF S
  <2>6. Fifo0!Next
    BY <1>1, <2>3, <2>4, <2>5, FifoTake
  <2> QED BY <2>6
<1>3. CASE SaveFails("Dequeue") /\ UNCHANGED <<items, handed>>
  BY <1>1, <1>3 DEF Dequeue, SaveFails, Fifo0!fifoVars
<1> QED BY <1>2, <1>3 DEF Dequeue

\* DequeueByIDs takes a set of entries, or ends the promise of order.
LEMMA FifoDequeueByIDs ==
  ASSUME Inductive, NEW S \in SUBSET Ids, DequeueByIDs(S)
  PROVE  Fifo0!Next
<1> DEFINE In == {e \in Entry : e.id \in S}
           Out == {e \in Entry : e.id \notin S}
<1>1. items \in Seq(Entry) /\ open /\ open' = open /\ Selected(S) # <<>>
  BY FileKnown DEF Inductive, DequeueByIDs
<1>2. Selected(S) = Select(items, In) /\ Unselected(S) = Select(items, Out)
  BY DEF Selected, Unselected
<1>3. Range(items) \subseteq Entry /\ In \cup Out = Entry /\ In \cap Out = {}
  BY <1>1, RangeSeq
<1> HIDE DEF In, Out
<1>4. /\ Selected(S) \in Seq(Entry) /\ Range(Selected(S)) # {}
      /\ Range(Selected(S)) = Range(items) \cap In
  BY <1>1, <1>2, SelectPicks, SelectRange, RangeSeq
<1>5. CASE /\ items' = Unselected(S)
           /\ Saved
           /\ handed' = handed \cup Range(Selected(S))
           /\ UNCHANGED jumped
  <2> DEFINE R == Range(Selected(S))
  <2>1. Select(items, Out) = Select(items, Range(items) \ R)
    <3>1. \A x \in Range(items) : x \in Out <=> x \in Range(items) \ R
      BY <1>3, <1>4
    <3> QED BY <1>1, <3>1, SelectSame
  <2>2. R \in SUBSET Range(items) /\ R # {}
    BY <1>4
  <2>3. items' = Select(items, Range(items) \ R) /\ handed' = handed \cup R /\ UNCHANGED erred
    BY <1>2, <1>5, <2>1 DEF DequeueByIDs
  <2> HIDE DEF R
  <2> QED BY <1>1, <2>2, <2>3, FifoTake
<1>6. CASE jumped' = jumped \cup Range(Selected(S))
  <2>1. jumped' # {}
    BY <1>4, <1>6
  <2> QED BY <2>1 DEF Fifo0!Next
<1> QED BY <1>5, <1>6 DEF DequeueByIDs

\* Drain takes all entries, or ends the promise.
LEMMA FifoDrain ==
  ASSUME Inductive, Drain
  PROVE  [Fifo0!Next]_Fifo0!fifoVars
<1>1. items \in Seq(Entry) /\ open /\ open' = open /\ items' = <<>>
  BY FileKnown DEF Inductive, Drain
<1>2. CASE items = <<>> /\ handed' = handed /\ UNCHANGED dropped
  BY <1>1, <1>2 DEF Drain, Fifo0!fifoVars
<1>3. CASE items # <<>> /\ handed' = handed \cup Range(items)
  <2> DEFINE S == Range(items)
  <2>1. Select(items, S \ S) = <<>>
    <3> DEFINE t == Select(items, S \ S)
    <3>1. t \in Seq(Entry) /\ Range(t) = {}
      BY <1>1, SelectPicks, SelectRange
    <3> HIDE DEF t
    <3>2. t = <<>>
      BY <3>1, RangeSeq
    <3> QED BY <3>2 DEF t
  <2>2. S # {}
    BY <1>1, <1>3, RangeSeq
  <2>3. /\ items' = Select(items, Range(items) \ S) /\ handed' = handed \cup S
        /\ UNCHANGED erred
    BY <1>1, <1>3, <2>1 DEF Drain
  <2> HIDE DEF S
  <2>4. S \in SUBSET Range(items)
    BY DEF S
  <2>5. Fifo0!Next
    BY <1>1, <2>2, <2>3, <2>4, FifoTake
  <2> QED BY <2>5
<1>4. CASE items # <<>> /\ dropped' = dropped \cup Range(items)
  <2>1. dropped' # {}
    BY <1>1, <1>4, RangeSeq
  <2> QED BY <2>1 DEF Fifo0!Next
<1>5. items = <<>> => Range(items) = {}
  BY <1>1, RangeSeq
<1> QED BY <1>2, <1>3, <1>4, <1>5 DEF Drain, Saved

\* A crash may take unsaved entries and no other, ...
LEMMA FifoCrash ==
  ASSUME Inductive, Crash
  PROVE  Fifo0!Next
<1>1. CASE ~Intact
  BY <1>1 DEF Crash, Intact, Fifo0!Next
<1>2. CASE Intact
  <2> DEFINE S == Range(items) \ Range(Loaded)
  <2>1. /\ Loaded = Select(items, Range(Loaded)) /\ S \subseteq erred
        /\ items \in Seq(Entry)
    BY <1>2, FileKnown DEF Inductive, FileFollows, Intact, Crash
  <2>2. Select(items, Range(Loaded)) = Select(items, Range(items) \ S)
    <3>1. \A x \in Range(items) : x \in Range(Loaded) <=> x \in Range(items) \ S
      OBVIOUS
    <3> QED BY <2>1, <3>1, SelectSame
  <2>3. S \in SUBSET Range(items)
    OBVIOUS
  <2>4. Fifo0!Without(items, S) = Loaded
    BY <2>1, <2>2, FifoWithout
  <2>5. Loaded' = Loaded /\ open /\ ~open' /\ UNCHANGED <<erred, handed, jumped, dropped>>
    BY UnsavedFile DEF Crash
  <2> HIDE DEF S
  <2>6. Fifo0!Lose(S)
    BY <2>1, <2>4, <2>5 DEF Fifo0!Lose
  <2>7. Fifo0!Range(items) = Range(items)
    BY DEF Fifo0!Range, Range
  <2> QED BY <1>2, <2>3, <2>5, <2>6, <2>7 DEF Fifo0!Next, Intact
<1> QED BY <1>1, <1>2

\* ... and the next process sees what was left.
LEMMA FifoOpen ==
  ASSUME Open
  PROVE  UNCHANGED Fifo0!fifoVars
  BY UnsavedFile DEF Open, Fifo0!fifoVars

\* Nothing changes.
LEMMA FifoStutter ==
  ASSUME UNCHANGED vars
  PROVE  UNCHANGED Fifo0!fifoVars
  BY UnsavedFile DEF vars, Fifo0!fifoVars

\* Every step of the queue is a step of the FIFO or changes nothing that it has.
LEMMA FifoNext ==
  Inductive /\ [Next]_vars => [Fifo0!Next]_Fifo0!fifoVars
<1> SUFFICES ASSUME Inductive, [Next]_vars PROVE [Fifo0!Next]_Fifo0!fifoVars
  OBVIOUS
<1>1. CASE \E id \in Ids : Enqueue(id)
  BY <1>1, FifoEnqueue
<1>2. CASE Dequeue
  BY <1>2, FifoDequeue
<1>3. CASE \E S \in SUBSET Ids : DequeueByIDs(S)
  BY <1>3, FifoDequeueByIDs
<1>4. CASE Drain
  BY <1>4, FifoDrain
<1>5. CASE Crash
  BY <1>5, FifoCrash
<1>6. CASE Open
  BY <1>6, FifoOpen
<1>7. CASE UNCHANGED vars
  BY <1>7, FifoStutter
<1> QED BY <1>1, <1>2, <1>3, <1>4, <1>5, <1>6, <1>7 DEF Next

\* queue.go implements the queue its callers rely on: entries leave only into a
\* caller's hands, in their order, each once, and survive the process, until a
\* DequeueByIDs or a Drain fails (queue.go:119, 130).
THEOREM ImplementsFifo ==
  Spec => ImplementsDurableFifo
  BY FifoInit, FifoNext, InductiveHolds, PTL DEF Spec, ImplementsDurableFifo, Fifo0!Spec
-----------------------------------------------------------------------------
(* The manager: an acknowledged item of a static queue is in the file until *)
(* a worker gets it (StaticIsDurable), and no item is delivered more often  *)
(* than it was enqueued, until a Delete leaves a second handle on a         *)
(* single-use queue (DeliveredOnce).                                        *)

NoRepeat(s) == \A i, j \in DOMAIN s : s[i] = s[j] => i = j

-----------------------------------------------------------------------------
(* Sequences of producers.                                                  *)

\* An enqueued item is in the queue once if it was not there before.
LEMMA AppendOnce ==
  ASSUME NEW s \in Seq(Producers), NEW p \in Producers
  PROVE  /\ Append(s, p) \in Seq(Producers) /\ Range(Append(s, p)) = Range(s) \cup {p}
         /\ NoRepeat(s) /\ p \notin Range(s) => NoRepeat(Append(s, p))
<1> DEFINE a == Append(s, p)
<1>1. /\ DOMAIN s = 1..Len(s) /\ DOMAIN a = 1..Len(s) + 1 /\ Len(s) \in Nat
      /\ \A i \in 1..Len(s) : a[i] = s[i]
      /\ a[Len(s) + 1] = p
  OBVIOUS
<1> HIDE DEF a
<1>2. ASSUME NoRepeat(s), p \notin Range(s) PROVE NoRepeat(a)
  <2>1. \A i \in 1..Len(s) : a[i] # p
    BY <1>1, <1>2, RangeSeq
  <2> QED BY <1>1, <1>2, <2>1 DEF NoRepeat
<1> QED BY <1>2, RangeAppend DEF a

\* The head is not in the rest.
LEMMA TailOnce ==
  ASSUME NEW s \in Seq(Producers), s # <<>>
  PROVE  /\ Tail(s) \in Seq(Producers) /\ Head(s) \in Producers /\ Head(s) \in Range(s)
         /\ Range(s) = {Head(s)} \cup Range(Tail(s))
         /\ NoRepeat(s) => NoRepeat(Tail(s)) /\ Head(s) \notin Range(Tail(s))
<1> DEFINE t == Tail(s)
<1>1. /\ DOMAIN s = 1..Len(s) /\ DOMAIN t = 1..Len(s) - 1 /\ Len(s) \in Nat \ {0}
      /\ t \in Seq(Producers) /\ Len(t) = Len(s) - 1 /\ Head(s) = s[1]
      /\ \A i \in 1..Len(s) - 1 : t[i] = s[i + 1]
  OBVIOUS
<1> HIDE DEF t
<1>2. ASSUME NoRepeat(s) PROVE NoRepeat(t) /\ Head(s) \notin Range(t)
  <2>1. ASSUME NEW i \in 1..Len(s) - 1, NEW j \in 1..Len(s) - 1, t[i] = t[j] PROVE i = j
    <3>1. i + 1 \in 1..Len(s) /\ j + 1 \in 1..Len(s) /\ s[i + 1] = s[j + 1]
      BY <1>1, <2>1
    <3>2. i + 1 = j + 1
      BY <1>1, <1>2, <3>1 DEF NoRepeat
    <3> QED BY <1>1, <3>2
  <2>2. ASSUME NEW i \in 1..Len(s) - 1, t[i] = s[1] PROVE FALSE
    <3>1. i + 1 \in 1..Len(s) /\ 1 \in 1..Len(s) /\ s[i + 1] = s[1] /\ i + 1 # 1
      BY <1>1, <2>2
    <3> QED BY <1>1, <1>2, <3>1 DEF NoRepeat
  <2>3. \A x \in Range(t) : \E i \in 1..Len(s) - 1 : t[i] = x
    BY <1>1, RangeSeq
  <2> QED BY <1>1, <2>1, <2>2, <2>3 DEF NoRepeat
<1> QED BY <1>2, RangeTail DEF t

-----------------------------------------------------------------------------
(* Get, which every operation begins with.                                  *)

\* A file holds items of producers.
LEMMA LoadedType ==
  ASSUME ManagerTypeOK
  PROVE  LoadedFile \in Seq(Producers)
<1>1. <<>> \in Seq(Producers)
  OBVIOUS
<1> QED BY <1>1 DEF ManagerTypeOK, LoadedFile

\* The handle is one of those there are then; nothing is added beside a handle
\* that the map has.
LEMMA GetGives ==
  ASSUME ManagerInductive, Get
  PROVE  /\ handles' \in Seq(Seq(Producers)) /\ Len(handles) <= Len(handles')
         /\ Len(handles') \in Nat /\ Len(handles) \in Nat
         /\ Got \in 1..Len(handles') /\ current' = Got
         /\ \/ handles' = handles
            \/ handles = <<>> /\ handles' = <<LoadedFile>>
            \/ Len(handles') > 1
         /\ handles = <<>> => handles' = <<LoadedFile>> /\ current' = 1
<1>1. /\ handles \in Seq(Seq(Producers)) /\ current \in 0..Len(handles) /\ Len(handles) \in Nat
      /\ LoadedFile \in Seq(Producers)
  BY LoadedType DEF ManagerInductive, ManagerTypeOK
<1>2. CASE current # 0
  <2>1. current \in 1..Len(handles)
    BY <1>1, <1>2
  <2>2. handles # <<>>
    BY <1>1, <2>1
  <2> QED BY <1>1, <1>2, <2>1, <2>2 DEF Get, Got
<1>3. CASE current = 0
  <2>1. handles' = Append(handles, LoadedFile) /\ current' = Len(handles) + 1 /\ Got = Len(handles) + 1
    BY <1>3 DEF Get, Got
  <2>2. handles' \in Seq(Seq(Producers)) /\ Len(handles') = Len(handles) + 1
    BY <1>1, <2>1
  <2>3. CASE handles = <<>>
    <3>1. Append(handles, LoadedFile) = <<LoadedFile>> /\ Len(handles) = 0
      BY <2>3
    <3> QED BY <1>1, <2>1, <2>2, <2>3, <3>1
  <2>4. CASE handles # <<>>
    <3>1. Len(handles) > 0
      BY <1>1, <2>4
    <3> QED BY <1>1, <2>1, <2>2, <2>4, <3>1
  <2> QED BY <2>3, <2>4
<1> QED BY <1>2, <1>3

\* Only the first Get of the queue makes a handle while there is at most one,
\* and it is empty.
LEMMA FirstGet ==
  ASSUME ManagerInductive, Get, Len(handles') <= 1
  PROVE  handles' = handles \/ (handles = <<>> /\ handles' = << <<>> >>)
<1>1. \/ handles' = handles
      \/ handles = <<>> /\ handles' = <<LoadedFile>>
  BY GetGives
<1>2. CASE handles = <<>>
  <2>1. Len(handles) <= 1
    BY <1>2
  <2>2. LoadedFile = <<>>
    BY <1>2, <2>1 DEF ManagerInductive, QueuedOnce, LoadedFile
  <2> QED BY <1>1, <2>2
<1> QED BY <1>1, <1>2

\* What a queue with one handle says stays true while no item moves.
LEMMA QueuedRests ==
  ASSUME ManagerInductive, UNCHANGED <<retries, delivered>>, disk' = disk \/ disk' = Missing,
         handles' = handles \/ (handles = <<>> /\ handles' = << <<>> >>) \/ Len(handles') > 1,
         Len(handles') \in Nat,
         \A p \in Producers : /\ pc[p] = "queued" => pc'[p] = "queued"
                              /\ pc[p] \in {"busy", "done"} => pc'[p] \in {"busy", "done"}
  PROVE  QueuedOnce'
<1>1. /\ retries \in [Producers -> Nat] /\ delivered \in [Producers -> Nat]
      /\ handles \in Seq(Seq(Producers))
  BY ManagerAssumption DEF ManagerInductive, ManagerTypeOK
<1> SUFFICES ASSUME Len(handles') <= 1 PROVE
      /\ handles' = <<>> => disk' = Missing
      /\ \A h \in DOMAIN handles' :
           /\ \A i, j \in DOMAIN handles'[h] : handles'[h][i] = handles'[h][j] => i = j
           /\ \A p \in Range(handles'[h]) : pc'[p] = "queued"
      /\ \A p \in Producers :
           delivered'[p] <= (IF pc'[p] \in {"busy", "done"} THEN retries'[p] + 1 ELSE retries'[p])
  BY DEF QueuedOnce
<1>2. handles' = handles \/ (handles = <<>> /\ handles' = << <<>> >>)
  OBVIOUS
<1>3. Len(handles) <= 1
  BY <1>2
<1>4. ASSUME NEW p \in Producers
      PROVE  delivered'[p] <= (IF pc'[p] \in {"busy", "done"} THEN retries'[p] + 1 ELSE retries'[p])
  BY <1>1, <1>3 DEF ManagerInductive, QueuedOnce
<1>5. CASE handles' = handles
  <2>1. ASSUME NEW h \in DOMAIN handles, NEW p \in Range(handles[h]) PROVE pc'[p] = "queued"
    <3>1. p \in Producers
      BY <1>1, RangeSeq
    <3> QED BY <1>3, <3>1 DEF ManagerInductive, QueuedOnce
  <2> QED BY <1>3, <1>4, <1>5, <2>1 DEF ManagerInductive, QueuedOnce
<1>6. CASE handles' = << <<>> >>
  <2>1. DOMAIN handles' = {1} /\ handles'[1] = <<>> /\ handles' # <<>>
    BY <1>6
  <2>2. DOMAIN <<>> = {} /\ Range(<<>>) = {}
    BY DEF Range
  <2> QED BY <1>4, <2>1, <2>2
<1> QED BY <1>2, <1>5, <1>6

\* A static queue after its first Get.
LEMMA StaticGet ==
  ASSUME ManagerInductive, Get, UNCHANGED <<mode, disk>>, closers' = {} \/ mode.singleUse,
         scanner'.pc \in {"idle", "look"} \/ mode.singleUse
  PROVE  OneHandle' /\ (~mode.singleUse => Len(handles') <= 1)
<1> SUFFICES ASSUME ~mode.singleUse
             PROVE  /\ Len(handles') <= 1 /\ handles' # <<>>
                    /\ current' = 1 /\ LoadedFile' = handles'[1]
  BY DEF OneHandle
<1>1. /\ Len(handles) <= 1
      /\ IF handles = <<>> THEN disk = Missing ELSE current = 1 /\ LoadedFile = handles[1]
  BY DEF ManagerInductive, OneHandle
<1>2. LoadedFile' = LoadedFile
  BY DEF LoadedFile
<1>3. CASE handles = <<>>
  <2>1. handles' = <<LoadedFile>> /\ current' = 1
    BY <1>3, GetGives
  <2>2. handles'[1] = LoadedFile /\ Len(handles') = 1 /\ handles' # <<>>
    BY <2>1
  <2> QED BY <1>2, <2>1, <2>2
<1>4. CASE handles # <<>>
  BY <1>1, <1>2, <1>4 DEF Get, Got
<1> QED BY <1>3, <1>4

\* Manager.Enqueue gets the handle, ...
LEMMA GetForEnqueueKeeps ==
  ASSUME ManagerInductive, NEW p \in Producers, GetForEnqueue(p)
  PROVE  ManagerInductive'
<1>1. /\ handles' \in Seq(Seq(Producers)) /\ Len(handles) <= Len(handles')
      /\ Len(handles') \in Nat /\ Len(handles) \in Nat
      /\ Got \in 1..Len(handles') /\ current' = Got
      /\ Get /\ at' = [at EXCEPT ![p] = Got] /\ pc' = [pc EXCEPT ![p] = "got"]
      /\ UNCHANGED <<mode, disk, retries, delivered, scanner, closers>>
      /\ pc[p] \in {"start", "retry"}
  BY GetGives DEF GetForEnqueue
<1>2. ManagerTypeOK
  BY DEF ManagerInductive
<1>3. ManagerTypeOK'
  <2>1. at' \in [Producers -> 0..Len(handles')]
    BY <1>1, <1>2 DEF ManagerTypeOK
  <2>2. pc' \in [Producers -> Stages]
    BY <1>1, <1>2 DEF ManagerTypeOK, Stages
  <2>3. \A q \in Producers : pc'[q] \in {"got", "absent"} => at'[q] >= 1
    BY <1>1, <1>2 DEF ManagerTypeOK
  <2>4. scanner'.at <= Len(handles')
    BY <1>1, <1>2 DEF ManagerTypeOK, Thread
  <2> QED BY <1>1, <1>2, <2>1, <2>2, <2>3, <2>4 DEF ManagerTypeOK
<1>4. OneHandle'
  <2>1. closers' = {} \/ mode.singleUse
    BY <1>1 DEF ManagerInductive, OneHandle
  <2>2. scanner'.pc \in {"idle", "look"} \/ mode.singleUse
    BY <1>1 DEF ManagerInductive, OneHandle
  <2> QED BY <1>1, <2>1, <2>2, StaticGet
<1>5. \A q \in Producers : /\ q # p => pc'[q] = pc[q]
                           /\ pc'[p] = "got"
  BY <1>1, <1>2 DEF ManagerTypeOK
<1>6. StaticIsDurable'
  BY <1>1, <1>5 DEF ManagerInductive, StaticIsDurable, QueuedIsDurable
<1>7. QueuedOnce'
  BY <1>1, <1>5, FirstGet, QueuedRests
<1> QED BY <1>3, <1>4, <1>6, <1>7 DEF ManagerInductive

\* ... EnqueueIfAbsent looks for the ID before it does, ...
LEMMA ScanForIdKeeps ==
  ASSUME ManagerInductive, NEW p \in Producers, ScanForId(p)
  PROVE  ManagerInductive'
<1>1. /\ \E to \in {"skipped", "absent"} : pc' = [pc EXCEPT ![p] = to]
      /\ UNCHANGED <<mode, current, handles, disk, at, retries, delivered, scanner, closers>>
      /\ pc[p] = "got"
  BY DEF ScanForId
<1>2. PICK to \in {"skipped", "absent"} : pc' = [pc EXCEPT ![p] = to]
  BY <1>1
<1>3. ManagerTypeOK
  BY DEF ManagerInductive
<1>4. \A q \in Producers : /\ q # p => pc'[q] = pc[q]
                           /\ pc'[p] = to
  BY <1>2, <1>3 DEF ManagerTypeOK
<1>5. ManagerTypeOK'
  <2>1. pc' \in [Producers -> Stages]
    BY <1>2, <1>3 DEF ManagerTypeOK, Stages
  <2> QED BY <1>1, <1>3, <1>4, <2>1 DEF ManagerTypeOK
<1>6. OneHandle'
  BY <1>1 DEF ManagerInductive, OneHandle, LoadedFile
<1>7. StaticIsDurable'
  BY <1>1, <1>4 DEF ManagerInductive, StaticIsDurable, QueuedIsDurable
<1>8. QueuedOnce'
  <2>1. Len(handles') \in Nat
    BY <1>1, <1>3 DEF ManagerTypeOK
  <2> QED BY <1>1, <1>4, <2>1, QueuedRests
<1> QED BY <1>5, <1>6, <1>7, <1>8 DEF ManagerInductive

\* ... and the handle takes the item, which is in no queue then.
LEMMA EnqueueKeeps ==
  ASSUME ManagerInductive, NEW p \in Producers, ManagerEnqueue(p)
  PROVE  ManagerInductive'
<1> DEFINE h == at[p]
           s == Append(handles[h], p)
<1>1. ManagerTypeOK
  BY DEF ManagerInductive
<1>2. /\ pc[p] \in {"got", "absent"}
      /\ handles' = [handles EXCEPT ![h] = s] /\ disk' = s
      /\ pc' = [pc EXCEPT ![p] = "queued"]
      /\ UNCHANGED <<mode, current, at, retries, delivered, scanner>>
  BY DEF ManagerEnqueue, MayEnqueue, Write
<1>3. /\ h \in 1..Len(handles) /\ DOMAIN handles = 1..Len(handles) /\ Len(handles) \in Nat
      /\ handles[h] \in Seq(Producers)
  BY <1>1, <1>2 DEF ManagerTypeOK
<1>4. s \in Seq(Producers) /\ Range(s) = Range(handles[h]) \cup {p}
  BY <1>3, AppendOnce
<1>5. handles' \in Seq(Seq(Producers)) /\ Len(handles') = Len(handles) /\ DOMAIN handles' = DOMAIN handles
  BY <1>1, <1>2, <1>3, <1>4 DEF ManagerTypeOK
<1>6. \A q \in Producers : (q # p => pc'[q] = pc[q]) /\ pc'[p] = "queued"
  BY <1>1, <1>2 DEF ManagerTypeOK
<1>7. closers' \subseteq Closer /\ (~mode.singleUse => closers' = closers)
  <2>1. retries[p] \in Nat
    BY <1>1, ManagerAssumption DEF ManagerTypeOK
  <2>2. [by |-> p, run |-> retries[p], pc |-> "get", at |-> 0] \in Closer
    BY <2>1 DEF Closer
  <2> QED BY <1>1, <2>2 DEF ManagerEnqueue, ManagerTypeOK
<1> HIDE DEF s, h
<1>8. ManagerTypeOK'
  <2>1. pc' \in [Producers -> Stages]
    BY <1>1, <1>2 DEF ManagerTypeOK, Stages
  <2>2. \A q \in Producers : pc'[q] \in {"got", "absent"} => at'[q] >= 1
    BY <1>1, <1>2, <1>6 DEF ManagerTypeOK
  <2> QED BY <1>1, <1>2, <1>4, <1>5, <1>7, <2>1, <2>2 DEF ManagerTypeOK
<1>9. ~mode.singleUse => h = 1 /\ Len(handles) = 1 /\ handles # <<>> /\ current = 1 /\ LoadedFile = handles[1]
  <2>1. ~mode.singleUse => Len(handles) <= 1
    BY DEF ManagerInductive, OneHandle
  <2>2. handles # <<>>
    BY <1>3
  <2> QED BY <1>3, <2>1, <2>2 DEF ManagerInductive, OneHandle
<1>10. LoadedFile' = s /\ disk' # Missing
  BY <1>2, <1>4, ManagerAssumption DEF LoadedFile
<1>11. OneHandle'
  <2> SUFFICES ASSUME ~mode.singleUse
               PROVE  /\ closers' = {} /\ scanner'.pc \in {"idle", "look"} /\ Len(handles') <= 1
                      /\ handles' # <<>> /\ current' = 1 /\ LoadedFile' = handles'[1]
    BY <1>2 DEF OneHandle
  <2>1. handles'[1] = s
    BY <1>2, <1>3, <1>9
  <2>2. handles' # <<>>
    BY <1>3, <1>5
  <2> QED BY <1>2, <1>5, <1>7, <1>9, <1>10, <2>1, <2>2 DEF ManagerInductive, OneHandle
<1>12. StaticIsDurable'
  <2> SUFFICES ASSUME ~mode.singleUse, NEW q \in Producers, pc'[q] = "queued"
               PROVE  q \in Range(disk')
    BY <1>2, <1>10 DEF StaticIsDurable, QueuedIsDurable
  <2>1. CASE q = p
    BY <1>2, <1>4, <2>1
  <2>2. CASE q # p
    <3>1. disk # Missing /\ q \in Range(disk)
      BY <1>6, <2>2 DEF ManagerInductive, StaticIsDurable, QueuedIsDurable
    <3>2. disk = handles[h]
      BY <1>9, <3>1 DEF LoadedFile
    <3> QED BY <1>2, <1>4, <3>1, <3>2
  <2> QED BY <2>1, <2>2
<1>13. QueuedOnce'
  <2> SUFFICES ASSUME Len(handles) <= 1 PROVE
        /\ handles' # <<>>
        /\ \A k \in DOMAIN handles' :
             /\ NoRepeat(handles'[k])
             /\ \A q \in Range(handles'[k]) : pc'[q] = "queued"
        /\ \A q \in Producers :
             delivered'[q] <= (IF pc'[q] \in {"busy", "done"} THEN retries'[q] + 1 ELSE retries'[q])
    BY <1>5 DEF QueuedOnce, NoRepeat
  <2>1. /\ h = 1 /\ DOMAIN handles' = {1} /\ handles'[1] = s /\ 1 \in DOMAIN handles
    BY <1>2, <1>3, <1>5
  <2>2. NoRepeat(handles[h]) /\ \A q \in Range(handles[h]) : pc[q] = "queued"
    BY <2>1 DEF ManagerInductive, QueuedOnce, NoRepeat
  <2>3. NoRepeat(s)
    BY <1>2, <1>3, <2>2, AppendOnce DEF s
  <2>4. \A q \in Range(s) : q \in Producers /\ pc'[q] = "queued"
    BY <1>3, <1>4, <1>6, <2>2, RangeSeq
  <2>5. ASSUME NEW q \in Producers
        PROVE  delivered'[q] <= (IF pc'[q] \in {"busy", "done"} THEN retries'[q] + 1 ELSE retries'[q])
    <3>1. delivered[q] <= (IF pc[q] \in {"busy", "done"} THEN retries[q] + 1 ELSE retries[q])
      BY DEF ManagerInductive, QueuedOnce
    <3> QED BY <1>2, <1>6, <3>1
  <2>6. handles' # <<>>
    BY <2>1
  <2> QED BY <2>1, <2>3, <2>4, <2>5, <2>6
<1> QED BY <1>8, <1>11, <1>12, <1>13 DEF ManagerInductive

-----------------------------------------------------------------------------
(* The worker.                                                              *)

\* The scan gets a handle, ...
LEMMA ScanGetKeeps ==
  ASSUME ManagerInductive, ScanGet
  PROVE  ManagerInductive'
<1>1. /\ handles' \in Seq(Seq(Producers)) /\ Len(handles) <= Len(handles')
      /\ Len(handles') \in Nat /\ Len(handles) \in Nat
      /\ Got \in 1..Len(handles') /\ current' = Got
      /\ Get /\ scanner' = [pc |-> "look", at |-> Got]
      /\ UNCHANGED <<mode, disk, pc, at, retries, delivered, closers>>
  BY GetGives DEF ScanGet
<1>2. ManagerTypeOK
  BY DEF ManagerInductive
<1>3. ManagerTypeOK'
  <2>1. at' \in [Producers -> 0..Len(handles')]
    BY <1>1, <1>2 DEF ManagerTypeOK
  <2>2. scanner' \in Thread /\ scanner'.at <= Len(handles') /\ scanner'.at >= 1
    BY <1>1 DEF Thread
  <2> QED BY <1>1, <1>2, <2>1, <2>2 DEF ManagerTypeOK
<1>4. OneHandle'
  <2>1. closers' = {} \/ mode.singleUse
    BY <1>1 DEF ManagerInductive, OneHandle
  <2> QED BY <1>1, <2>1, StaticGet
<1>5. StaticIsDurable'
  BY <1>1 DEF ManagerInductive, StaticIsDurable, QueuedIsDurable
<1>6. QueuedOnce'
  BY <1>1, FirstGet, QueuedRests
<1> QED BY <1>3, <1>4, <1>5, <1>6 DEF ManagerInductive

\* ... takes the head through it, ...
LEMMA ScanDequeueKeeps ==
  ASSUME ManagerInductive, ScanDequeue
  PROVE  ManagerInductive'
<1> DEFINE h == scanner.at
           s == handles[h]
           p == Head(s)
<1>1. ManagerTypeOK
  BY DEF ManagerInductive
<1>2. /\ scanner.pc = "look" /\ s # <<>>
      /\ handles' = [handles EXCEPT ![h] = Tail(s)] /\ disk' = Tail(s)
      /\ pc' = [pc EXCEPT ![p] = "busy"]
      /\ delivered' = [delivered EXCEPT ![p] = @ + 1]
      /\ scanner' = [pc |-> "idle", at |-> 0]
      /\ UNCHANGED <<mode, current, at, retries, closers>>
  BY DEF ScanDequeue, Write, Taken
<1>3. /\ h \in 1..Len(handles) /\ DOMAIN handles = 1..Len(handles) /\ Len(handles) \in Nat
      /\ s \in Seq(Producers)
  BY <1>1, <1>2 DEF ManagerTypeOK, Thread
<1>4. /\ Tail(s) \in Seq(Producers) /\ p \in Producers /\ p \in Range(s)
      /\ Range(s) = {p} \cup Range(Tail(s))
      /\ NoRepeat(s) => NoRepeat(Tail(s)) /\ p \notin Range(Tail(s))
  BY <1>2, <1>3, TailOnce
<1> DEFINE t == Tail(s)
<1> HIDE DEF t
<1>5. /\ handles' \in Seq(Seq(Producers)) /\ Len(handles') = Len(handles)
      /\ DOMAIN handles' = DOMAIN handles /\ handles'[h] = t
  BY <1>1, <1>2, <1>3, <1>4 DEF ManagerTypeOK, t
<1> HIDE DEF s, h, p
<1>6. /\ \A q \in Producers : q # p => pc'[q] = pc[q] /\ delivered'[q] = delivered[q]
      /\ pc'[p] = "busy" /\ delivered'[p] = delivered[p] + 1
      /\ delivered[p] \in Nat /\ retries[p] \in Nat
  BY <1>1, <1>2, <1>4, ManagerAssumption DEF ManagerTypeOK
<1>7. ManagerTypeOK'
  <2>1. pc' \in [Producers -> Stages]
    BY <1>1, <1>2 DEF ManagerTypeOK, Stages
  <2>2. delivered' \in [Producers -> Nat]
    BY <1>1, <1>2, <1>6 DEF ManagerTypeOK
  <2>3. scanner' \in Thread /\ scanner'.at <= Len(handles') /\ scanner'.pc # "look"
    BY <1>2, <1>3, <1>5 DEF Thread
  <2>4. \A q \in Producers : pc'[q] \in {"got", "absent"} => at'[q] >= 1
    BY <1>1, <1>2, <1>6 DEF ManagerTypeOK
  <2> QED BY <1>1, <1>2, <1>4, <1>5, <2>1, <2>2, <2>3, <2>4 DEF ManagerTypeOK
<1>8. LoadedFile' = t /\ disk' # Missing /\ disk' = t
  BY <1>2, <1>4, ManagerAssumption DEF LoadedFile, t
<1>9. ~mode.singleUse => h = 1 /\ LoadedFile = s /\ Len(handles) = 1 /\ current = 1
  <2>1. ~mode.singleUse => Len(handles) <= 1
    BY DEF ManagerInductive, OneHandle
  <2>2. handles # <<>>
    BY <1>3
  <2>3. ~mode.singleUse => h = 1
    BY <1>3, <2>1
  <2> QED BY <1>3, <2>1, <2>2, <2>3 DEF ManagerInductive, OneHandle, s
<1>10. OneHandle'
  <2> SUFFICES ASSUME ~mode.singleUse
               PROVE  /\ closers' = {} /\ scanner'.pc \in {"idle", "look"} /\ Len(handles') <= 1
                      /\ handles' # <<>> /\ current' = 1 /\ LoadedFile' = handles'[1]
    BY <1>2 DEF OneHandle
  <2>1. handles' # <<>>
    BY <1>3, <1>5
  <2> QED BY <1>2, <1>5, <1>8, <1>9, <2>1 DEF ManagerInductive, OneHandle
<1>11. StaticIsDurable'
  <2> SUFFICES ASSUME ~mode.singleUse, NEW q \in Producers, pc'[q] = "queued"
               PROVE  q \in Range(disk')
    BY <1>2, <1>8 DEF StaticIsDurable, QueuedIsDurable
  <2>1. q # p /\ pc[q] = "queued"
    BY <1>6
  <2>2. disk # Missing /\ q \in Range(disk)
    BY <2>1 DEF ManagerInductive, StaticIsDurable, QueuedIsDurable
  <2>3. q \in Range(s)
    BY <1>9, <2>2 DEF LoadedFile
  <2> QED BY <1>4, <1>8, <2>1, <2>3 DEF t
<1>12. QueuedOnce'
  <2> SUFFICES ASSUME Len(handles) <= 1 PROVE
        /\ handles' # <<>>
        /\ \A k \in DOMAIN handles' :
             /\ NoRepeat(handles'[k])
             /\ \A q \in Range(handles'[k]) : pc'[q] = "queued"
        /\ \A q \in Producers :
             delivered'[q] <= (IF pc'[q] \in {"busy", "done"} THEN retries'[q] + 1 ELSE retries'[q])
    BY <1>5 DEF QueuedOnce, NoRepeat
  <2>1. h = 1 /\ DOMAIN handles' = {1} /\ 1 \in DOMAIN handles /\ handles' # <<>>
    BY <1>3, <1>5
  <2>2. NoRepeat(s) /\ \A q \in Range(s) : pc[q] = "queued"
    BY <2>1 DEF ManagerInductive, QueuedOnce, NoRepeat, s
  <2>3. NoRepeat(t) /\ p \notin Range(t) /\ Range(t) \subseteq Range(s)
    BY <1>4, <2>2 DEF t
  <2>4. \A q \in Range(t) : q \in Producers /\ pc'[q] = "queued"
    <3>1. Range(s) \subseteq Producers
      BY <1>3, RangeSeq
    <3> QED BY <1>6, <2>2, <2>3, <3>1
  <2>5. ASSUME NEW q \in Producers
        PROVE  delivered'[q] <= (IF pc'[q] \in {"busy", "done"} THEN retries'[q] + 1 ELSE retries'[q])
    <3>1. delivered[q] <= (IF pc[q] \in {"busy", "done"} THEN retries[q] + 1 ELSE retries[q])
      BY DEF ManagerInductive, QueuedOnce
    <3>2. pc[p] = "queued"
      BY <1>4, <2>2
    <3> QED BY <1>2, <1>6, <3>1, <3>2
  <2> QED BY <1>5, <2>1, <2>3, <2>4, <2>5
<1> QED BY <1>7, <1>10, <1>11, <1>12 DEF ManagerInductive

\* The steps of a worker or handler that move no item: what they leave of the
\* queue, if it is static, and of the counts.
LEMMA RestKeeps ==
  ASSUME ManagerInductive, UNCHANGED <<mode, handles, at, retries, delivered>>,
         mode.singleUse \/ UNCHANGED <<disk, current, closers>>,
         disk' = disk \/ disk' = Missing, current' = current \/ current' = 0,
         closers' \subseteq Closer, scanner' = scanner \/ scanner'.at = 0,
         scanner' \in Thread, scanner'.pc = "look" => scanner' = scanner,
         mode.singleUse \/ scanner'.pc \in {"idle", "look"},
         pc' \in [Producers -> Stages],
         \A q \in Producers : /\ pc'[q] = pc[q] \/ pc'[q] \notin {"got", "absent", "queued"}
                              /\ pc[q] = "queued" => pc'[q] = "queued"
                              /\ pc[q] \in {"busy", "done"} => pc'[q] \in {"busy", "done"}
  PROVE  ManagerInductive'
<1>1. ManagerTypeOK /\ Len(handles) \in Nat
  BY DEF ManagerInductive, ManagerTypeOK
<1>2. ManagerTypeOK'
  <2>1. current' \in 0..Len(handles')
    BY <1>1 DEF ManagerTypeOK
  <2>2. scanner'.at <= Len(handles') /\ (scanner'.pc = "look" => scanner'.at >= 1)
    BY <1>1 DEF ManagerTypeOK
  <2>3. \A q \in Producers : pc'[q] \in {"got", "absent"} => at'[q] >= 1
    BY <1>1 DEF ManagerTypeOK
  <2>4. disk' = Missing \/ disk' \in Seq(Producers)
    BY <1>1 DEF ManagerTypeOK
  <2> QED BY <1>1, <2>1, <2>2, <2>3, <2>4 DEF ManagerTypeOK
<1>3. OneHandle'
  BY DEF ManagerInductive, OneHandle, LoadedFile
<1>4. StaticIsDurable'
  BY DEF ManagerInductive, StaticIsDurable, QueuedIsDurable
<1>5. QueuedOnce'
  BY <1>1, QueuedRests
<1> QED BY <1>2, <1>3, <1>4, <1>5 DEF ManagerInductive

\* ... or finds it empty, and the rest of Delete follows.
LEMMA ScanRestKeeps ==
  ASSUME ManagerInductive, ScanFindsEmpty \/ ScanForget \/ ScanRemove
  PROVE  ManagerInductive'
<1>1. ManagerTypeOK
  BY DEF ManagerInductive
<1>2. UNCHANGED <<mode, handles, at, retries, delivered, pc, closers>>
  BY DEF ScanFindsEmpty, ScanForget, ScanRemove
<1>3. /\ closers' \subseteq Closer /\ pc' \in [Producers -> Stages]
      /\ \A q \in Producers : pc'[q] = pc[q]
  BY <1>1, <1>2 DEF ManagerTypeOK
<1>4. CASE ScanFindsEmpty
  <2>1. scanner' \in Thread /\ scanner'.at = 0 /\ scanner'.pc # "look"
    BY <1>4 DEF ScanFindsEmpty, Thread
  <2>2. mode.singleUse \/ scanner'.pc \in {"idle", "look"}
    BY <1>4 DEF ScanFindsEmpty
  <2> QED BY <1>2, <1>3, <1>4, <2>1, <2>2, RestKeeps DEF ScanFindsEmpty
<1>5. CASE ScanForget
  <2>1. scanner' \in Thread /\ scanner'.at = 0 /\ scanner'.pc # "look" /\ current' = 0
    BY <1>5 DEF ScanForget, Thread, ForgetHandle
  <2>2. mode.singleUse
    BY <1>5 DEF ScanForget, ManagerInductive, OneHandle
  <2> QED BY <1>2, <1>3, <1>5, <2>1, <2>2, RestKeeps DEF ScanForget
<1>6. CASE ScanRemove
  <2>1. scanner' \in Thread /\ scanner'.at = 0 /\ scanner'.pc # "look" /\ disk' = Missing
    BY <1>6 DEF ScanRemove, Thread
  <2>2. mode.singleUse
    BY <1>6 DEF ScanRemove, ManagerInductive, OneHandle
  <2> QED BY <1>2, <1>3, <1>6, <2>1, <2>2, RestKeeps DEF ScanRemove
<1> QED BY <1>4, <1>5, <1>6

-----------------------------------------------------------------------------
(* The handlers.                                                            *)

\* A run ends, ...
LEMMA RunSucceedsKeeps ==
  ASSUME ManagerInductive, NEW p \in Producers, RunSucceeds(p)
  PROVE  ManagerInductive'
<1>1. ManagerTypeOK
  BY DEF ManagerInductive
<1>2. /\ pc[p] = "busy" /\ pc' = [pc EXCEPT ![p] = "done"]
      /\ UNCHANGED <<mode, current, handles, disk, at, retries, delivered, scanner>>
  BY DEF RunSucceeds
<1>3. /\ pc' \in [Producers -> Stages]
      /\ \A q \in Producers : (q # p => pc'[q] = pc[q]) /\ pc'[p] = "done"
  BY <1>1, <1>2 DEF ManagerTypeOK, Stages
<1>4. closers' \subseteq Closer /\ (mode.singleUse \/ closers' = closers)
  <2>1. retries[p] + 1 \in Nat
    BY <1>1, ManagerAssumption DEF ManagerTypeOK
  <2>2. [by |-> p, run |-> retries[p] + 1, pc |-> "get", at |-> 0] \in Closer
    BY <2>1 DEF Closer
  <2> QED BY <1>1, <2>2 DEF RunSucceeds, ManagerTypeOK
<1>5. scanner' \in Thread /\ (mode.singleUse \/ scanner'.pc \in {"idle", "look"})
  BY <1>1, <1>2 DEF ManagerTypeOK, ManagerInductive, OneHandle
<1> QED BY <1>2, <1>3, <1>4, <1>5, RestKeeps

\* ... or its item is enqueued again, which counts as another enqueue.
LEMMA RunFailsKeeps ==
  ASSUME ManagerInductive, NEW p \in Producers, RunFails(p)
  PROVE  ManagerInductive'
<1>1. ManagerTypeOK
  BY DEF ManagerInductive
<1>2. /\ pc[p] = "busy" /\ pc' = [pc EXCEPT ![p] = "retry"] /\ retries[p] < MaxRetries
      /\ retries' = [retries EXCEPT ![p] = @ + 1]
      /\ UNCHANGED <<mode, current, handles, disk, at, delivered, scanner, closers>>
  BY DEF RunFails
<1>3. /\ retries[p] \in Nat /\ retries[p] + 1 \in 0..MaxRetries /\ delivered[p] \in Nat
      /\ \A q \in Producers : /\ q # p => pc'[q] = pc[q] /\ retries'[q] = retries[q]
                              /\ pc'[p] = "retry" /\ retries'[p] = retries[p] + 1
  BY <1>1, <1>2, ManagerAssumption DEF ManagerTypeOK
<1>4. ManagerTypeOK'
  <2>1. pc' \in [Producers -> Stages] /\ retries' \in [Producers -> 0..MaxRetries]
    BY <1>1, <1>2, <1>3 DEF ManagerTypeOK, Stages
  <2>2. \A q \in Producers : pc'[q] \in {"got", "absent"} => at'[q] >= 1
    BY <1>1, <1>2, <1>3 DEF ManagerTypeOK
  <2> QED BY <1>1, <1>2, <2>1, <2>2 DEF ManagerTypeOK
<1>5. OneHandle'
  BY <1>2 DEF ManagerInductive, OneHandle, LoadedFile
<1>6. StaticIsDurable'
  BY <1>2, <1>3 DEF ManagerInductive, StaticIsDurable, QueuedIsDurable
<1>7. QueuedOnce'
  <2> SUFFICES ASSUME Len(handles) <= 1 PROVE
        /\ handles = <<>> => disk = Missing
        /\ \A k \in DOMAIN handles :
             /\ NoRepeat(handles[k])
             /\ \A q \in Range(handles[k]) : pc'[q] = "queued"
        /\ \A q \in Producers :
             delivered[q] <= (IF pc'[q] \in {"busy", "done"} THEN retries'[q] + 1 ELSE retries'[q])
    BY <1>2 DEF QueuedOnce, NoRepeat
  <2>1. ASSUME NEW k \in DOMAIN handles
        PROVE  NoRepeat(handles[k]) /\ \A q \in Range(handles[k]) : pc'[q] = "queued"
    <3>1. NoRepeat(handles[k]) /\ \A q \in Range(handles[k]) : pc[q] = "queued"
      BY DEF ManagerInductive, QueuedOnce, NoRepeat
    <3>2. Range(handles[k]) \subseteq Producers
      <4>1. handles[k] \in Seq(Producers)
        BY <1>1 DEF ManagerTypeOK
      <4> QED BY <4>1, RangeSeq
    <3> QED BY <1>2, <1>3, <3>1, <3>2
  <2>2. ASSUME NEW q \in Producers
        PROVE  delivered[q] <= (IF pc'[q] \in {"busy", "done"} THEN retries'[q] + 1 ELSE retries'[q])
    <3>1. delivered[q] <= (IF pc[q] \in {"busy", "done"} THEN retries[q] + 1 ELSE retries[q])
      BY DEF ManagerInductive, QueuedOnce
    <3>2. CASE q = p
      BY <1>2, <1>3, <3>1, <3>2
    <3>3. CASE q # p
      BY <1>2, <1>3, <3>1, <3>3
    <3> QED BY <3>2, <3>3
  <2> QED BY <2>1, <2>2 DEF ManagerInductive, QueuedOnce
<1> QED BY <1>4, <1>5, <1>6, <1>7 DEF ManagerInductive

\* The handler of a single-use queue deletes it when it is empty.
LEMMA CloseKeeps ==
  ASSUME ManagerInductive, NEW c \in closers, Close(c)
  PROVE  ManagerInductive'
<1>1. ManagerTypeOK /\ c \in Closer /\ mode.singleUse
  BY DEF ManagerInductive, ManagerTypeOK, OneHandle
<1>2. CASE CloserGet(c)
  <2>1. /\ handles' \in Seq(Seq(Producers)) /\ Len(handles) <= Len(handles')
        /\ Len(handles') \in Nat /\ Len(handles) \in Nat
        /\ Got \in 1..Len(handles') /\ current' = Got
        /\ Get /\ closers' = (closers \ {c}) \cup {[c EXCEPT !.pc = "look", !.at = Got]}
        /\ UNCHANGED <<mode, disk, pc, at, retries, delivered, scanner>>
    BY <1>2, GetGives DEF CloserGet, Step
  <2>2. ManagerTypeOK'
    <3>1. at' \in [Producers -> 0..Len(handles')]
      BY <1>1, <2>1 DEF ManagerTypeOK
    <3>2. Got \in Nat
      BY <2>1
    <3>3. [c EXCEPT !.pc = "look", !.at = Got] \in Closer
      BY <1>1, <3>2 DEF Closer
    <3>4. closers' \subseteq Closer
      BY <1>1, <2>1, <3>3 DEF ManagerTypeOK
    <3>5. scanner'.at <= Len(handles') /\ scanner' \in Thread
      BY <1>1, <2>1 DEF ManagerTypeOK, Thread
    <3> QED BY <1>1, <2>1, <3>1, <3>4, <3>5 DEF ManagerTypeOK
  <2>3. OneHandle' /\ StaticIsDurable'
    BY <1>1, <2>1 DEF OneHandle, StaticIsDurable
  <2>4. QueuedOnce'
    BY <2>1, FirstGet, QueuedRests
  <2> QED BY <2>2, <2>3, <2>4 DEF ManagerInductive
<1>3. CASE CloserLooks(c) \/ CloserForgets(c) \/ CloserRemoves(c)
  <2>1. /\ UNCHANGED <<mode, handles, at, retries, delivered, pc, scanner>>
        /\ disk' = disk \/ disk' = Missing
        /\ current' = current \/ current' = 0
    BY <1>3 DEF CloserLooks, CloserForgets, CloserRemoves, ForgetHandle
  <2>2. [c EXCEPT !.pc = "forget", !.at = 0] \in Closer /\ [c EXCEPT !.pc = "remove"] \in Closer
    BY <1>1 DEF Closer
  <2>3. closers' \subseteq closers \cup {[c EXCEPT !.pc = "forget", !.at = 0], [c EXCEPT !.pc = "remove"]}
    BY <1>3 DEF CloserLooks, CloserForgets, CloserRemoves, Step
  <2>4. closers' \subseteq Closer
    BY <1>1, <2>2, <2>3 DEF ManagerTypeOK
  <2>5. pc' \in [Producers -> Stages] /\ scanner' \in Thread
    BY <1>1, <2>1 DEF ManagerTypeOK
  <2> QED BY <1>1, <2>1, <2>4, <2>5, RestKeeps
<1> QED BY <1>2, <1>3 DEF Close

-----------------------------------------------------------------------------
(* The theorems.                                                            *)

\* Nothing is enqueued yet, in any mode.
LEMMA InductiveInit ==
  ManagerInit => ManagerInductive
<1> SUFFICES ASSUME ManagerInit PROVE ManagerInductive
  OBVIOUS
<1>1. /\ handles = <<>> /\ Len(handles) = 0 /\ DOMAIN handles = {} /\ handles \in Seq(Seq(Producers))
      /\ MaxRetries \in Nat
  BY ManagerAssumption DEF ManagerInit
<1>2. ManagerTypeOK
  BY <1>1 DEF ManagerInit, ManagerTypeOK, Stages, Thread
<1> QED BY <1>1, <1>2 DEF ManagerInit, ManagerInductive, OneHandle, StaticIsDurable, QueuedIsDurable, QueuedOnce

\* Every step of a producer, of the scan and of a handler preserves it.
LEMMA InductiveNext ==
  ManagerInductive /\ [ManagerNext]_managerVars => ManagerInductive'
<1> SUFFICES ASSUME ManagerInductive, [ManagerNext]_managerVars PROVE ManagerInductive'
  OBVIOUS
<1>1. CASE UNCHANGED managerVars
  <2>1. UNCHANGED <<mode, current, handles, disk, pc, at, retries, delivered, scanner, closers>>
    BY <1>1 DEF managerVars
  <2>2. /\ pc' \in [Producers -> Stages] /\ scanner' \in Thread /\ closers' \subseteq Closer
        /\ mode.singleUse \/ scanner'.pc \in {"idle", "look"}
    BY <2>1 DEF ManagerInductive, ManagerTypeOK, OneHandle
  <2> QED BY <2>1, <2>2, RestKeeps
<1>2. ASSUME NEW p \in Producers, Producer(p) PROVE ManagerInductive'
  BY <1>2, GetForEnqueueKeeps, ScanForIdKeeps, EnqueueKeeps, RunSucceedsKeeps, RunFailsKeeps
     DEF Producer
<1>3. CASE Scan
  BY <1>3, ScanGetKeeps, ScanDequeueKeeps, ScanRestKeeps DEF Scan
<1> QED BY <1>1, <1>2, <1>3, CloseKeeps DEF ManagerNext

\* The inductive invariant of the two below.
THEOREM ManagerInductiveHolds ==
  ManagerSpec => []ManagerInductive
  BY InductiveInit, InductiveNext, PTL DEF ManagerSpec

\* Threads hold handles that the manager gave out.
THEOREM ManagerTypeCorrect ==
  ManagerSpec => []ManagerTypeOK
<1>1. ManagerInductive => ManagerTypeOK
  BY DEF ManagerInductive
<1> QED BY <1>1, ManagerInductiveHolds, PTL

\* docs/GUIDE.md:50 for the queues nobody deletes: an item whose Enqueue returned
\* is in the file until a worker gets it.
THEOREM StaticQueueDurable ==
  ManagerSpec => []StaticIsDurable
<1>1. ManagerInductive => StaticIsDurable
  BY DEF ManagerInductive
<1> QED BY <1>1, ManagerInductiveHolds, PTL

\* No item of a static queue is delivered more often than it was enqueued, and
\* none of a single-use queue until a Delete leaves a second handle on the file.
THEOREM DeliveredAsEnqueued ==
  ManagerSpec => []DeliveredOnce
<1>1. ManagerInductive => DeliveredOnce
  <2> SUFFICES ASSUME ManagerInductive, ~mode.singleUse \/ Len(handles) <= 1,
                      NEW p \in Producers
               PROVE  delivered[p] <= retries[p] + 1
    BY DEF DeliveredOnce
  <2>0. Len(handles) <= 1
    BY DEF ManagerInductive, OneHandle
  <2>1. delivered[p] \in Nat /\ retries[p] \in Nat
    BY ManagerAssumption DEF ManagerInductive, ManagerTypeOK
  <2> QED BY <2>0, <2>1 DEF ManagerInductive, QueuedOnce
<1> QED BY <1>1, ManagerInductiveHolds, PTL
=============================================================================
