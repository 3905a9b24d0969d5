--------------------------- MODULE CuringFanProofs ---------------------------
(***************************************************************************)
(* Proofs about the fan-out and the fan-in behind it, for any events and   *)
(* legs, any size of a group, any number of attempts and any faults.  The  *)
(* first part is CuringCollect by itself: an output is in one place        *)
(* (OnePlace), and, when a group has the size of a fan-out, a decision is  *)
(* made from all the legs of its event (WholeDecisions).  The second part  *)
(* is CuringFan: the legs feed the collecting worker as CuringCollect      *)
(* supposes, and the shared hide is neither deleted early nor left behind. *)
(***************************************************************************)
EXTENDS CuringFan, SelectionProofs, FiniteSetTheorems, FunctionTheorems

Groups == [event : Events, items : Seq(Member), pc : {"run", "purge", "requeue", "park"}]

-----------------------------------------------------------------------------
(* Keys of sequences of items.                                              *)

\* An item has a key, and EXCEPT on its other fields leaves it alone.
LEMMA MemberKey ==
  ASSUME NEW m \in Member
  PROVE  /\ m.key \in Keys
         /\ \A b \in BOOLEAN : [m EXCEPT !.old = b] \in Member /\ [m EXCEPT !.old = b].key = m.key
         /\ [m EXCEPT !.tries = @ + 1] \in Member /\ [m EXCEPT !.tries = @ + 1].key = m.key
  BY DEF Member

\* The keys of a sequence are those of its indices.
LEMMA KeysByIndex ==
  ASSUME NEW s \in Seq(Member)
  PROVE  /\ KeysOf(s) \subseteq Keys
         /\ \A k : k \in KeysOf(s) <=> \E i \in 1..Len(s) : s[i].key = k
         /\ DOMAIN s = 1..Len(s) /\ Len(s) \in Nat
         /\ s = <<>> <=> KeysOf(s) = {}
<1>1. DOMAIN s = 1..Len(s) /\ Len(s) \in Nat /\ \A i \in 1..Len(s) : s[i] \in Member
  OBVIOUS
<1>2. \A k : k \in KeysOf(s) <=> \E i \in 1..Len(s) : s[i].key = k
  BY RangeSeq DEF KeysOf
<1>3. KeysOf(s) \subseteq Keys
  BY <1>1, <1>2, MemberKey
<1>4. s = <<>> <=> KeysOf(s) = {}
  <2>1. s = <<>> <=> Range(s) = {}
    BY RangeSeq
  <2>2. \A m \in Range(s) : m.key \in KeysOf(s)
    BY DEF KeysOf
  <2>3. Range(s) = {} => KeysOf(s) = {}
    BY DEF KeysOf
  <2> QED BY <2>1, <2>2, <2>3
<1> QED BY <1>1, <1>2, <1>3, <1>4

\* What the filters of the queue keep.
LEMMA SelectKeys ==
  ASSUME NEW s \in Seq(Member), NEW S
  PROVE  /\ Select(s, S) \in Seq(Member)
         /\ KeysOf(Select(s, S)) = {m.key : m \in Range(s) \cap S}
         /\ DistinctKeys(s) => DistinctKeys(Select(s, S))
<1> DEFINE t == Select(s, S)
<1>1. t \in Seq(Member) /\ Range(t) = Range(s) \cap S
  BY SelectPicks, SelectRange
<1>2. KeysOf(t) = {m.key : m \in Range(s) \cap S}
  BY <1>1 DEF KeysOf
<1>3. PICK h \in [1..Len(t) -> 1..Len(s)] :
        /\ \A i, j \in 1..Len(t) : h[i] = h[j] => i = j
        /\ \A i \in 1..Len(t) : t[i] = s[h[i]]
  BY SelectInjective
<1> HIDE DEF t
<1>4. ASSUME DistinctKeys(s) PROVE DistinctKeys(t)
  <2>1. DOMAIN s = 1..Len(s) /\ DOMAIN t = 1..Len(t)
    BY <1>1
  <2> SUFFICES ASSUME NEW i \in 1..Len(t), NEW j \in 1..Len(t), t[i].key = t[j].key
               PROVE  i = j
    BY <2>1 DEF DistinctKeys
  <2>2. h[i] \in 1..Len(s) /\ h[j] \in 1..Len(s) /\ s[h[i]].key = s[h[j]].key
    BY <1>3
  <2>3. h[i] = h[j]
    BY <1>4, <2>1, <2>2 DEF DistinctKeys
  <2> QED BY <1>3, <2>3
<1> QED BY <1>1, <1>2, <1>4 DEF t

\* The items of an event, and the items that do not have some keys.
OfEvent(s, e) == Select(s, {m \in Range(s) : m.key[1] = e})
Lacking(s, K) == Select(s, {m \in Range(s) : m.key \notin K})

\* The loops that group items split their keys.
LEMMA FilterKeys ==
  ASSUME NEW s \in Seq(Member), NEW e, NEW K
  PROVE  /\ OfEvent(s, e) \in Seq(Member)
         /\ KeysOf(OfEvent(s, e)) = {k \in KeysOf(s) : k[1] = e}
         /\ Lacking(s, K) \in Seq(Member)
         /\ KeysOf(Lacking(s, K)) = KeysOf(s) \ K
         /\ DistinctKeys(s) => /\ DistinctKeys(OfEvent(s, e))
                               /\ DistinctKeys(Lacking(s, K))
<1>1. KeysOf(OfEvent(s, e)) = {k \in KeysOf(s) : k[1] = e}
  <2> DEFINE S == {m \in Range(s) : m.key[1] = e}
  <2>1. KeysOf(Select(s, S)) = {m.key : m \in Range(s) \cap S}
    BY SelectKeys
  <2>2. Range(s) \cap S = S
    OBVIOUS
  <2>3. KeysOf(Select(s, S)) = {m.key : m \in S}
    BY <2>1, <2>2
  <2> QED BY <2>3 DEF KeysOf, OfEvent, Lacking
<1>2. KeysOf(Lacking(s, K)) = KeysOf(s) \ K
  <2> DEFINE S == {m \in Range(s) : m.key \notin K}
  <2>1. KeysOf(Select(s, S)) = {m.key : m \in Range(s) \cap S}
    BY SelectKeys
  <2>2. Range(s) \cap S = S
    OBVIOUS
  <2>3. KeysOf(Select(s, S)) = {m.key : m \in S}
    BY <2>1, <2>2
  <2> QED BY <2>3 DEF KeysOf, OfEvent, Lacking
<1> QED BY <1>1, <1>2, SelectKeys DEF OfEvent, Lacking

\* The same of the queue, before a step and after it.
LEMMA QueueKeys ==
  ASSUME CollectTypeOK, NEW e, NEW K
  PROVE  /\ In(e) \in Seq(Member) /\ Without(K) \in Seq(Member)
         /\ KeysOf(In(e)) = {k \in KeysOf(joined) : k[1] = e}
         /\ KeysOf(Without(K)) = KeysOf(joined) \ K
         /\ DistinctKeys(joined) => DistinctKeys(In(e)) /\ DistinctKeys(Without(K))
<1>1. joined \in Seq(Member)
  BY DEF CollectTypeOK
<1>2. In(e) = OfEvent(joined, e)
  BY DEF In, OfEvent
<1>3. Without(K) = Lacking(joined, K)
  BY DEF Without, Lacking
<1> QED BY <1>1, <1>2, <1>3, FilterKeys

\* The queue of one event has the keys of that event.
LEMMA NextQueueKeys ==
  ASSUME joined' \in Seq(Member), DistinctKeys(joined'), NEW e
  PROVE  /\ In(e)' \in Seq(Member) /\ DistinctKeys(In(e)')
         /\ KeysOf(In(e)') = {k \in KeysOf(joined') : k[1] = e}
<1>1. In(e)' = OfEvent(joined', e)
  BY DEF In, OfEvent
<1> QED BY <1>1, FilterKeys

\* There are as many keys as items.
LEMMA CountKeys ==
  ASSUME NEW s \in Seq(Member), DistinctKeys(s)
  PROVE  IsFiniteSet(KeysOf(s)) /\ Cardinality(KeysOf(s)) = Len(s)
<1> DEFINE f == [i \in 1..Len(s) |-> s[i].key]
<1>1. /\ Len(s) \in Nat /\ DOMAIN s = 1..Len(s)
      /\ \A k : k \in KeysOf(s) <=> \E i \in 1..Len(s) : s[i].key = k
  BY KeysByIndex
<1>2. IsFiniteSet(1..Len(s)) /\ Cardinality(1..Len(s)) = Len(s)
  <2>1. Len(s) \in Int /\ (IF 1 > Len(s) THEN 0 ELSE Len(s) - 1 + 1) = Len(s)
    BY <1>1
  <2> QED BY <2>1, FS_Interval
<1>3. \A i, j \in 1..Len(s) : f[i] = f[j] => i = j
  BY <1>1 DEF DistinctKeys
<1>4. f \in Bijection(1..Len(s), KeysOf(s))
  BY <1>1, <1>3, Fun_IsBij
<1>5. ExistsBijection(1..Len(s), KeysOf(s))
  BY <1>4 DEF ExistsBijection
<1> QED BY <1>2, <1>5, <1>1, FS_Bijection

\* A complete event stays complete while none of its items leaves.
LEMMA ReadyStays ==
  ASSUME CollectTypeOK, DistinctKeys(joined), joined' \in Seq(Member), DistinctKeys(joined'),
         NEW e, Ready(e), {k \in KeysOf(joined) : k[1] = e} \subseteq KeysOf(joined')
  PROVE  Ready(e)'
<1>1. /\ In(e) \in Seq(Member) /\ DistinctKeys(In(e))
      /\ KeysOf(In(e)) = {k \in KeysOf(joined) : k[1] = e}
  BY QueueKeys
<1>2. /\ In(e)' \in Seq(Member) /\ DistinctKeys(In(e)')
      /\ KeysOf(In(e)') = {k \in KeysOf(joined') : k[1] = e}
  BY NextQueueKeys
<1>3. PICK t : t = In(e)'
  OBVIOUS
<1>4. IsFiniteSet(KeysOf(t)) /\ Cardinality(KeysOf(t)) = Len(t)
  BY <1>2, <1>3, CountKeys
<1>5. Cardinality(KeysOf(In(e))) = Len(In(e))
  BY <1>1, CountKeys
<1>6. KeysOf(In(e)) \subseteq KeysOf(t)
  BY <1>1, <1>2, <1>3
<1>7. Len(In(e)) <= Len(t)
  BY <1>4, <1>5, <1>6, FS_Subset
<1>8. Len(In(e)) \in Nat /\ Len(t) \in Nat /\ Size \in Nat /\ Len(In(e)) >= Size
  BY <1>1, <1>2, <1>3, CollectAssumption DEF Ready
<1> QED BY <1>3, <1>7, <1>8 DEF Ready

\* An item that comes adds its key, ...
LEMMA AppendKeys ==
  ASSUME NEW s \in Seq(Member), NEW m \in Member
  PROVE  /\ Append(s, m) \in Seq(Member)
         /\ KeysOf(Append(s, m)) = KeysOf(s) \cup {m.key}
         /\ DistinctKeys(s) /\ m.key \notin KeysOf(s) => DistinctKeys(Append(s, m))
<1> DEFINE a == Append(s, m)
<1>1. a \in Seq(Member) /\ Range(a) = Range(s) \cup {m}
  BY RangeAppend
<1>2. KeysOf(a) = KeysOf(s) \cup {m.key}
  BY <1>1 DEF KeysOf
<1>3. ASSUME DistinctKeys(s), m.key \notin KeysOf(s) PROVE DistinctKeys(a)
  <2>1. /\ DOMAIN s = 1..Len(s) /\ DOMAIN a = 1..Len(s) + 1 /\ Len(s) \in Nat
        /\ \A i \in 1..Len(s) : a[i] = s[i]
        /\ a[Len(s) + 1] = m
    OBVIOUS
  <2> HIDE DEF a
  <2>2. \A i \in 1..Len(s) : a[i].key # m.key
    BY <1>3, <2>1, KeysByIndex
  <2> QED BY <1>3, <2>1, <2>2 DEF DistinctKeys
<1> QED BY <1>1, <1>2, <1>3

\* ... and the head that leaves takes its key away.
LEMMA TailKeys ==
  ASSUME NEW s \in Seq(Member), s # <<>>, DistinctKeys(s)
  PROVE  /\ Head(s) \in Member /\ Head(s).key \in KeysOf(s)
         /\ Tail(s) \in Seq(Member) /\ DistinctKeys(Tail(s))
         /\ KeysOf(Tail(s)) = KeysOf(s) \ {Head(s).key}
         /\ Len(s) = 1 <=> Tail(s) = <<>>
<1> DEFINE t == Tail(s)
<1>1. /\ DOMAIN s = 1..Len(s) /\ DOMAIN t = 1..Len(s) - 1 /\ Len(s) \in Nat \ {0}
      /\ t \in Seq(Member) /\ Len(t) = Len(s) - 1 /\ Head(s) \in Member /\ Head(s) = s[1]
      /\ \A i \in 1..Len(s) - 1 : t[i] = s[i + 1]
  OBVIOUS
<1>6. Len(s) = 1 <=> t = <<>>
  <2>1. t = <<>> <=> Len(t) = 0
    BY <1>1
  <2> QED BY <1>1, <2>1
<1>2. Range(s) = {Head(s)} \cup Range(t)
  BY RangeTail
<1>3. KeysOf(s) = {Head(s).key} \cup KeysOf(t)
  BY <1>2 DEF KeysOf
<1> HIDE DEF t
<1>4. DistinctKeys(t)
  <2> SUFFICES ASSUME NEW i \in 1..Len(s) - 1, NEW j \in 1..Len(s) - 1, t[i].key = t[j].key
               PROVE  i = j
    BY <1>1 DEF DistinctKeys
  <2>1. /\ i + 1 \in 1..Len(s) /\ j + 1 \in 1..Len(s)
        /\ s[i + 1].key = s[j + 1].key
    BY <1>1
  <2>2. i + 1 = j + 1
    BY <1>1, <2>1 DEF DistinctKeys
  <2> QED BY <1>1, <2>2
<1>5. Head(s).key \notin KeysOf(t)
  <2> SUFFICES ASSUME NEW i \in 1..Len(t), t[i].key = s[1].key PROVE FALSE
    BY <1>1, KeysByIndex
  <2>2. i + 1 \in 1..Len(s) /\ 1 \in 1..Len(s) /\ i + 1 # 1 /\ t[i] = s[i + 1]
    BY <1>1
  <2> QED BY <1>1, <2>2 DEF DistinctKeys
<1> QED BY <1>1, <1>3, <1>4, <1>5, <1>6 DEF t

\* The group of a complete event.
LEMMA GroupKeys ==
  ASSUME CollectTypeOK, DistinctKeys(joined), NEW e, Ready(e)
  PROVE  /\ GroupOf(e) \in Seq(Member) /\ GroupOf(e) # <<>> /\ Len(GroupOf(e)) = Size
         /\ DistinctKeys(GroupOf(e))
         /\ KeysOf(GroupOf(e)) \subseteq KeysOf(In(e))
<1> DEFINE s == In(e)
           t == SubSeq(s, 1, Size)
<1>1. s \in Seq(Member) /\ DistinctKeys(s) /\ Size \in Nat \ {0} /\ Size <= Len(s)
  BY QueueKeys, CollectAssumption DEF Ready
<1> HIDE DEF s
<1>2. /\ t \in Seq(Member) /\ Len(t) = Size /\ t # <<>>
      /\ \A i \in 1..Size : t[i] = s[i] /\ i \in 1..Len(s)
      /\ DOMAIN s = 1..Len(s) /\ DOMAIN t = 1..Size
  BY <1>1
<1> HIDE DEF t
<1>3. DistinctKeys(t)
  BY <1>1, <1>2 DEF DistinctKeys
<1>4. KeysOf(t) \subseteq KeysOf(s)
  BY <1>1, <1>2, KeysByIndex
<1> QED BY <1>2, <1>3, <1>4 DEF t, s, GroupOf

-----------------------------------------------------------------------------
(* The inductive invariant of OnePlace: its conjuncts one by one, and what  *)
(* keeps the groups apart.                                                  *)

Apart(W, H, P, D, X) ==
  /\ W \cap H = {} /\ W \cap P = {} /\ W \cap D = {} /\ W \cap X = {}
  /\ H \cap P = {} /\ H \cap D = {} /\ H \cap X = {}
  /\ P \cap D = {} /\ P \cap X = {} /\ D \cap X = {}

Partition ==
  /\ arrived = KeysOf(joined) \cup Held \cup parked \cup decided \cup dropped
  /\ Apart(KeysOf(joined), Held, parked, decided, dropped)

GroupsDisjoint == \A g, h \in groups : g # h => KeysOf(g.items) \cap KeysOf(h.items) = {}

Inv ==
  /\ CollectTypeOK /\ Partition /\ DistinctKeys(joined)
  /\ GroupsDisjoint /\ GroupsApart /\ StillReady

\* The conjuncts say what OnePlace says with a record of places.
LEMMA PartsOfOnePlace ==
  Partition /\ DistinctKeys(joined) /\ GroupsDisjoint => OnePlace
<1> SUFFICES ASSUME Partition, DistinctKeys(joined), GroupsDisjoint PROVE OnePlace
  OBVIOUS
<1> DEFINE W == KeysOf(joined)
<1>1. /\ DOMAIN Where = {"waits", "held", "parked", "decided", "dropped"}
      /\ Where["waits"] = W /\ Where["held"] = Held /\ Where["parked"] = parked
      /\ Where["decided"] = decided /\ Where["dropped"] = dropped
  BY DEF Where
<1>2. arrived = W \cup Held \cup parked \cup decided \cup dropped
  BY DEF Partition
<1>3. Apart(W, Held, parked, decided, dropped)
  BY DEF Partition
<1> HIDE DEF W
<1>4. arrived = UNION {Where[p] : p \in DOMAIN Where}
  BY <1>1, <1>2
<1>5. \A p, q \in DOMAIN Where : p # q => Where[p] \cap Where[q] = {}
  BY <1>1, <1>3 DEF Apart
<1> QED BY <1>4, <1>5 DEF OnePlace, GroupsDisjoint

\* What is held is in the scan's hands or in a group that is not done with.
LEMMA HeldMeans ==
  /\ \A k : k \in Held <=> \/ k \in KeysOf(tick.items)
                           \/ \E g \in groups : g.pc # "purge" /\ k \in KeysOf(g.items)
  /\ \A k : k \in Held' <=> \/ k \in KeysOf(tick'.items)
                            \/ \E g \in groups' : g.pc # "purge" /\ k \in KeysOf(g.items)
<1>1. \A k : k \in Held <=> \/ k \in KeysOf(tick.items)
                            \/ \E g \in groups : g.pc # "purge" /\ k \in KeysOf(g.items)
  BY DEF Held
<1>2. Held' = KeysOf(tick'.items) \cup UNION {KeysOf(g.items) : g \in {h \in groups' : h.pc # "purge"}}
  BY DEF Held, KeysOf
<1> QED BY <1>1, <1>2

\* The keys of a group are not in the queue.
LEMMA GroupKeysElsewhere ==
  ASSUME Inv, NEW g \in groups
  PROVE  /\ g \in Groups /\ KeysOf(g.items) \cap KeysOf(joined) = {}
         /\ g.pc # "purge" => KeysOf(g.items) \subseteq Held
         /\ KeysOf(tick.items) \subseteq Held
<1>1. g \in Groups
  BY DEF Inv, CollectTypeOK, Groups
<1>2. g.pc # "purge" => KeysOf(g.items) \subseteq Held
  BY HeldMeans
<1>3. g.pc = "purge" => KeysOf(g.items) \subseteq decided
  BY DEF Inv, GroupsApart
<1>4. KeysOf(tick.items) \subseteq Held
  BY HeldMeans
<1> QED BY <1>1, <1>2, <1>3, <1>4 DEF Inv, Partition, Apart

\* A group that is formed from queued items shares none with another group; ...
LEMMA GroupJoins ==
  ASSUME Inv, NEW h, h.pc = "run", h.items # <<>>, DistinctKeys(h.items),
         KeysOf(h.items) \subseteq KeysOf(joined), groups' = groups \cup {h},
         decided' = decided, tick'.items = tick.items, tick'.pc # "evict" => tick'.items = <<>>
  PROVE  GroupsDisjoint' /\ GroupsApart' /\ Held' = Held \cup KeysOf(h.items)
<1>1. \A g \in groups : KeysOf(g.items) \cap KeysOf(h.items) = {}
  BY GroupKeysElsewhere
<1>2. GroupsDisjoint'
  BY <1>1 DEF GroupsDisjoint, Inv
<1>3. KeysOf(h.items) \cap KeysOf(tick.items) = {}
  BY HeldMeans DEF Inv, Partition, Apart
<1>4. GroupsApart'
  BY <1>3 DEF GroupsApart, Inv
<1>5. \A k : k \in Held' <=> k \in Held \/ k \in KeysOf(h.items)
  BY HeldMeans
<1> QED BY <1>2, <1>4, <1>5

\* ... one that ends leaves the others alone; ...
LEMMA GroupLeaves ==
  ASSUME Inv, NEW g \in groups, groups' = groups \ {g}, decided \subseteq decided', tick' = tick
  PROVE  /\ GroupsDisjoint' /\ GroupsApart'
         /\ Held' = IF g.pc = "purge" THEN Held ELSE Held \ KeysOf(g.items)
<1>1. GroupsDisjoint' /\ GroupsApart'
  BY DEF GroupsDisjoint, GroupsApart, Inv
<1>2. /\ \A h \in groups : h # g => KeysOf(g.items) \cap KeysOf(h.items) = {}
      /\ KeysOf(g.items) \cap KeysOf(tick.items) = {}
  BY DEF GroupsDisjoint, GroupsApart, Inv
<1>3. \A k : k \in Held' <=> k \in Held /\ (g.pc = "purge" \/ k \notin KeysOf(g.items))
  BY <1>2, HeldMeans
<1> QED BY <1>1, <1>3

\* ... and so does one that puts an item away.
LEMMA GroupChanges ==
  ASSUME Inv, NEW g \in groups, g.pc # "purge", NEW h, KeysOf(h.items) \subseteq KeysOf(g.items),
         DistinctKeys(h.items), groups' = (groups \ {g}) \cup {h}, tick' = tick,
         decided \subseteq decided',
         IF h.pc = "purge" THEN KeysOf(h.items) \subseteq decided' ELSE h.items # <<>>
  PROVE  /\ GroupsDisjoint' /\ GroupsApart'
         /\ Held' = (Held \ KeysOf(g.items))
                      \cup (IF h.pc = "purge" THEN {} ELSE KeysOf(h.items))
<1>1. /\ \A f \in groups : f # g => KeysOf(g.items) \cap KeysOf(f.items) = {}
      /\ KeysOf(g.items) \cap KeysOf(tick.items) = {}
      /\ \A f, e \in groups : f # e => KeysOf(f.items) \cap KeysOf(e.items) = {}
  BY DEF GroupsDisjoint, GroupsApart, Inv
<1>2. \A f \in groups \ {g} : KeysOf(f.items) \cap KeysOf(h.items) = {}
  BY <1>1
<1>3. GroupsDisjoint'
  BY <1>1, <1>2 DEF GroupsDisjoint
<1>4. GroupsApart'
  <2>1. \A f \in groups' \ {h} : f \in groups
    OBVIOUS
  <2>2. KeysOf(h.items) \cap KeysOf(tick'.items) = {}
    BY <1>1
  <2> QED BY <2>1, <2>2 DEF GroupsApart, Inv
<1>5. \A k : k \in Held' <=> \/ k \in Held /\ k \notin KeysOf(g.items)
                             \/ h.pc # "purge" /\ k \in KeysOf(h.items)
  BY <1>1, <1>2, HeldMeans
<1> QED BY <1>3, <1>4, <1>5

\* The eviction takes items of the queue, or is through with its own.
LEMMA EvictionChanges ==
  ASSUME Inv, groups' = groups, decided' = decided,
         KeysOf(tick'.items) \subseteq KeysOf(joined) \/ tick'.items = tick.items,
         tick'.pc # "evict" => tick'.items = <<>>
  PROVE  /\ GroupsDisjoint' /\ GroupsApart'
         /\ Held' = (Held \ KeysOf(tick.items)) \cup KeysOf(tick'.items)
<1>1. GroupsDisjoint'
  BY DEF GroupsDisjoint, Inv
<1>2. \A g \in groups : /\ KeysOf(g.items) \cap KeysOf(tick'.items) = {}
                         /\ KeysOf(g.items) \cap KeysOf(tick.items) = {}
  BY GroupKeysElsewhere DEF Inv, GroupsApart
<1>3. GroupsApart'
  BY <1>2 DEF GroupsApart, Inv
<1>4. \A k : k \in Held' <=> \/ k \in Held /\ k \notin KeysOf(tick.items)
                             \/ k \in KeysOf(tick'.items)
  BY <1>2, HeldMeans
<1> QED BY <1>1, <1>3, <1>4

\* A group that was found complete in a queue stays so while items only come.
LEMMA StillReadyRests ==
  ASSUME Inv, UNCHANGED <<setup, tick>>, joined' \in Seq(Member), DistinctKeys(joined'),
         KeysOf(joined) \subseteq KeysOf(joined'), SingleUse \/ \A g \in groups' : g.pc = "run"
  PROVE  StillReady'
<1>1. SingleUse' = SingleUse /\ tick' = tick
  BY DEF SingleUse
<1>2. Ready(tick.event) => Ready(tick.event)'
  <2>1. PICK e : e = tick.event
    OBVIOUS
  <2>2. Ready(e) => Ready(e)'
    BY ReadyStays DEF Inv
  <2> QED BY <1>1, <2>1, <2>2 DEF Ready, In
<1> QED BY <1>1, <1>2 DEF Inv, StillReady

\* Enqueue of an item whose key is nowhere else in the queue.
LEMMA PutKeys ==
  ASSUME CollectTypeOK, DistinctKeys(joined), NEW m \in Member, m.key \notin KeysOf(joined), Put(m)
  PROVE  /\ joined' \in Seq(Member) /\ DistinctKeys(joined') /\ files' \subseteq Events
         /\ KeysOf(joined') = KeysOf(joined) \cup {m.key}
<1>1. joined' \in Seq(Member) /\ DistinctKeys(joined') /\ KeysOf(joined') = KeysOf(joined) \cup {m.key}
  BY AppendKeys DEF Put, CollectTypeOK
<1>2. m.key[1] \in Events
  BY MemberKey DEF Keys
<1> QED BY <1>1, <1>2 DEF Put, CollectTypeOK

\* An output that arrives is new.
LEMMA ArriveKeeps ==
  ASSUME Inv, UNCHANGED setup, NEW k \in Keys, k \notin arrived, Arrive(k)
  PROVE  Inv'
<1> DEFINE m == [key |-> k, tries |-> 0, old |-> FALSE]
<1>1. m \in Member /\ m.key = k
  BY DEF Member
<1>2. k \notin KeysOf(joined) /\ k \notin Held /\ k \notin parked \cup decided \cup dropped
  BY DEF Inv, Partition
<1>3. Put(m)
  BY DEF Arrive
<1> HIDE DEF m
<1>4. /\ joined' \in Seq(Member) /\ DistinctKeys(joined') /\ files' \subseteq Events
      /\ KeysOf(joined') = KeysOf(joined) \cup {k}
  BY <1>1, <1>2, <1>3, PutKeys DEF Inv
<1>5. CollectTypeOK'
  BY <1>4 DEF Inv, CollectTypeOK, Arrive
<1>6. Held' = Held
  BY DEF Held, KeysOf, Arrive
<1>7. Partition'
  BY <1>2, <1>4, <1>6 DEF Inv, Partition, Apart, Arrive
<1>8. GroupsDisjoint' /\ GroupsApart'
  BY DEF Inv, GroupsDisjoint, GroupsApart, Arrive
<1>9. StillReady'
  <2>1. SingleUse \/ \A g \in groups' : g.pc = "run"
    BY DEF Inv, StillReady, Arrive
  <2> QED BY <1>4, <2>1, StillReadyRests DEF Arrive
<1> QED BY <1>4, <1>5, <1>7, <1>8, <1>9 DEF Inv

\* Time moves no item.
LEMMA AgeKeys ==
  ASSUME Inv, NEW i \in DOMAIN joined, Age(i)
  PROVE  /\ joined' \in Seq(Member) /\ DOMAIN joined' = DOMAIN joined /\ Len(joined') = Len(joined)
         /\ \A j \in DOMAIN joined : joined'[j].key = joined[j].key
         /\ KeysOf(joined') = KeysOf(joined)
<1>1. joined \in Seq(Member) /\ DOMAIN joined = 1..Len(joined)
  BY DEF Inv, CollectTypeOK
<1> DEFINE m == [joined[i] EXCEPT !.old = TRUE]
<1>2. joined[i] \in Member /\ m \in Member /\ m.key = joined[i].key
  <2>1. joined[i] \in Member
    BY <1>1
  <2> QED BY <2>1 DEF Member
<1>3. joined' = [joined EXCEPT ![i] = m]
  BY DEF Age
<1> HIDE DEF m
<1>4. /\ joined' \in Seq(Member) /\ DOMAIN joined' = DOMAIN joined /\ Len(joined') = Len(joined)
      /\ \A j \in DOMAIN joined : joined'[j].key = joined[j].key
  BY <1>1, <1>2, <1>3
<1>5. KeysOf(joined') = KeysOf(joined)
  <2>1. \A k : k \in KeysOf(joined) <=> \E j \in DOMAIN joined : joined[j].key = k
    BY <1>1, KeysByIndex
  <2>2. \A k : k \in KeysOf(joined') <=> \E j \in DOMAIN joined' : joined'[j].key = k
    BY <1>4, KeysByIndex
  <2> QED BY <1>4, <2>1, <2>2
<1> QED BY <1>4, <1>5

LEMMA AgeKeeps ==
  ASSUME Inv, UNCHANGED setup, NEW i \in DOMAIN joined, Age(i)
  PROVE  Inv'
<1>4. /\ joined' \in Seq(Member) /\ DOMAIN joined' = DOMAIN joined /\ Len(joined') = Len(joined)
      /\ \A j \in DOMAIN joined : joined'[j].key = joined[j].key
  BY AgeKeys
<1>5. DistinctKeys(joined')
  BY <1>4 DEF Inv, DistinctKeys
<1>6. KeysOf(joined') = KeysOf(joined)
  BY AgeKeys
<1>7. CollectTypeOK'
  BY <1>4 DEF Inv, CollectTypeOK, Age
<1>8. Held' = Held
  BY DEF Held, KeysOf, Age
<1>9. Partition'
  BY <1>6, <1>8 DEF Inv, Partition, Age
<1>10. GroupsDisjoint' /\ GroupsApart'
  BY DEF Inv, GroupsDisjoint, GroupsApart, Age
<1>11. StillReady'
  <2>1. SingleUse \/ \A g \in groups' : g.pc = "run"
    BY DEF Inv, StillReady, Age
  <2> QED BY <1>4, <1>5, <1>6, <2>1, StillReadyRests DEF Age
<1> QED BY <1>5, <1>7, <1>9, <1>10, <1>11 DEF Inv

-----------------------------------------------------------------------------
(* The scan.                                                                *)

\* A complete event is taken.
LEMMA TakesKeeps ==
  ASSUME Inv, UNCHANGED <<setup, files, parked, decided, dropped, arrived>>,
         NEW e \in Events, Ready(e), Takes(e),
         \/ tick' = tick /\ tick.pc = "idle"
         \/ tick' = Idle /\ tick.pc = "take"
  PROVE  Inv'
<1> DEFINE K == KeysOf(GroupOf(e))
           h == [event |-> e, items |-> GroupOf(e), pc |-> "run"]
<1>1. /\ GroupOf(e) \in Seq(Member) /\ GroupOf(e) # <<>> /\ DistinctKeys(GroupOf(e))
      /\ K \subseteq KeysOf(joined)
  BY GroupKeys, QueueKeys DEF Inv
<1>2. /\ joined' \in Seq(Member) /\ DistinctKeys(joined')
      /\ KeysOf(joined') = KeysOf(joined) \ K
  BY QueueKeys DEF Inv, Takes
<1>3. h.pc = "run" /\ h.items = GroupOf(e) /\ groups' = groups \cup {h} /\ h \in Groups
  BY <1>1 DEF Takes, Groups
<1>4. tick'.items = tick.items /\ tick'.pc = "idle" /\ tick.items = <<>>
  BY DEF Idle, Inv, GroupsApart
<1> HIDE DEF h, K
<1>5. GroupsDisjoint' /\ GroupsApart' /\ Held' = Held \cup K
  BY <1>1, <1>3, <1>4, GroupJoins DEF K
<1>6. CollectTypeOK'
  <2>1. <<>> \in Seq(Member)
    OBVIOUS
  <2>2. tick' \in [pc : {"idle", "take", "evict", "purge"}, event : Events \cup {NoEvent},
                   items : Seq(Member)]
    <3>1. CASE tick' = tick
      BY <3>1 DEF Inv, CollectTypeOK
    <3>2. CASE tick' = Idle
      BY <2>1, <3>2 DEF Idle
    <3> QED BY <3>1, <3>2
  <2> QED BY <1>2, <1>3, <2>2 DEF Inv, CollectTypeOK, Groups
<1>7. Partition'
  BY <1>1, <1>2, <1>5 DEF Inv, Partition, Apart
<1>8. StillReady'
  BY <1>3, <1>4 DEF Inv, StillReady, SingleUse
<1> QED BY <1>2, <1>5, <1>6, <1>7, <1>8 DEF Inv

\* The stale items of an event are taken out of the queue; the event that is
\* complete is another one.
LEMMA EvictKeeps ==
  ASSUME Inv, UNCHANGED <<setup, files, groups, parked, decided, dropped, arrived>>,
         tick.pc = "idle", NEW e \in Events, NEW then \in Events \cup {NoEvent},
         Evicting(e, then), joined' = Without(KeysOf(In(e))),
         SingleUse \/ then = NoEvent \/ (Ready(then) /\ then # e)
  PROVE  Inv'
<1> DEFINE K == KeysOf(In(e))
<1>1. In(e) \in Seq(Member) /\ K \subseteq KeysOf(joined) /\ K = {k \in KeysOf(joined) : k[1] = e}
  BY QueueKeys DEF Inv
<1>2. joined' \in Seq(Member) /\ DistinctKeys(joined') /\ KeysOf(joined') = KeysOf(joined) \ K
  BY QueueKeys DEF Inv
<1>3. /\ tick' = [pc |-> "evict", event |-> then, items |-> In(e)]
      /\ tick'.items = In(e) /\ tick'.pc = "evict" /\ tick'.event = then
  BY DEF Evicting
<1>4. KeysOf(tick.items) = {}
  <2>1. tick.items = <<>> /\ <<>> \in Seq(Member)
    BY DEF Inv, GroupsApart
  <2> QED BY <2>1, KeysByIndex
<1> HIDE DEF K
<1>5. GroupsDisjoint' /\ GroupsApart' /\ Held' = Held \cup K
  BY <1>1, <1>3, <1>4, EvictionChanges DEF K
<1>6. CollectTypeOK'
  <2>1. tick' \in [pc : {"idle", "take", "evict", "purge"}, event : Events \cup {NoEvent},
                   items : Seq(Member)]
    BY <1>1, <1>3
  <2> QED BY <1>2, <2>1 DEF Inv, CollectTypeOK
<1>7. Partition'
  BY <1>1, <1>2, <1>5 DEF Inv, Partition, Apart
<1>8. StillReady'
  <2>1. Ready(then) /\ then # e => Ready(then)'
    BY <1>1, <1>2, ReadyStays DEF Inv
  <2>2. then = NoEvent \/ SingleUse \/ Ready(then)'
    BY <2>1
  <2>3. Ready(then)' => Ready(tick.event)'
    BY <1>3 DEF Ready, In
  <2>4. SingleUse' = SingleUse /\ groups' = groups
    BY DEF SingleUse
  <2> QED BY <1>3, <2>2, <2>3, <2>4 DEF Inv, StillReady
<1> QED BY <1>2, <1>5, <1>6, <1>7, <1>8 DEF Inv

\* A stale item goes to the dead-letter queue, ...
LEMMA ParksKeeps ==
  ASSUME Inv, UNCHANGED setup, Parks
  PROVE  Inv'
<1> DEFINE K == KeysOf(tick.items)
<1>1. /\ tick.items \in Seq(Member) /\ K \subseteq Keys /\ K \subseteq Held
      /\ <<>> \in Seq(Member) /\ KeysOf(<<>>) = {}
  <2>1. tick.items \in Seq(Member) /\ <<>> \in Seq(Member)
    BY DEF Inv, CollectTypeOK
  <2>2. K \subseteq Keys /\ KeysOf(<<>>) = {}
    BY <2>1, KeysByIndex
  <2> QED BY <2>1, <2>2, HeldMeans
<1>2. /\ tick' \in [pc : {"idle", "take", "evict", "purge"}, event : Events \cup {NoEvent},
                     items : Seq(Member)]
      /\ tick'.items = <<>>
      /\ \/ tick' = Idle
         \/ tick'.pc = "take" /\ ~SingleUse /\ tick'.event = tick.event /\ tick.event # NoEvent
         \/ tick'.pc = "purge" /\ SingleUse
  BY <1>1 DEF Parks, Idle, Inv, CollectTypeOK
<1> HIDE DEF K
<1>3. GroupsDisjoint' /\ GroupsApart' /\ Held' = Held \ K
  BY <1>1, <1>2, EvictionChanges DEF K, Parks
<1>4. CollectTypeOK'
  BY <1>1, <1>2 DEF Inv, CollectTypeOK, Parks, K
<1>5. parked' = parked \cup K
  BY DEF Parks, K
<1>6. KeysOf(joined') = KeysOf(joined)
  BY DEF Parks
<1>7. Partition'
  BY <1>1, <1>3, <1>5, <1>6 DEF Inv, Partition, Apart, Parks
<1>8. StillReady'
  <2>1. SingleUse' = SingleUse /\ groups' = groups /\ joined' = joined /\ tick.pc = "evict"
    BY DEF SingleUse, Parks
  <2>2. tick'.event = tick.event /\ Ready(tick.event) => Ready(tick.event)'
    BY <2>1 DEF Ready, In
  <2> QED BY <1>2, <2>1, <2>2 DEF Inv, StillReady, Idle
<1> QED BY <1>3, <1>4, <1>7, <1>8 DEF Inv, Parks

-----------------------------------------------------------------------------
(* Deleting a queue, and the handlers.                                      *)

\* Manager.Delete drops what the queue still has.
LEMMA DeleteKeys ==
  ASSUME Inv, NEW e, DeleteQueueOf(e)
  PROVE  /\ joined' \in Seq(Member) /\ DistinctKeys(joined') /\ files' \subseteq Events
         /\ KeysOf(In(e)) \subseteq KeysOf(joined)
         /\ KeysOf(joined') = KeysOf(joined) \ KeysOf(In(e))
         /\ dropped' = dropped \cup KeysOf(In(e))
         /\ dropped' \subseteq Keys
<1>1. /\ KeysOf(In(e)) \subseteq KeysOf(joined)
      /\ joined' \in Seq(Member) /\ DistinctKeys(joined')
      /\ KeysOf(joined') = KeysOf(joined) \ KeysOf(In(e))
  BY QueueKeys DEF Inv, DeleteQueueOf
<1>2. KeysOf(joined) \subseteq Keys
  BY KeysByIndex DEF Inv, CollectTypeOK
<1> QED BY <1>1, <1>2 DEF DeleteQueueOf, Inv, CollectTypeOK

\* ... and a queue that was collected is deleted, by the scan ...
LEMMA PurgesKeeps ==
  ASSUME Inv, UNCHANGED setup, Purges
  PROVE  Inv'
<1>1. PICK e : e = tick.event
  OBVIOUS
<1> DEFINE K == KeysOf(In(e))
<1>2. /\ joined' \in Seq(Member) /\ DistinctKeys(joined') /\ files' \subseteq Events
      /\ K \subseteq KeysOf(joined) /\ KeysOf(joined') = KeysOf(joined) \ K
      /\ dropped' = dropped \cup K /\ dropped' \subseteq Keys
  BY <1>1, DeleteKeys DEF Purges
<1> HIDE DEF K
<1>3. /\ tick.items = <<>> /\ tick'.items = <<>> /\ tick' = Idle /\ tick'.pc = "idle"
      /\ SingleUse /\ <<>> \in Seq(Member)
  BY DEF Purges, Idle, Inv, GroupsApart, StillReady
<1>4. GroupsDisjoint' /\ GroupsApart' /\ Held' = Held
  <2>1. KeysOf(<<>>) = {}
    BY <1>3, KeysByIndex
  <2> QED BY <1>3, <2>1, EvictionChanges DEF Purges
<1>5. CollectTypeOK'
  <2>1. tick' \in [pc : {"idle", "take", "evict", "purge"}, event : Events \cup {NoEvent},
                   items : Seq(Member)]
    BY <1>3 DEF Idle
  <2> QED BY <1>2, <2>1 DEF Inv, CollectTypeOK, Purges
<1>6. Partition'
  BY <1>2, <1>4 DEF Inv, Partition, Apart, Purges
<1>7. StillReady'
  BY <1>3 DEF StillReady, SingleUse
<1> QED BY <1>2, <1>4, <1>5, <1>6, <1>7 DEF Inv

\* What a handler knows of its group.
LEMMA GroupTypes ==
  ASSUME Inv, NEW g \in groups
  PROVE  /\ g \in Groups /\ g.items \in Seq(Member) /\ g.event \in Events
         /\ DistinctKeys(g.items) /\ KeysOf(g.items) \subseteq Keys
         /\ g.pc # "purge" => g.items # <<>> /\ KeysOf(g.items) \subseteq Held
         /\ g.pc \in {"purge", "requeue", "park"} => SingleUse
<1>1. g \in Groups /\ g.items \in Seq(Member) /\ g.event \in Events
  BY DEF Inv, CollectTypeOK, Groups
<1>2. KeysOf(g.items) \subseteq Keys
  BY <1>1, KeysByIndex
<1>3. g.pc # "purge" => g.items # <<>> /\ KeysOf(g.items) \subseteq Held
  BY GroupKeysElsewhere DEF Inv, GroupsApart
<1>4. DistinctKeys(g.items) /\ (g.pc \in {"purge", "requeue", "park"} => SingleUse)
  BY DEF Inv, GroupsApart, StillReady
<1> QED BY <1>1, <1>2, <1>3, <1>4

\* ... or by the handler of its group.
LEMMA PurgesOwnKeeps ==
  ASSUME Inv, UNCHANGED setup, NEW g \in groups, PurgesOwn(g)
  PROVE  Inv'
<1>1. PICK e : e = g.event
  OBVIOUS
<1> DEFINE K == KeysOf(In(e))
<1>2. /\ joined' \in Seq(Member) /\ DistinctKeys(joined') /\ files' \subseteq Events
      /\ K \subseteq KeysOf(joined) /\ KeysOf(joined') = KeysOf(joined) \ K
      /\ dropped' = dropped \cup K /\ dropped' \subseteq Keys
  BY <1>1, DeleteKeys DEF PurgesOwn
<1> HIDE DEF K
<1>3. g.pc = "purge" /\ groups' = groups \ {g} /\ tick' = tick /\ SingleUse
  BY GroupTypes DEF PurgesOwn, Finishes
<1>4. GroupsDisjoint' /\ GroupsApart' /\ Held' = Held
  BY <1>3, GroupLeaves DEF PurgesOwn
<1>5. CollectTypeOK'
  BY <1>2, <1>3 DEF Inv, CollectTypeOK, PurgesOwn
<1>6. Partition'
  BY <1>2, <1>4 DEF Inv, Partition, Apart, PurgesOwn
<1>7. StillReady'
  BY <1>3 DEF StillReady, SingleUse
<1> QED BY <1>2, <1>4, <1>5, <1>6, <1>7 DEF Inv

\* A group runs, ...
LEMMA RunGroupKeeps ==
  ASSUME Inv, UNCHANGED setup, NEW g \in groups, RunGroup(g)
  PROVE  Inv'
<1> DEFINE K == KeysOf(g.items)
           h == [g EXCEPT !.pc = "purge"]
<1>1. g.pc = "run" /\ decided' = decided \cup K /\ tick' = tick
  BY DEF RunGroup
<1>2. g \in Groups /\ K \subseteq Keys /\ K \subseteq Held /\ DistinctKeys(g.items)
  BY <1>1, GroupTypes
<1>3. h \in Groups /\ h.items = g.items /\ h.pc = "purge"
  BY <1>2 DEF Groups
<1>4. (groups' = (groups \ {g}) \cup {h} /\ SingleUse) \/ groups' = groups \ {g}
  BY DEF RunGroup, Continues, Finishes
<1> HIDE DEF h
<1>5. GroupsDisjoint' /\ GroupsApart' /\ Held' = Held \ K
  <2>1. CASE groups' = groups \ {g}
    BY <1>1, <2>1, GroupLeaves
  <2>2. CASE groups' = (groups \ {g}) \cup {h}
    BY <1>1, <1>2, <1>3, <2>2, GroupChanges
  <2> QED BY <1>4, <2>1, <2>2
<1> HIDE DEF K
<1>6. joined' = joined /\ KeysOf(joined') = KeysOf(joined)
  BY DEF RunGroup
<1>7. CollectTypeOK'
  BY <1>1, <1>2, <1>3, <1>4 DEF Inv, CollectTypeOK, RunGroup, Groups
<1>8. Partition'
  BY <1>1, <1>2, <1>5, <1>6 DEF Inv, Partition, Apart, RunGroup
<1>9. StillReady'
  BY <1>1, <1>4, <1>6 DEF Inv, StillReady, SingleUse, Ready, In
<1> QED BY <1>5, <1>6, <1>7, <1>8, <1>9 DEF Inv

\* A decided group whose queue stays.
LEMMA LeavesKeeps ==
  ASSUME Inv, UNCHANGED <<setup, joined, files, tick, parked, decided, dropped, arrived>>,
         NEW g \in groups, g.pc = "purge", Finishes(g)
  PROVE  Inv'
<1>1. groups' = groups \ {g} /\ SingleUse
  BY GroupTypes DEF Finishes
<1>2. GroupsDisjoint' /\ GroupsApart' /\ Held' = Held
  BY <1>1, GroupLeaves
<1>3. CollectTypeOK'
  BY <1>1 DEF Inv, CollectTypeOK
<1>4. Partition'
  <2>1. KeysOf(joined') = KeysOf(joined)
    OBVIOUS
  <2> QED BY <1>2, <2>1 DEF Inv, Partition, Apart
<1>5. StillReady'
  BY <1>1 DEF StillReady, SingleUse
<1>6. DistinctKeys(joined')
  BY DEF Inv
<1> QED BY <1>2, <1>3, <1>4, <1>5, <1>6 DEF Inv

\* A group that is dropped with its handler.
LEMMA DropKeeps ==
  ASSUME Inv, UNCHANGED <<setup, joined, files, tick, parked, decided, arrived>>,
         NEW g \in groups, g.pc # "purge", Finishes(g), dropped' = dropped \cup KeysOf(g.items)
  PROVE  Inv'
<1> DEFINE K == KeysOf(g.items)
<1>1. K \subseteq Keys /\ K \subseteq Held /\ groups' = groups \ {g} /\ dropped' = dropped \cup K
  BY GroupTypes DEF Finishes
<1>2. GroupsDisjoint' /\ GroupsApart' /\ Held' = Held \ K
  BY <1>1, GroupLeaves
<1> HIDE DEF K
<1>3. CollectTypeOK'
  BY <1>1 DEF Inv, CollectTypeOK
<1>4. Partition'
  <2>1. KeysOf(joined') = KeysOf(joined)
    OBVIOUS
  <2> QED BY <1>1, <1>2, <2>1 DEF Inv, Partition, Apart
<1>5. StillReady'
  BY <1>1 DEF Inv, StillReady, SingleUse, Ready, In
<1> QED BY <1>2, <1>3, <1>4, <1>5 DEF Inv

\* The attempt is counted for every item of the group.
LEMMA CountedKeys ==
  ASSUME NEW s \in Seq(Member)
  PROVE  LET t == [i \in DOMAIN s |-> [s[i] EXCEPT !.tries = @ + 1]]
         IN  /\ t \in Seq(Member) /\ KeysOf(t) = KeysOf(s)
             /\ DistinctKeys(s) => DistinctKeys(t)
             /\ s # <<>> => t # <<>>
<1> DEFINE t == [i \in DOMAIN s |-> [s[i] EXCEPT !.tries = @ + 1]]
<1>1. DOMAIN s = 1..Len(s) /\ Len(s) \in Nat /\ \A i \in 1..Len(s) : s[i] \in Member
  OBVIOUS
<1>2. \A i \in 1..Len(s) : t[i] \in Member /\ t[i].key = s[i].key
  BY <1>1 DEF Member
<1>3. t \in Seq(Member) /\ DOMAIN t = DOMAIN s /\ Len(t) = Len(s)
  BY <1>1, <1>2
<1> HIDE DEF t
<1>4. KeysOf(t) = KeysOf(s)
  <2>1. \A k : k \in KeysOf(s) <=> \E i \in 1..Len(s) : s[i].key = k
    BY KeysByIndex
  <2>2. \A k : k \in KeysOf(t) <=> \E i \in 1..Len(s) : t[i].key = k
    BY <1>3, KeysByIndex
  <2> QED BY <1>2, <2>1, <2>2
<1>5. DistinctKeys(s) => DistinctKeys(t)
  BY <1>1, <1>2, <1>3 DEF DistinctKeys
<1>6. s # <<>> => t # <<>>
  BY <1>1, <1>3, <1>4, KeysByIndex
<1> QED BY <1>3, <1>4, <1>5, <1>6 DEF t

\* ... fails on a static queue, and is dropped, ...
LEMMA FailGroupKeeps ==
  ASSUME Inv, UNCHANGED setup, NEW g \in groups, FailGroup(g)
  PROVE  Inv'
<1> DEFINE K == KeysOf(g.items)
           counted == [i \in DOMAIN g.items |-> [g.items[i] EXCEPT !.tries = @ + 1]]
           h == [g EXCEPT !.items = counted, !.pc = IF Again(counted) THEN "requeue" ELSE "park"]
<1>1. g.pc = "run" /\ UNCHANGED <<setup, joined, files, tick, parked, decided, arrived>>
  BY DEF FailGroup
<1>2. CASE ~SingleUse
  BY <1>1, <1>2, DropKeeps DEF FailGroup
<1>3. CASE SingleUse
  <2>1. groups' = (groups \ {g}) \cup {h} /\ dropped' = dropped
    BY <1>3 DEF FailGroup, Continues
  <2>2. /\ g \in Groups /\ K \subseteq Keys /\ K \subseteq Held /\ DistinctKeys(g.items)
        /\ g.items # <<>> /\ g.items \in Seq(Member)
    BY <1>1, GroupTypes
  <2>3. /\ counted \in Seq(Member) /\ KeysOf(counted) = K /\ DistinctKeys(counted)
        /\ counted # <<>>
    BY <2>2, CountedKeys
  <2> HIDE DEF counted
  <2>4. h \in Groups /\ h.items = counted /\ h.pc \in {"requeue", "park"}
    BY <2>2, <2>3 DEF Groups
  <2> HIDE DEF h
  <2>5. GroupsDisjoint' /\ GroupsApart' /\ Held' = (Held \ K) \cup K
    BY <1>1, <2>1, <2>2, <2>3, <2>4, GroupChanges
  <2> HIDE DEF K
  <2>6. CollectTypeOK'
    BY <1>1, <2>1, <2>4 DEF Inv, CollectTypeOK, Groups
  <2>7. Partition'
    <3>1. KeysOf(joined') = KeysOf(joined) /\ Held' = Held
      BY <1>1, <2>2, <2>5
    <3> QED BY <1>1, <2>1, <3>1 DEF Inv, Partition
  <2>8. StillReady'
    BY <1>3 DEF StillReady, SingleUse
  <2> QED BY <1>1, <2>5, <2>6, <2>7, <2>8 DEF Inv
<1> QED BY <1>2, <1>3

\* ... or goes back to its queue item by item.
LEMMA PutsBackKeeps ==
  ASSUME Inv, UNCHANGED setup, NEW g \in groups, PutsBack(g)
  PROVE  Inv'
<1> DEFINE K == KeysOf(g.items)
           m == Head(g.items)
           t == Tail(g.items)
           h == [g EXCEPT !.items = t]
<1>1. g.pc \in {"requeue", "park"} /\ UNCHANGED <<tick, decided, dropped, arrived>>
  BY DEF PutsBack
<1>2. /\ g \in Groups /\ K \subseteq Keys /\ K \subseteq Held /\ DistinctKeys(g.items)
      /\ g.items # <<>> /\ g.items \in Seq(Member) /\ SingleUse
  BY <1>1, GroupTypes
<1>3. /\ m \in Member /\ m.key \in K /\ t \in Seq(Member) /\ DistinctKeys(t)
      /\ KeysOf(t) = K \ {m.key}
      /\ Len(g.items) = 1 <=> t = <<>>
  BY <1>2, TailKeys
<1>4. IF t = <<>> THEN groups' = groups \ {g} ELSE groups' = (groups \ {g}) \cup {h}
  BY <1>3 DEF PutsBack, Continues, Finishes
<1>5. \/ /\ \E old \in BOOLEAN : Put([m EXCEPT !.old = old])
         /\ UNCHANGED parked
      \/ parked' = parked \cup {m.key} /\ UNCHANGED <<joined, files>>
  <2>1. m.old \in BOOLEAN /\ Timeouts \in BOOLEAN
    BY <1>3, CollectAssumption DEF Member
  <2>2. {m.old, Timeouts} \subseteq BOOLEAN
    BY <2>1
  <2> QED BY <2>2 DEF PutsBack
<1> HIDE DEF t, m
<1>6. h \in Groups /\ h.items = t /\ h.pc = g.pc
  BY <1>2, <1>3 DEF Groups
<1>7. t = <<>> => KeysOf(t) = {}
  BY <1>3, KeysByIndex
<1> HIDE DEF h
<1>8. GroupsDisjoint' /\ GroupsApart' /\ Held' = Held \ {m.key}
  <2>1. CASE t = <<>>
    <3>1. GroupsDisjoint' /\ GroupsApart' /\ Held' = Held \ K
      BY <1>1, <1>4, <2>1, GroupLeaves
    <3>2. K = {m.key}
      BY <1>3, <1>7, <2>1
    <3> QED BY <3>1, <3>2
  <2>2. CASE t # <<>>
    <3>1. GroupsDisjoint' /\ GroupsApart' /\ Held' = (Held \ K) \cup KeysOf(t)
      BY <1>1, <1>3, <1>4, <1>6, <2>2, GroupChanges
    <3> QED BY <1>2, <1>3, <3>1
  <2> QED BY <2>1, <2>2
<1>9. m.key \in Keys /\ m.key \in Held /\ m.key \notin KeysOf(joined)
  BY <1>2, <1>3 DEF Inv, Partition, Apart
<1>10. groups' \subseteq Groups
  BY <1>4, <1>6 DEF Inv, CollectTypeOK, Groups
<1>11. StillReady'
  BY <1>2 DEF StillReady, SingleUse
<1>12. CASE (\E old \in BOOLEAN : Put([m EXCEPT !.old = old])) /\ UNCHANGED parked
  <2>1. PICK old \in BOOLEAN : Put([m EXCEPT !.old = old])
    BY <1>12
  <2>2. [m EXCEPT !.old = old] \in Member /\ [m EXCEPT !.old = old].key = m.key
    BY <1>3, MemberKey
  <2>3. /\ joined' \in Seq(Member) /\ DistinctKeys(joined') /\ files' \subseteq Events
        /\ KeysOf(joined') = KeysOf(joined) \cup {m.key}
    BY <1>9, <2>1, <2>2, PutKeys DEF Inv
  <2>4. CollectTypeOK'
    BY <1>1, <1>10, <1>12, <2>3 DEF Inv, CollectTypeOK, Groups
  <2>5. Partition'
    BY <1>1, <1>8, <1>9, <1>12, <2>3 DEF Inv, Partition, Apart
  <2> QED BY <1>8, <1>11, <2>3, <2>4, <2>5 DEF Inv
<1>13. CASE parked' = parked \cup {m.key} /\ UNCHANGED <<joined, files>>
  <2>1. CollectTypeOK'
    BY <1>1, <1>9, <1>10, <1>13 DEF Inv, CollectTypeOK, Groups
  <2>2. KeysOf(joined') = KeysOf(joined) /\ joined' = joined
    BY <1>13
  <2>3. Partition'
    BY <1>1, <1>8, <1>9, <1>13, <2>2 DEF Inv, Partition, Apart
  <2> QED BY <1>8, <1>11, <2>1, <2>2, <2>3 DEF Inv
<1> QED BY <1>5, <1>12, <1>13

\* A crash takes what is in hand.
LEMMA CrashKeeps ==
  ASSUME Inv, UNCHANGED setup, CollectCrash
  PROVE  Inv'
<1>1. /\ dropped' = dropped \cup Held /\ groups' = {} /\ tick' = Idle
      /\ UNCHANGED <<joined, files, parked, decided, arrived>>
  BY DEF CollectCrash, Held
<1>2. tick'.items = <<>> /\ tick'.pc = "idle" /\ <<>> \in Seq(Member)
  BY <1>1 DEF Idle
<1>3. Held' = {}
  <2>1. KeysOf(tick'.items) = {}
    BY <1>2, KeysByIndex
  <2> QED BY <1>1, <2>1, HeldMeans
<1>4. Held \subseteq Keys
  BY DEF Inv, Partition, CollectTypeOK
<1>5. CollectTypeOK'
  <2>1. tick' \in [pc : {"idle", "take", "evict", "purge"}, event : Events \cup {NoEvent},
                   items : Seq(Member)]
    BY <1>1, <1>2 DEF Idle
  <2> QED BY <1>1, <1>4, <2>1 DEF Inv, CollectTypeOK
<1>6. Partition'
  <2>1. KeysOf(joined') = KeysOf(joined)
    BY <1>1
  <2> QED BY <1>1, <1>3, <2>1 DEF Inv, Partition, Apart
<1>7. GroupsDisjoint' /\ GroupsApart' /\ StillReady'
  BY <1>1, <1>2 DEF GroupsDisjoint, GroupsApart, StillReady
<1> QED BY <1>1, <1>5, <1>6, <1>7 DEF Inv

-----------------------------------------------------------------------------
(* OnePlace.                                                                *)

Ticks == [pc : {"idle", "take", "evict", "purge"}, event : Events \cup {NoEvent},
          items : Seq(Member)]

\* A step of the scan that has no items in hand and moves none.
LEMMA TickKeeps ==
  ASSUME Inv, UNCHANGED <<setup, joined, files, groups, parked, decided, dropped, arrived>>,
         SingleUse, tick.items = <<>>, tick' \in Ticks, tick'.items = <<>>
  PROVE  Inv'
<1>1. GroupsDisjoint' /\ GroupsApart' /\ Held' = Held
  <2>1. <<>> \in Seq(Member)
    OBVIOUS
  <2>2. KeysOf(<<>>) = {}
    BY <2>1, KeysByIndex
  <2> QED BY <2>2, EvictionChanges
<1>2. CollectTypeOK'
  BY DEF Inv, CollectTypeOK, Ticks
<1>3. Partition'
  <2>1. KeysOf(joined') = KeysOf(joined)
    OBVIOUS
  <2> QED BY <1>1, <2>1 DEF Inv, Partition, Apart
<1>4. StillReady'
  BY DEF StillReady, SingleUse
<1>5. DistinctKeys(joined')
  BY DEF Inv
<1> QED BY <1>1, <1>2, <1>3, <1>4, <1>5 DEF Inv

\* Every step of the scan ...
LEMMA ScanKeeps ==
  ASSUME Inv, UNCHANGED setup, CollectScan
  PROVE  Inv'
<1>1. ASSUME NEW e \in Events, TakesQueue(e) PROVE Inv'
  BY <1>1, TakesKeeps DEF TakesQueue
<1>2. ASSUME NEW e \in Events, FindsEmpty(e) \/ EvictionFails(e) PROVE Inv'
  <2>1. /\ tick' = [pc |-> "purge", event |-> e, items |-> <<>>] /\ SingleUse
        /\ UNCHANGED <<joined, files, groups, parked, decided, dropped, arrived>>
    BY <1>2 DEF FindsEmpty, EvictionFails, Purging
  <2>2. tick'.items = <<>> /\ tick'.pc = "purge" /\ tick' \in Ticks
    BY <2>1 DEF Ticks
  <2> QED BY <1>2, <2>1, <2>2, TickKeeps DEF FindsEmpty, EvictionFails, Inv, GroupsApart
<1>3. ASSUME NEW e \in Events, EvictsQueue(e) PROVE Inv'
  BY <1>3, EvictKeeps DEF EvictsQueue
<1>4. ASSUME NEW e \in Events, TakesStatic(e) PROVE Inv'
  <2>1. CASE tick.pc = "idle" /\ FirstOf(Complete, e) /\ UNCHANGED tick
    <3>1. Ready(e)
      BY <2>1 DEF FirstOf, Complete
    <3> QED BY <1>4, <2>1, <3>1, TakesKeeps DEF TakesStatic
  <2>2. CASE tick.pc = "take" /\ tick.event = e /\ tick' = Idle
    <3>1. Ready(e)
      BY <1>4, <2>2, EventAssumption DEF TakesStatic, Inv, StillReady
    <3> QED BY <1>4, <2>2, <3>1, TakesKeeps DEF TakesStatic
  <2> QED BY <1>4, <2>1, <2>2 DEF TakesStatic
<1>5. ASSUME NEW e \in Events, EvictsStatic(e) PROVE Inv'
  <2>1. PICK then \in Events \cup {NoEvent} :
          /\ IF Complete # {} THEN FirstOf(Complete, then) ELSE then = NoEvent
          /\ Evicting(e, then)
    BY <1>5 DEF EvictsStatic
  <2>2. ~Ready(e)
    BY <1>5 DEF EvictsStatic, FirstOf, Overdue, Stale
  <2>3. then = NoEvent \/ Ready(then)
    BY <2>1 DEF FirstOf, Complete
  <2> QED BY <1>5, <2>1, <2>2, <2>3, EvictKeeps DEF EvictsStatic
<1>6. CASE Parks
  BY <1>6, ParksKeeps
<1>7. CASE Purges
  BY <1>7, PurgesKeeps
<1>8. CASE PurgeFails
  <2>1. Idle \in Ticks /\ Idle.items = <<>> /\ Idle.pc = "idle"
    BY DEF Idle, Ticks
  <2> QED BY <1>8, <2>1, TickKeeps DEF PurgeFails, Inv, GroupsApart, StillReady
<1> QED BY <1>1, <1>2, <1>3, <1>4, <1>5, <1>6, <1>7, <1>8 DEF CollectScan

\* ... and of a handler preserves the invariant.
LEMMA HandlerKeeps ==
  ASSUME Inv, UNCHANGED setup, NEW g \in groups, HandleGroup(g)
  PROVE  Inv'
<1>1. CASE PanicInGroup(g)
  BY <1>1, DropKeeps DEF PanicInGroup
<1>2. CASE PurgeOwnFails(g)
  BY <1>2, LeavesKeeps DEF PurgeOwnFails
<1> QED BY <1>1, <1>2, RunGroupKeeps, PurgesOwnKeeps, FailGroupKeeps, PutsBackKeeps DEF HandleGroup

\* Nothing has arrived yet.
LEMMA InvInit ==
  CollectInitially => Inv
<1> SUFFICES ASSUME CollectInitially PROVE Inv
  OBVIOUS
<1>1. /\ joined = <<>> /\ tick = Idle /\ tick.items = <<>> /\ tick.pc = "idle" /\ groups = {}
      /\ files = {} /\ parked = {} /\ decided = {} /\ dropped = {} /\ arrived = {}
      /\ <<>> \in Seq(Member)
  BY DEF CollectInitially, CollectInit, Idle
<1>2. KeysOf(joined) = {} /\ Held = {} /\ DistinctKeys(joined)
  <2>1. KeysOf(joined) = {}
    BY <1>1, KeysByIndex
  <2>2. DOMAIN joined = {}
    BY <1>1
  <2> QED BY <1>1, <2>1, <2>2 DEF Held, DistinctKeys
<1>3. CollectTypeOK
  BY <1>1 DEF CollectTypeOK, Idle
<1> QED BY <1>1, <1>2, <1>3 DEF Inv, Partition, Apart, GroupsDisjoint, GroupsApart, StillReady

\* Every step of the worker preserves the invariant of OnePlace.
LEMMA InvNext ==
  Inv /\ [CollectNext]_<<setup, collectVars>> => Inv'
<1> SUFFICES ASSUME Inv, [CollectNext]_<<setup, collectVars>> PROVE Inv'
  OBVIOUS
<1>1. CASE UNCHANGED <<setup, collectVars>>
  <2>1. UNCHANGED <<setup, joined, files, groups, tick, parked, decided, dropped, arrived>>
    BY <1>1 DEF collectVars
  <2>2. CollectTypeOK'
    BY <2>1 DEF Inv, CollectTypeOK
  <2>3. Partition'
    <3>1. KeysOf(joined') = KeysOf(joined) /\ Held' = Held
      BY <2>1 DEF Held, KeysOf
    <3> QED BY <2>1, <3>1 DEF Inv, Partition
  <2>4. GroupsDisjoint' /\ GroupsApart' /\ DistinctKeys(joined')
    BY <2>1 DEF Inv, GroupsDisjoint, GroupsApart
  <2>5. StillReady'
    BY <2>1 DEF Inv, StillReady, SingleUse, Ready, In
  <2> QED BY <2>2, <2>3, <2>4, <2>5 DEF Inv
<1>2. CASE CollectNext
  BY <1>2, ArriveKeeps, ScanKeeps, HandlerKeeps, AgeKeeps, CrashKeeps DEF CollectNext
<1> QED BY <1>1, <1>2

\* The items that were delivered, the groups and the queue never overlap, and
\* nothing of what was delivered is forgotten: worker.go takes items out of a
\* queue before it runs, parks or deletes them, and never runs two groups on one.
THEOREM OutputInOnePlace ==
  CollectSpec => []OnePlace
<1>1. Inv => OnePlace
  BY PartsOfOnePlace DEF Inv
<1> QED BY <1>1, InvInit, InvNext, PTL DEF CollectSpec

-----------------------------------------------------------------------------
(* WholeDecisions, where collect_size is the number of routes.              *)

\* A complete event has all its legs, and they are taken together.
LEMMA GroupIsWhole ==
  ASSUME IsFiniteSet(Legs), Size = Cardinality(Legs), Inv, NEW e \in Events, Ready(e)
  PROVE  KeysOf(GroupOf(e)) = {e} \X Legs
<1> DEFINE K == KeysOf(GroupOf(e))
<1>1. /\ GroupOf(e) \in Seq(Member) /\ Len(GroupOf(e)) = Size /\ DistinctKeys(GroupOf(e))
      /\ K \subseteq {k \in Keys : k[1] = e}
  <2>1. K \subseteq KeysOf(In(e)) /\ KeysOf(In(e)) = {k \in KeysOf(joined) : k[1] = e}
    BY GroupKeys, QueueKeys DEF Inv
  <2>2. KeysOf(joined) \subseteq Keys
    BY KeysByIndex DEF Inv, CollectTypeOK
  <2> QED BY <2>1, <2>2, GroupKeys DEF Inv
<1>2. K \subseteq {e} \X Legs
  BY <1>1 DEF Keys
<1>3. IsFiniteSet(K) /\ Cardinality(K) = Size
  BY <1>1, CountKeys
<1> HIDE DEF K
<1>4. IsFiniteSet({e} \X Legs) /\ Cardinality({e} \X Legs) = Cardinality(Legs)
  <2>1. IsFiniteSet({e}) /\ Cardinality({e}) = 1 /\ Cardinality(Legs) \in Nat
    BY FS_Singleton, FS_CardinalityType
  <2>2. 1 * Cardinality(Legs) = Cardinality(Legs)
    BY <2>1
  <2>3. /\ IsFiniteSet({e} \X Legs)
        /\ Cardinality({e} \X Legs) = Cardinality({e}) * Cardinality(Legs)
    BY <2>1, FS_Product
  <2> QED BY <2>1, <2>2, <2>3
<1>5. K = {e} \X Legs
  BY <1>2, <1>3, <1>4, FS_Subset
<1> QED BY <1>5 DEF K

\* Every action starts a handler with a whole group, or starts none; only the
\* run of a group decides.
LEMMA WholeSteps ==
  ASSUME IsFiniteSet(Legs), Size = Cardinality(Legs), Inv, GroupsWhole, CollectNext
  PROVE  /\ \A g \in groups' : g.pc = "run" => g \in groups \/ KeysOf(g.items) = {g.event} \X Legs
         /\ decided' = decided \/ \E e \in Events : decided' = decided \cup ({e} \X Legs)
<1> DEFINE Whole == \A g \in groups' : g.pc = "run" =>
                      g \in groups \/ KeysOf(g.items) = {g.event} \X Legs
<1>1. ASSUME NEW e \in Events, Ready(e), Takes(e) PROVE Whole
  <2> DEFINE h == [event |-> e, items |-> GroupOf(e), pc |-> "run"]
  <2>1. h.items = GroupOf(e) /\ h.event = e /\ groups' = groups \cup {h}
    BY <1>1 DEF Takes
  <2>2. KeysOf(h.items) = {h.event} \X Legs
    BY <1>1, <2>1, GroupIsWhole
  <2> QED BY <2>1, <2>2
<1>2. CASE CollectScan
  <2>1. ASSUME NEW e \in Events, TakesQueue(e) \/ TakesStatic(e) PROVE Whole
    <3>1. Ready(e) /\ Takes(e)
      BY <2>1, EventAssumption DEF TakesQueue, TakesStatic, FirstOf, Complete, Inv, StillReady
    <3> QED BY <1>1, <3>1
  <2>2. decided' = decided
    BY <1>2 DEF CollectScan, TakesQueue, FindsEmpty, EvictsQueue, EvictionFails, TakesStatic,
       EvictsStatic, Parks, Purges, PurgeFails
  <2>3. CASE groups' = groups
    BY <2>2, <2>3
  <2> QED BY <1>2, <2>1, <2>2, <2>3 DEF CollectScan, FindsEmpty, EvictsQueue, EvictionFails,
          EvictsStatic, Parks, Purges, PurgeFails
<1>3. ASSUME NEW g \in groups, HandleGroup(g)
      PROVE  Whole /\ (decided' = decided
                       \/ \E e \in Events : decided' = decided \cup ({e} \X Legs))
  <2>1. g \in Groups
    BY GroupTypes
  <2>2. CASE RunGroup(g)
    <3>1. KeysOf(g.items) = {g.event} \X Legs /\ g.event \in Events
      BY <2>1, <2>2 DEF GroupsWhole, RunGroup, Groups
    <3>2. Whole
      BY <2>1, <2>2 DEF RunGroup, Continues, Finishes, Groups
    <3> QED BY <2>2, <3>1, <3>2 DEF RunGroup
  <2>3. CASE PurgesOwn(g) \/ PurgeOwnFails(g) \/ PanicInGroup(g)
    BY <2>3 DEF PurgesOwn, PurgeOwnFails, PanicInGroup, Finishes
  <2>4. CASE FailGroup(g)
    <3> DEFINE counted == [i \in DOMAIN g.items |-> [g.items[i] EXCEPT !.tries = @ + 1]]
               h == [g EXCEPT !.items = counted, !.pc = IF Again(counted) THEN "requeue" ELSE "park"]
    <3>1. groups' = (groups \ {g}) \cup {h} \/ groups' = groups \ {g}
      BY <2>4 DEF FailGroup, Continues, Finishes
    <3>2. h.pc # "run"
      BY <2>1 DEF Groups
    <3> QED BY <2>4, <3>1, <3>2 DEF FailGroup
  <2>5. CASE PutsBack(g)
    <3> DEFINE h == [g EXCEPT !.items = Tail(@)]
    <3>1. groups' = (groups \ {g}) \cup {h} \/ groups' = groups \ {g}
      BY <2>5 DEF PutsBack, Continues, Finishes
    <3>2. h.pc # "run"
      BY <2>1, <2>5 DEF Groups, PutsBack
    <3> QED BY <2>5, <3>1, <3>2 DEF PutsBack
  <2> QED BY <1>3, <2>2, <2>3, <2>4, <2>5 DEF HandleGroup
<1>4. CASE groups' \subseteq groups /\ decided' = decided
  BY <1>4
<1> QED BY <1>2, <1>3, <1>4 DEF CollectNext, Arrive, Age, CollectCrash

\* When a group has the size of a fan-out, it has all legs of its event.
LEMMA WholeNext ==
  ASSUME IsFiniteSet(Legs), Size = Cardinality(Legs)
  PROVE  Inv /\ GroupsWhole /\ WholeDecisions /\ [CollectNext]_<<setup, collectVars>>
           => GroupsWhole' /\ WholeDecisions'
<1> SUFFICES ASSUME Inv, GroupsWhole, WholeDecisions, [CollectNext]_<<setup, collectVars>>
             PROVE  GroupsWhole' /\ WholeDecisions'
  OBVIOUS
<1>1. CASE UNCHANGED <<setup, collectVars>>
  BY <1>1 DEF collectVars, GroupsWhole, WholeDecisions
<1>2. CASE CollectNext
  <2>1. GroupsWhole'
    BY <1>2, WholeSteps DEF GroupsWhole
  <2>2. decided' = decided \/ \E e \in Events : decided' = decided \cup ({e} \X Legs)
    BY <1>2, WholeSteps
  <2>3. WholeDecisions'
    BY <2>2 DEF WholeDecisions
  <2> QED BY <2>1, <2>3
<1> QED BY <1>1, <1>2

\* worker.go:260-263: with one route for each of collect_size outputs, a decision
\* is made from one event and all its legs, also when a group was put back item
\* by item after a failed run, and in part evicted.
THEOREM DecisionsAreWhole ==
  ASSUME IsFiniteSet(Legs), Size = Cardinality(Legs)
  PROVE  CollectSpec => []WholeDecisions
<1>1. CollectInitially => GroupsWhole /\ WholeDecisions
  BY DEF CollectInitially, CollectInit, GroupsWhole, WholeDecisions
<1> QED BY <1>1, InvInit, InvNext, WholeNext, PTL DEF CollectSpec

-----------------------------------------------------------------------------
(* CuringFan.  A key is an event and a leg.                                 *)

\* A key has an event and a leg, and they make it.
LEMMA KeyParts ==
  /\ \A k \in Keys : k[1] \in Events /\ k[2] \in Legs /\ <<k[1], k[2]>> = k
  /\ \A e \in Events, l \in Legs :
       <<e, l>> \in Keys /\ <<e, l>>[1] = e /\ <<e, l>>[2] = l
  BY DEF Keys

\* The legs and their items; what they rest on in the collecting worker is
\* invariant for the worker by itself.
LegInv == setup \in Setups /\ LegTypeOK /\ OneItem
FanInv == LegInv /\ Inv

\* What the assumption says of the setup.
LEMMA SetupEvents ==
  ASSUME setup \in Setups
  PROVE  setup.events \subseteq Events /\ setup.out \in {"none", "single", "static"}
  BY EventAssumption

\* The webhook comes once for an event, and has an item for every leg then.
LEMMA ReceiveKeeps ==
  ASSUME LegInv, UNCHANGED <<setup, arrived>>, NEW e \in setup.events, Receive(e)
  PROVE  LegTypeOK' /\ OneItem'
<1>1. e \in Events
  BY SetupEvents DEF LegInv
<1>2. LegTypeOK'
  BY <1>1 DEF LegInv, LegTypeOK, Receive
<1>3. \A k \in Keys : k[1] = e => ~Pending(k) /\ k \notin arrived
  BY DEF LegInv, OneItem, Receive
<1>4. \A k \in Keys : k[1] = e => tries[k] < MaxAttempts
  BY LegAssumption DEF LegInv, LegTypeOK, OneItem, Receive
<1>5. OneItem'
  BY <1>1, <1>3, <1>4, KeyParts DEF LegInv, LegTypeOK, OneItem, Pending, Receive
<1> QED BY <1>2, <1>5

\* The webhook gives up: what it has not sent is nowhere.
LEMMA SendFailsKeeps ==
  ASSUME LegInv, UNCHANGED <<setup, arrived>>, NEW e \in setup.events, SendFails(e)
  PROVE  LegTypeOK' /\ OneItem'
<1>1. e \in Events
  BY SetupEvents DEF LegInv
<1>2. LegTypeOK'
  BY <1>1 DEF LegInv, LegTypeOK, SendFails
<1>3. OneItem'
  BY <1>1, KeyParts DEF LegInv, LegTypeOK, OneItem, Pending, SendFails
<1> QED BY <1>2, <1>3

\* The webhook hands the item of a leg to its queue.
LEMMA SendKeeps ==
  ASSUME LegInv, UNCHANGED <<setup, arrived>>, NEW k \in Keys, Send(k[1], k[2])
  PROVE  LegTypeOK' /\ OneItem'
<1>1. LegTypeOK'
  BY KeyParts DEF LegInv, LegTypeOK, Send
<1>2. OneItem'
  BY KeyParts DEF LegInv, LegTypeOK, OneItem, Pending, Send
<1> QED BY <1>1, <1>2

\* The scan hands the item to a handler.
LEMMA ScanTakesKeeps ==
  ASSUME LegInv, UNCHANGED <<setup, arrived>>, NEW k \in Keys, ScanTakes(k[2], k[1])
  PROVE  LegTypeOK' /\ OneItem'
<1>1. LegTypeOK'
  BY KeyParts DEF LegInv, LegTypeOK, ScanTakes, Becomes, Stages
<1>2. OneItem'
  BY KeyParts DEF LegInv, LegTypeOK, OneItem, Pending, ScanTakes, Becomes
<1> QED BY <1>1, <1>2

\* The scan has found a queue without an item.
LEMMA ScanFindsEmptyKeeps ==
  ASSUME LegInv, UNCHANGED <<setup, arrived>>, NEW k \in Keys, ScanFindsEmpty(k[2], k[1])
  PROVE  LegTypeOK' /\ OneItem'
<1>1. LegTypeOK'
  BY KeyParts DEF LegInv, LegTypeOK, ScanFindsEmpty
<1>2. OneItem'
  BY KeyParts DEF LegInv, LegTypeOK, OneItem, Pending, ScanFindsEmpty
<1> QED BY <1>1, <1>2

\* Load, run and panic leave the item with its handler, or with nobody.
LEMMA HandleKeeps ==
  ASSUME LegInv, UNCHANGED <<setup, arrived>>, NEW k \in Keys,
         LoadHide(k) \/ RunLeg(k) \/ PanicInLeg(k)
  PROVE  LegTypeOK' /\ OneItem'
<1>1. LegTypeOK'
  <2>1. CASE LoadHide(k)
    BY <2>1 DEF LegInv, LegTypeOK, LoadHide, Becomes, Stages
  <2>2. CASE RunLeg(k)
    BY <2>2 DEF LegInv, LegTypeOK, RunLeg, Becomes, Stages
  <2>3. CASE PanicInLeg(k)
    BY <2>3 DEF LegInv, LegTypeOK, PanicInLeg, Becomes, Stages
  <2> QED BY <2>1, <2>2, <2>3
<1>2. OneItem'
  BY KeyParts DEF LegInv, LegTypeOK, OneItem, Pending, LoadHide, RunLeg, PanicInLeg, Becomes
<1> QED BY <1>1, <1>2

\* A failed item goes back with its attempts counted, or is dead.
LEMMA RetryKeeps ==
  ASSUME LegInv, UNCHANGED <<setup, arrived>>, NEW k \in Keys, Retry(k)
  PROVE  LegTypeOK' /\ OneItem'
<1>1. tries[k] \in Nat /\ tries[k] + 1 \in 0..MaxAttempts /\ stage[k] # "none"
  BY LegAssumption DEF LegInv, LegTypeOK, OneItem, Pending, Retry
<1>2. LegTypeOK'
  BY <1>1 DEF LegInv, LegTypeOK, Retry, Becomes, Closes, Stages, Closing
<1>3. OneItem'
  BY <1>1 DEF LegInv, LegTypeOK, OneItem, Pending, Retry, Becomes
<1> QED BY <1>2, <1>3

\* The output of a leg arrives when its handler lets go of it.
LEMMA RoutedKeeps ==
  ASSUME LegInv, UNCHANGED setup, NEW k \in Keys, Routed(k),
         arrived' = arrived \/ arrived' = arrived \cup {k}
  PROVE  LegTypeOK' /\ OneItem' /\ k \notin arrived /\ k[1] \in setup.events
<1>1. LegTypeOK'
  BY DEF LegInv, LegTypeOK, Routed, Becomes, Closes, Stages, Closing
<1>2. stage[k] = "written" /\ k[1] \in received /\ k \notin arrived
  BY DEF LegInv, OneItem, Pending, Routed
<1>3. OneItem'
  BY <1>2 DEF LegInv, LegTypeOK, OneItem, Pending, Routed, Becomes
<1> QED BY <1>1, <1>2, <1>3 DEF LegInv, OneItem

\* The scan deletes a queue, and with it what came after it looked.
LEMMA ScanDeletesKeeps ==
  ASSUME LegInv, UNCHANGED <<setup, arrived>>, NEW l \in Legs, ScanDeletes(l) \/ ScanDeleteFails(l)
  PROVE  LegTypeOK' /\ OneItem'
<1>0. CASE ScanDeleteFails(l)
  BY <1>0 DEF LegInv, LegTypeOK, OneItem, Pending, ScanDeleteFails
<1> SUFFICES ASSUME ScanDeletes(l) PROVE LegTypeOK' /\ OneItem'
  BY <1>0
<1>1. <<scan[l], l>> \in Keys
  BY KeyParts DEF LegInv, LegTypeOK, ScanDeletes
<1>2. LegTypeOK'
  BY <1>1 DEF LegInv, LegTypeOK, ScanDeletes, DeleteQueue
<1>3. OneItem'
  BY <1>1 DEF LegInv, LegTypeOK, OneItem, Pending, ScanDeletes, DeleteQueue
<1> QED BY <1>2, <1>3

\* A handler at its end has a key, and moves from stage to stage with it.
LEMMA CloserTypes ==
  ASSUME LegTypeOK, NEW c \in closers
  PROVE  /\ c.key \in Keys
         /\ \A pc \in Closing :
              /\ [c EXCEPT !.pc = pc] \in [key : Keys, run : 0..MaxAttempts, pc : Closing]
              /\ [c EXCEPT !.pc = pc].key = c.key /\ [c EXCEPT !.pc = pc].pc = pc
  BY DEF LegTypeOK

\* A handler at its end adds no item and starts no handler.
LEMMA CloserKeeps ==
  ASSUME LegInv, UNCHANGED <<setup, arrived>>, NEW c \in closers, NEW others,
         CloserLooks(c) \/ CloserDeletes(c, others) \/ CloserUnhides(c) \/ CloserFails(c)
  PROVE  LegTypeOK' /\ OneItem'
<1>1. c.key \in Keys
  BY CloserTypes DEF LegInv
<1>2. /\ \/ closers' = closers \ {c}
         \/ \E pc \in Closing : closers' = (closers \ {c}) \cup {[c EXCEPT !.pc = pc]}
      /\ hides' \subseteq hides /\ UNCHANGED <<todo, received, dead, tries, stage, scan, written>>
      /\ \/ UNCHANGED <<single, lost>>
         \/ DeleteQueue(c.key)
         \/ single' = single /\ lost' = lost \cup {c.key}
  BY DEF CloserLooks, CloserDeletes, CloserUnhides, CloserFails, Ends, Proceeds, Closing
<1>3. closers' \subseteq [key : Keys, run : 0..MaxAttempts, pc : Closing]
  BY <1>2, CloserTypes DEF LegInv, LegTypeOK
<1>4. LegTypeOK'
  BY <1>1, <1>2, <1>3 DEF LegInv, LegTypeOK, DeleteQueue
<1>5. OneItem'
  BY <1>1, <1>2 DEF LegInv, LegTypeOK, OneItem, Pending, DeleteQueue
<1> QED BY <1>4, <1>5

\* What a crash leaves of an item is in the queue file.
LEMMA LegCrashKeeps ==
  ASSUME LegInv, UNCHANGED <<setup, arrived>>, LegCrash
  PROVE  LegTypeOK' /\ OneItem'
<1>1. LegTypeOK'
  BY DEF LegInv, LegTypeOK, LegCrash, Stages
<1>2. OneItem'
  BY KeyParts DEF LegInv, LegTypeOK, OneItem, Pending, LegCrash
<1> QED BY <1>1, <1>2

\* Nothing but the routing of an output makes one arrive.
LEMMA CollectLeaves ==
  /\ Collect => arrived' = arrived /\ UNCHANGED <<setup, legVars>>
  /\ Grow => arrived' = arrived /\ UNCHANGED <<setup, legVars>>
  /\ CollectCrash => arrived' = arrived
<1>1. CollectScan => arrived' = arrived
  BY DEF CollectScan, TakesQueue, FindsEmpty, EvictsQueue, EvictionFails, TakesStatic, EvictsStatic,
     Parks, Purges, PurgeFails
<1>2. \A g \in groups : HandleGroup(g) => arrived' = arrived
  BY DEF HandleGroup, RunGroup, PurgesOwn, PurgeOwnFails, FailGroup, PutsBack, PanicInGroup
<1> QED BY <1>1, <1>2 DEF Collect, Grow, Age, CollectCrash

\* A step of the collecting worker that has no arrival leaves the legs alone.
LEMMA LegsRest ==
  ASSUME LegInv, UNCHANGED <<setup, legVars, arrived>>
  PROVE  LegInv'
  BY DEF LegInv, LegTypeOK, OneItem, Pending, legVars

\* Every step of the composition keeps the invariant of the legs, and is one
\* that CuringCollect allows, or none of the collecting worker's.
LEMMA FanStep ==
  ASSUME FanInv, [Next]_vars
  PROVE  LegInv' /\ [CollectNext]_<<setup, collectVars>>
<1>0. LegInv
  BY DEF FanInv
<1>1. ASSUME UNCHANGED <<setup, collectVars>>, LegTypeOK', OneItem'
      PROVE  LegInv' /\ [CollectNext]_<<setup, collectVars>>
  BY <1>0, <1>1 DEF LegInv
<1>2. UNCHANGED <<setup, collectVars>> => UNCHANGED <<setup, arrived>>
  BY DEF collectVars
<1>3. CASE UNCHANGED vars
  BY <1>0, <1>2, <1>3, LegsRest DEF vars
<1>4. ASSUME NEW e \in setup.events, Receive(e) \/ SendFails(e), UNCHANGED <<setup, collectVars>>
      PROVE  LegInv' /\ [CollectNext]_<<setup, collectVars>>
  BY <1>0, <1>1, <1>2, <1>4, ReceiveKeeps, SendFailsKeeps
<1>5. ASSUME NEW k \in Keys, LegNext(k) PROVE LegInv' /\ [CollectNext]_<<setup, collectVars>>
  BY <1>0, <1>1, <1>2, <1>5, SendKeeps, ScanTakesKeeps, ScanFindsEmptyKeeps, HandleKeeps, RetryKeeps
     DEF LegNext, LegStep
<1>6. ASSUME NEW k \in Keys, Deliver(k) PROVE LegInv' /\ [CollectNext]_<<setup, collectVars>>
  <2>1. Routed(k) /\ UNCHANGED setup
    BY <1>6 DEF Deliver
  <2>2. CASE Arrive(k)
    <3>1. arrived' = arrived \cup {k}
      BY <2>2 DEF Arrive
    <3>2. LegInv' /\ k \notin arrived /\ k[1] \in setup.events
      BY <1>0, <2>1, <3>1, RoutedKeeps DEF LegInv
    <3>3. CollectNext
      BY <2>1, <2>2, <3>2 DEF CollectNext
    <3> QED BY <3>2, <3>3
  <2>3. CASE UNCHANGED collectVars
    BY <1>0, <1>1, <1>2, <2>1, <2>3, RoutedKeeps
  <2> QED BY <1>6, <2>2, <2>3 DEF Deliver
<1>7. ASSUME NEW l \in Legs, ScanNext(l) PROVE LegInv' /\ [CollectNext]_<<setup, collectVars>>
  BY <1>0, <1>1, <1>2, <1>7, ScanDeletesKeeps DEF ScanNext
<1>8. ASSUME NEW c \in closers, Close(c) PROVE LegInv' /\ [CollectNext]_<<setup, collectVars>>
  BY <1>0, <1>1, <1>2, <1>8, CloserKeeps DEF Close
<1>9. CASE Collect
  BY <1>0, <1>9, CollectLeaves, LegsRest DEF Collect, CollectNext
<1>10. CASE Grow
  BY <1>0, <1>10, CollectLeaves, LegsRest DEF Grow, CollectNext
<1>11. CASE Crash
  BY <1>0, <1>11, CollectLeaves, LegCrashKeeps DEF Crash, CollectNext, LegInv
<1> QED BY <1>3, <1>4, <1>5, <1>6, <1>7, <1>8, <1>9, <1>10, <1>11 DEF Next

\* Both invariants hold in the beginning ...
LEMMA FanInit ==
  Init => FanInv /\ CollectInitially
<1> SUFFICES ASSUME Init PROVE FanInv /\ CollectInitially
  OBVIOUS
<1>1. CollectInitially /\ Inv
  BY InvInit DEF Init, CollectInitially
<1>2. LegTypeOK
  BY LegAssumption DEF Init, LegInit, LegTypeOK, Stages
<1>3. OneItem
  BY KeyParts, LegAssumption DEF Init, LegInit, CollectInit, OneItem, Pending
<1> QED BY <1>1, <1>2, <1>3 DEF FanInv, LegInv, Init

\* ... and after every step: the one of the legs by FanStep, the one of the
\* collecting worker because the step is one of CuringCollect.
LEMMA FanNext ==
  FanInv /\ [Next]_vars => FanInv'
  BY FanStep, InvNext DEF FanInv

\* The legs, in whatever way they fail, crash and retry, give the collecting
\* worker what CuringCollect supposes: an output arrives once, for an event of
\* the setup.  What is proved of CuringCollect holds of the composition.
THEOREM FanRunsCollect ==
  Spec => CollectInitially /\ [][CollectNext]_<<setup, collectVars>>
<1>1. FanInv /\ [Next]_vars => [CollectNext]_<<setup, collectVars>>
  BY FanStep
<1> QED BY <1>1, FanInit, FanNext, PTL DEF Spec

-----------------------------------------------------------------------------
(* HideReclaimedWithoutFanIn.                                               *)

\* A queue that is emptied has the handler that emptied it, until that one is
\* through and has deleted it.
LEMMA EmptyIsServedNext ==
  ASSUME LegInv, EmptyIsServed, [Next]_vars
  PROVE  EmptyIsServed'
<1> SUFFICES ASSUME NEW k \in Keys, single'[k] = "empty"
             PROVE Served(k)'
  BY DEF EmptyIsServed
<1>0. /\ single \in [Keys -> {"absent", "empty", "item"}] /\ stage \in [Keys -> Stages]
      /\ closers \subseteq [key : Keys, run : 0..MaxAttempts, pc : Closing]
  BY DEF LegInv, LegTypeOK
<1>1. CASE UNCHANGED legVars
  BY <1>1 DEF legVars, EmptyIsServed, Served
<1>2. ASSUME NEW e \in setup.events, Receive(e) \/ SendFails(e)
      PROVE Served(k)'
  BY <1>2 DEF Receive, SendFails, EmptyIsServed, Served
<1>3. ASSUME NEW j \in Keys, LegStep(j) \/ Routed(j)
      PROVE Served(k)'
  <2>1. <<j[1], j[2]>> = j
    BY KeyParts
  <2>2. CASE Send(j[1], j[2])
    BY <2>1, <2>2 DEF Send, EmptyIsServed, Served
  <2>3. CASE ScanTakes(j[2], j[1])
    BY <1>0, <2>1, <2>3 DEF ScanTakes, Becomes, EmptyIsServed, Served
  <2>4. CASE ScanFindsEmpty(j[2], j[1])
    BY <2>4 DEF ScanFindsEmpty, EmptyIsServed, Served
  <2>5. CASE LoadHide(j)
    BY <1>0, <2>5 DEF LoadHide, Becomes, EmptyIsServed, Served
  <2>6. CASE RunLeg(j)
    BY <1>0, <2>6 DEF RunLeg, Becomes, EmptyIsServed, Served
  <2>7. CASE PanicInLeg(j)
    BY <1>0, <2>7 DEF PanicInLeg, Becomes, EmptyIsServed, Served
  <2>8. CASE Retry(j) \/ Routed(j)
    <3>1. /\ stage' = [stage EXCEPT ![j] = "none"] /\ lost' = lost
          /\ single' = single \/ single' = [single EXCEPT ![j] = "item"]
          /\ closers' = closers \cup {[key |-> j, run |-> tries[j], pc |-> "look"]}
      BY <2>8 DEF Retry, Routed, Becomes, Closes
    <3>2. \E c \in closers' : c.key = j /\ c.pc = "look"
      <4> DEFINE c == [key |-> j, run |-> tries[j], pc |-> "look"]
      <4>1. c \in closers' /\ c.key = j /\ c.pc = "look"
        BY <3>1
      <4> QED BY <4>1
    <3>3. CASE k = j
      BY <3>2, <3>3 DEF Served
    <3>4. CASE k # j
      <4>1. single[k] = "empty" /\ stage'[k] = stage[k]
        BY <1>0, <3>1, <3>4
      <4> QED BY <3>1, <4>1 DEF EmptyIsServed, Served
    <3> QED BY <3>3, <3>4
  <2> QED BY <1>3, <2>2, <2>3, <2>4, <2>5, <2>6, <2>7, <2>8 DEF LegStep
<1>4. ASSUME NEW l \in Legs, ScanDeletes(l) \/ ScanDeleteFails(l)
      PROVE Served(k)'
  BY <1>0, <1>4 DEF ScanDeletes, ScanDeleteFails, DeleteQueue, EmptyIsServed, Served
<1>5. ASSUME NEW c \in closers, CloserLooks(c)
      PROVE Served(k)'
  <2>1. c.key \in Keys /\ [c EXCEPT !.pc = "delete"].key = c.key /\ [c EXCEPT !.pc = "delete"].pc = "delete"
    BY CloserTypes DEF LegInv, Closing
  <2> QED BY <1>0, <1>5, <2>1 DEF CloserLooks, Ends, Proceeds, EmptyIsServed, Served
<1>6. ASSUME NEW c \in closers, NEW others, CloserDeletes(c, others)
      PROVE Served(k)'
  <2>1. c.key \in Keys
    BY CloserTypes DEF LegInv
  <2>2. k # c.key /\ single'[k] = single[k]
    BY <1>0, <1>6, <2>1 DEF CloserDeletes, DeleteQueue
  <2>3. closers \ {c} \subseteq closers' /\ stage' = stage /\ lost \subseteq lost'
    BY <1>6 DEF CloserDeletes, DeleteQueue, Ends, Proceeds
  <2> QED BY <2>2, <2>3 DEF EmptyIsServed, Served
<1>7. ASSUME NEW c \in closers, CloserUnhides(c) \/ CloserFails(c)
      PROVE Served(k)'
  BY <1>7 DEF CloserUnhides, CloserFails, Ends, EmptyIsServed, Served
<1>8. CASE LegCrash
  BY <1>8 DEF LegCrash, EmptyIsServed, Served
<1>9. CASE UNCHANGED vars
  BY <1>1, <1>9 DEF vars
<1> QED BY <1>1, <1>2, <1>3, <1>4, <1>5, <1>6, <1>7, <1>8, <1>9, CollectLeaves
        DEF Next, LegNext, Deliver, ScanNext, Close, Crash

\* A step that leaves an event alone leaves it what refers to it.
LEMMA ReferredStays ==
  ASSUME NEW e \in Events, Referred(e), todo'[e] = todo[e],
         \A k \in Keys : k[1] = e =>
           /\ single[k] # "absent" => single'[k] # "absent"
           /\ k \in dead => k \in dead'
           /\ stage[k] # "none" => stage'[k] # "none",
         \A c \in closers : c.key[1] = e => \E d \in closers' : d.key[1] = e
  PROVE  Referred(e)'
<1>1. \A l \in Legs : <<e, l>> \in Keys /\ <<e, l>>[1] = e
  BY KeyParts
<1> QED BY <1>1 DEF Referred, LegNames

\* What stops to refer to a hide leaves somebody else who does, or deletes it.
LEMMA HideReferredNext ==
  ASSUME Legs # {}, LegInv, EmptyIsServed, HideReferred, [Next]_vars
  PROVE  HideReferred'
<1>0. setup' = setup
  BY DEF Next, vars, LegNext, Deliver, ScanNext, Close, Collect, Grow, Crash
<1> SUFFICES ASSUME ~SingleUse, NEW e \in hides', ~Gone(e)'
             PROVE  Referred(e)'
  BY <1>0 DEF HideReferred, SingleUse
<1>1. /\ single \in [Keys -> {"absent", "empty", "item"}] /\ stage \in [Keys -> Stages]
      /\ closers \subseteq [key : Keys, run : 0..MaxAttempts, pc : Closing]
      /\ todo \in [Events -> SUBSET Legs] /\ hides \subseteq Events
  BY DEF LegInv, LegTypeOK
<1>2. /\ lost \subseteq lost' => ~Gone(e)
      /\ lost \subseteq lost' /\ e \in hides => Referred(e)
  BY DEF Gone, HideReferred
<1>3. CASE UNCHANGED legVars
  BY <1>2, <1>3 DEF legVars, Referred, LegNames
<1>4. ASSUME NEW f \in setup.events, Receive(f) \/ SendFails(f)
      PROVE  Referred(e)'
  <2>1. f \in Events
    BY SetupEvents DEF LegInv
  <2>2. CASE e = f
    BY <1>1, <1>4, <2>1, <2>2 DEF Receive, SendFails, Referred
  <2>3. CASE e # f
    BY <1>1, <1>2, <1>4, <2>3 DEF Receive, SendFails, Referred, LegNames
  <2> QED BY <2>2, <2>3
<1>5. ASSUME NEW j \in Keys, LegStep(j) \/ Routed(j)
      PROVE  Referred(e)'
  <2>1. <<j[1], j[2]>> = j /\ j[1] \in Events /\ j[2] \in Legs
    BY KeyParts
  <2>2. lost \subseteq lost' /\ e \in hides
    BY <1>5 DEF LegStep, Send, ScanTakes, ScanFindsEmpty, LoadHide, RunLeg, Retry, PanicInLeg, Routed
  <2>3. Referred(e) /\ ~Gone(e) /\ e \in Events
    BY <1>1, <1>2, <2>2
  <2>4. CASE Send(j[1], j[2])
    <3>1. CASE e = j[1]
      BY <1>1, <2>1, <2>4, <3>1 DEF Send, Referred, LegNames
    <3>2. CASE e # j[1]
      BY <1>1, <2>1, <2>3, <2>4, <3>2, KeyParts DEF Send, Referred, LegNames
    <3> QED BY <3>1, <3>2
  <2>5. CASE ScanTakes(j[2], j[1])
    BY <1>1, <2>1, <2>3, <2>5 DEF ScanTakes, Becomes, Referred, LegNames, Stages
  <2>6. CASE ScanFindsEmpty(j[2], j[1])
    BY <2>3, <2>6 DEF ScanFindsEmpty, Referred, LegNames
  <2>7. CASE LoadHide(j)
    BY <1>1, <2>3, <2>7 DEF LoadHide, Becomes, Referred, LegNames
  <2>8. CASE RunLeg(j)
    <3>1. /\ \A k \in Keys : stage[k] # "none" => stage'[k] # "none"
          /\ UNCHANGED <<todo, single, dead, closers>>
      BY <1>1, <2>8 DEF RunLeg, Becomes
    <3> QED BY <2>3, <3>1, ReferredStays
  <2>9. CASE PanicInLeg(j)
    <3>1. e # j[1]
      BY <2>1, <2>9 DEF PanicInLeg, Gone
    <3> QED BY <1>1, <2>3, <2>9, <3>1, KeyParts DEF PanicInLeg, Becomes, Referred, LegNames
  <2>10. CASE Retry(j) \/ Routed(j)
    <3> DEFINE c == [key |-> j, run |-> tries[j], pc |-> "look"]
    <3>1. /\ stage' = [stage EXCEPT ![j] = "none"] /\ todo' = todo
          /\ single' = single \/ single' = [single EXCEPT ![j] = "item"]
          /\ dead \subseteq dead' /\ closers' = closers \cup {c} /\ c.key = j
      BY <2>10 DEF Retry, Routed, Becomes, Closes
    <3> HIDE DEF c
    <3>2. CASE e = j[1]
      BY <3>1, <3>2 DEF Referred
    <3>3. CASE e # j[1]
      BY <1>1, <2>3, <3>1, <3>3, KeyParts DEF Referred, LegNames
    <3> QED BY <3>2, <3>3
  <2> QED BY <1>5, <2>4, <2>5, <2>6, <2>7, <2>8, <2>9, <2>10 DEF LegStep
<1>6. ASSUME NEW l \in Legs, ScanDeletes(l) \/ ScanDeleteFails(l)
      PROVE  Referred(e)'
  <2>0. CASE ScanDeleteFails(l)
    BY <1>2, <2>0 DEF ScanDeleteFails, Referred, LegNames
  <2> SUFFICES ASSUME ScanDeletes(l) PROVE Referred(e)'
    BY <1>6, <2>0
  <2> DEFINE k == <<scan[l], l>>
  <2>1. /\ k \in Keys /\ k[1] = scan[l] /\ single' = [single EXCEPT ![k] = "absent"]
        /\ single[k] = "item" => k \in lost'
        /\ lost \subseteq lost' /\ UNCHANGED <<todo, hides, dead, stage, closers>>
    BY KeyParts DEF LegInv, LegTypeOK, ScanDeletes, DeleteQueue
  <2>2. Referred(e) /\ ~Gone(e) /\ e \in Events
    BY <1>1, <1>2, <2>1
  <2>3. k = <<k[1], l>>
    BY <2>1
  <2> HIDE DEF k
  <2>4. CASE k[1] = e /\ single[k] # "absent"
    <3>1. single[k] = "empty"
      BY <1>1, <2>1, <2>3, <2>4 DEF Gone
    <3>2. Served(k) /\ k \notin lost
      BY <2>1, <2>2, <2>3, <2>4, <3>1 DEF EmptyIsServed, Gone
    <3> QED BY <2>1, <2>3, <2>4, <3>2 DEF Served, Referred
  <2>5. CASE single[k] = "absent"
    BY <1>1, <2>1, <2>2, <2>5 DEF Referred, LegNames
  <2>6. CASE k[1] # e
    <3>1. \A j \in Keys : j[1] = e => single'[j] = single[j]
      BY <1>1, <2>1, <2>6
    <3> QED BY <2>1, <2>2, <3>1, ReferredStays
  <2> QED BY <2>4, <2>5, <2>6
<1>7. ASSUME NEW c \in closers, CloserLooks(c)
      PROVE  Referred(e)'
  <2>1. /\ c.key \in Keys /\ [c EXCEPT !.pc = "delete"].key = c.key
        /\ c.key[2] \in Legs /\ c.key = <<c.key[1], c.key[2]>>
    BY CloserTypes, KeyParts DEF LegInv, Closing
  <2>2. Referred(e)
    BY <1>2, <1>7 DEF CloserLooks
  <2>3. CASE single[c.key] = "item" /\ c.key[1] = e
    BY <1>7, <2>1, <2>3 DEF CloserLooks, Referred, LegNames
  <2>4. CASE single[c.key] # "item" \/ c.key[1] # e
    <3>1. /\ UNCHANGED <<todo, single, dead, stage>>
          /\ \/ c.key[1] # e /\ closers' = closers \ {c}
             \/ closers' = (closers \ {c}) \cup {[c EXCEPT !.pc = "delete"]}
      BY <1>7, <2>4 DEF CloserLooks, Ends, Proceeds
    <3>2. \A d \in closers : d.key[1] = e => \E b \in closers' : b.key[1] = e
      BY <2>1, <3>1
    <3>3. e \in Events
      BY <1>1, <1>7 DEF CloserLooks
    <3> QED BY <2>2, <3>1, <3>2, <3>3, ReferredStays
  <2> QED BY <2>3, <2>4
<1>8. ASSUME NEW c \in closers, CloserDeletes(c, CollectNames(c.key[1]))
      PROVE  Referred(e)'
  <2>1. /\ c.key \in Keys /\ c.key = <<c.key[1], c.key[2]>> /\ [c EXCEPT !.pc = "unhide"].key = c.key
    BY CloserTypes, KeyParts DEF LegInv, Closing
  <2>2. Referred(e) /\ e \in Events
    BY <1>1, <1>2, <1>8 DEF CloserDeletes, DeleteQueue
  <2>3. /\ single' = [single EXCEPT ![c.key] = "absent"] /\ UNCHANGED <<todo, dead, stage>>
        /\ \/ closers' = closers \ {c} /\ LegNames(single', c.key[1])
           \/ closers' = (closers \ {c}) \cup {[c EXCEPT !.pc = "unhide"]}
    BY <1>8 DEF CloserDeletes, DeleteQueue, CollectNames, Ends, Proceeds
  <2>4. CASE e = c.key[1]
    BY <2>1, <2>3, <2>4 DEF Referred, LegNames
  <2>5. CASE e # c.key[1]
    <3>1. \A k \in Keys : k[1] = e => single'[k] = single[k]
      BY <1>1, <2>1, <2>3, <2>5
    <3>2. \A d \in closers : d.key[1] = e => d \in closers'
      BY <2>3, <2>5
    <3> QED BY <2>2, <2>3, <3>1, <3>2, ReferredStays
  <2> QED BY <2>4, <2>5
<1>9. ASSUME NEW c \in closers, CloserUnhides(c) \/ CloserFails(c)
      PROVE  Referred(e)'
  <2>1. CASE CloserUnhides(c)
    BY <1>2, <2>1 DEF CloserUnhides, Ends, Referred, LegNames
  <2>2. CASE CloserFails(c)
    <3>1. /\ c.key[2] \in Legs /\ c.key = <<c.key[1], c.key[2]>> /\ c.key \in lost'
          /\ lost \subseteq lost' /\ closers' = closers \ {c}
          /\ UNCHANGED <<todo, hides, single, dead, stage>>
      BY <2>2, CloserTypes, KeyParts DEF LegInv, CloserFails, Ends
    <3>2. c.key[1] # e /\ Referred(e) /\ e \in Events
      BY <1>1, <1>2, <3>1 DEF Gone
    <3> QED BY <3>1, <3>2, ReferredStays
  <2> QED BY <1>9, <2>1, <2>2
<1>10. CASE LegCrash
  <2>1. Referred(e) /\ e \in Events
    BY <1>1, <1>2, <1>10 DEF LegCrash
  <2>2. \A l \in Legs : /\ stage[<<e, l>>] = "none" /\ l \notin todo[e]
                       /\ \A c \in closers : c.key # <<e, l>>
    <3> SUFFICES ASSUME NEW l \in Legs
                 PROVE  /\ stage[<<e, l>>] = "none" /\ l \notin todo[e]
                        /\ \A c \in closers : c.key # <<e, l>>
      OBVIOUS
    <3>1. <<e, l>> \in Keys /\ <<e, l>>[1] = e /\ <<e, l>>[2] = l /\ <<e, l>> \notin lost'
      BY <2>1, KeyParts DEF Gone
    <3> QED BY <1>10, <3>1 DEF LegCrash
  <2>3. \A c \in closers : c.key[1] # e
    <3>1. \A c \in closers : c.key[2] \in Legs /\ c.key = <<c.key[1], c.key[2]>>
      BY CloserTypes, KeyParts DEF LegInv
    <3> QED BY <2>2, <3>1
  <2>4. todo[e] = {}
    BY <1>1, <2>1, <2>2
  <2> QED BY <1>10, <2>1, <2>2, <2>3, <2>4 DEF LegCrash, Referred, LegNames
<1>11. CASE UNCHANGED vars
  BY <1>3, <1>11 DEF vars
<1> QED BY <1>3, <1>4, <1>5, <1>6, <1>7, <1>8, <1>9, <1>10, <1>11, CollectLeaves
        DEF Next, LegNext, Deliver, ScanNext, Close, Crash

\* worker.go:482-485: without a fan-in the last leg that is through deletes the
\* shared hide, in whatever order legs, retries and scan come, unless an item was
\* lost or is dead.
THEOREM HideIsReclaimed ==
  ASSUME Legs # {}
  PROVE  Spec => []HideReclaimedWithoutFanIn
<1>1. Init => EmptyIsServed /\ HideReferred
  BY DEF Init, LegInit, EmptyIsServed, HideReferred
<1>2. LegInv /\ EmptyIsServed /\ HideReferred => HideReclaimedWithoutFanIn
  BY DEF LegInv, LegTypeOK, HideReferred, Referred, HideReclaimedWithoutFanIn, HideReclaimed, Over
<1>3. FanInv => LegInv
  BY DEF FanInv
<1> QED BY <1>1, <1>2, <1>3, FanInit, FanNext, EmptyIsServedNext, HideReferredNext, PTL DEF Spec

-----------------------------------------------------------------------------
(* SiblingsKeepHide, where collect_size is the number of routes.            *)

\* What is known of where an output is.
LEMMA WhereArrived ==
  ASSUME Inv
  PROVE  /\ KeysOf(joined) \cup Held \cup parked \cup decided \cup dropped = arrived
         /\ KeysOf(joined) \subseteq Keys /\ arrived \subseteq Keys
         /\ tick.items \in Seq(Member)
         /\ tick.pc # "evict" => KeysOf(tick.items) = {}
  BY KeysByIndex DEF Inv, Partition, CollectTypeOK, GroupsApart

\* Nothing takes an arrival back.
LEMMA ArrivedGrows ==
  [CollectNext]_<<setup, collectVars>> => arrived \subseteq arrived'
  BY DEF CollectNext, Arrive, CollectScan, TakesQueue, FindsEmpty, EvictsQueue, EvictionFails,
     TakesStatic, EvictsStatic, Parks, Purges, PurgeFails, HandleGroup, RunGroup, PurgesOwn,
     PurgeOwnFails, FailGroup, PutsBack, PanicInGroup, Age, CollectCrash, collectVars

\* Groups and the eviction have what belongs to one event, and a group that was
\* ever taken had all its legs.
LEMMA GroupsArrivedNext ==
  ASSUME IsFiniteSet(Legs), Size = Cardinality(Legs), Inv, SingleUse, GroupsArrived,
         [CollectNext]_<<setup, collectVars>>
  PROVE  GroupsArrived'
<1>1. arrived \subseteq arrived'
  BY ArrivedGrows
<1>2. \A e : AllArrived(e) => AllArrived(e)'
  BY <1>1 DEF AllArrived
<1> DEFINE Good(g) == /\ \A l \in Legs : <<g.event, l>> \in arrived'
                      /\ \A k \in KeysOf(g.items) : k[1] = g.event
           Evicts(t) == t.pc = "evict" =>
                          t.items # <<>> /\ \A k \in KeysOf(t.items) : k[1] = t.event
<1>3. /\ \A g \in groups : Good(g)
      /\ Evicts(tick)
  BY <1>2 DEF GroupsArrived, AllArrived
<1>4. (\A g \in groups' : Good(g)) /\ Evicts(tick') => GroupsArrived'
  BY DEF GroupsArrived, AllArrived
<1> HIDE DEF Good, Evicts
<1>5. CASE groups' \subseteq groups /\ (tick' = tick \/ tick'.pc # "evict")
  BY <1>3, <1>4, <1>5 DEF Evicts
<1>6. ASSUME NEW e \in Events, TakesQueue(e) PROVE GroupsArrived'
  <2> DEFINE h == [event |-> e, items |-> GroupOf(e), pc |-> "run"]
  <2>1. /\ groups' = groups \cup {h} /\ tick' = tick /\ arrived' = arrived
        /\ h.event = e /\ h.items = GroupOf(e) /\ Ready(e)
    BY <1>6 DEF TakesQueue, Takes
  <2> HIDE DEF h
  <2>2. KeysOf(GroupOf(e)) = {e} \X Legs /\ KeysOf(GroupOf(e)) \subseteq KeysOf(In(e))
    BY <2>1, GroupIsWhole, GroupKeys DEF Inv
  <2>3. KeysOf(In(e)) \subseteq arrived
    BY QueueKeys, WhereArrived DEF Inv
  <2>4. \A l \in Legs : <<e, l>> \in arrived'
    BY <2>1, <2>2, <2>3
  <2>5. Good(h)
    BY <2>1, <2>2, <2>4 DEF Good
  <2> QED BY <1>3, <1>4, <2>1, <2>5
<1>7. ASSUME NEW e \in Events, EvictsQueue(e) PROVE GroupsArrived'
  <2>1. /\ groups' = groups /\ tick'.items = In(e) /\ tick'.event = e /\ In(e) # <<>>
    BY <1>7 DEF EvictsQueue, Evicting, Stale, Range
  <2>2. Evicts(tick')
    BY <2>1, QueueKeys DEF Evicts, Inv
  <2> QED BY <1>3, <1>4, <2>1, <2>2
<1>8. CASE CollectScan
  <2>1. \A e \in Events :
          FindsEmpty(e) \/ EvictionFails(e) => groups' = groups /\ tick'.pc = "purge"
    BY DEF FindsEmpty, EvictionFails, Purging
  <2>2. \A e \in Events : ~TakesStatic(e) /\ ~EvictsStatic(e)
    BY DEF TakesStatic, EvictsStatic
  <2>3. Parks \/ Purges \/ PurgeFails => groups' = groups /\ tick'.pc # "evict"
    <3>1. [tick EXCEPT !.pc = "purge", !.items = <<>>].pc # "evict"
      BY DEF Inv, CollectTypeOK
    <3>2. Idle.pc # "evict"
      BY DEF Idle
    <3> QED BY <3>1, <3>2 DEF Parks, Purges, PurgeFails
  <2> QED BY <1>5, <1>6, <1>7, <1>8, <2>1, <2>2, <2>3 DEF CollectScan
<1>9. ASSUME NEW g \in groups, HandleGroup(g) PROVE GroupsArrived'
  <2>1. g \in Groups /\ g.items \in Seq(Member) /\ DistinctKeys(g.items) /\ tick' = tick
    BY <1>9, GroupTypes DEF HandleGroup, RunGroup, PurgesOwn, PurgeOwnFails, FailGroup, PutsBack,
       PanicInGroup
  <2>2. CASE groups' = groups \ {g}
    BY <1>5, <2>1, <2>2
  <2>3. ASSUME NEW h, groups' = (groups \ {g}) \cup {h}, h.event = g.event,
               KeysOf(h.items) \subseteq KeysOf(g.items)
        PROVE  GroupsArrived'
    <3>1. Good(h)
      BY <1>3, <2>3 DEF Good
    <3> QED BY <1>3, <1>4, <2>1, <2>3, <3>1
  <2>4. CASE RunGroup(g)
    <3> DEFINE h == [g EXCEPT !.pc = "purge"]
    <3>1. groups' = (groups \ {g}) \cup {h} /\ h.event = g.event /\ h.items = g.items
      BY <2>1, <2>4 DEF RunGroup, Continues, Groups
    <3> HIDE DEF h
    <3> QED BY <2>3, <3>1
  <2>5. CASE FailGroup(g)
    <3> DEFINE counted == [i \in DOMAIN g.items |-> [g.items[i] EXCEPT !.tries = @ + 1]]
               h == [g EXCEPT !.items = counted, !.pc = IF Again(counted) THEN "requeue" ELSE "park"]
    <3>1. groups' = (groups \ {g}) \cup {h} /\ h.event = g.event /\ h.items = counted
      BY <2>1, <2>5 DEF FailGroup, Continues, Groups
    <3>2. KeysOf(counted) = KeysOf(g.items)
      BY <2>1, CountedKeys
    <3> HIDE DEF h, counted
    <3> QED BY <2>3, <3>1, <3>2
  <2>6. CASE PutsBack(g)
    <3> DEFINE h == [g EXCEPT !.items = Tail(@)]
    <3>1. /\ groups' = (groups \ {g}) \cup {h} \/ groups' = groups \ {g}
          /\ h.event = g.event /\ h.items = Tail(g.items)
      BY <2>1, <2>6 DEF PutsBack, Continues, Finishes, Groups
    <3>2. KeysOf(Tail(g.items)) \subseteq KeysOf(g.items)
      <4>1. g.items # <<>>
        BY <2>6, GroupTypes DEF PutsBack
      <4> QED BY <2>1, <4>1, TailKeys
    <3> HIDE DEF h
    <3> QED BY <2>2, <2>3, <3>1, <3>2
  <2>7. CASE PurgesOwn(g) \/ PurgeOwnFails(g) \/ PanicInGroup(g)
    BY <2>2, <2>7 DEF PurgesOwn, PurgeOwnFails, PanicInGroup, Finishes
  <2> QED BY <1>9, <2>4, <2>5, <2>6, <2>7 DEF HandleGroup
<1>10. ASSUME NEW k \in Keys, Arrive(k) PROVE GroupsArrived'
  BY <1>5, <1>10 DEF Arrive
<1>11. ASSUME NEW i \in DOMAIN joined, Age(i) PROVE GroupsArrived'
  BY <1>5, <1>11 DEF Age
<1>12. CASE CollectCrash
  BY <1>5, <1>12 DEF CollectCrash, Idle
<1>13. CASE UNCHANGED <<setup, collectVars>>
  BY <1>5, <1>13 DEF collectVars
<1> QED BY <1>8, <1>9, <1>10, <1>11, <1>12, <1>13 DEF CollectNext

\* An event of which something has arrived and nothing is dropped, whose queue is
\* empty while no eviction is under way, has arrived as a whole or is parked.
LEMMA EmptyMeans ==
  ASSUME Inv, WholeDecisions, GroupsArrived, tick.pc # "evict",
         NEW e \in Events, ~Dropped(e), In(e) = <<>>, NEW l \in Legs, <<e, l>> \in arrived
  PROVE  AllArrived(e) \/ \E k \in parked : k[1] = e
<1> DEFINE k == <<e, l>>
<1>1. k[1] = e /\ k \in Keys /\ k \notin dropped
  BY KeyParts DEF Dropped
<1>2. k \in KeysOf(joined) \cup Held \cup parked \cup decided
  BY <1>1, WhereArrived
<1>3. k \notin KeysOf(joined)
  <2>1. KeysOf(In(e)) = {j \in KeysOf(joined) : j[1] = e} /\ In(e) \in Seq(Member)
    BY QueueKeys DEF Inv
  <2>2. KeysOf(In(e)) = {}
    BY <2>1, KeysByIndex
  <2> QED BY <1>1, <2>1, <2>2
<1>4. CASE k \in Held
  <2>1. KeysOf(tick.items) = {}
    BY WhereArrived
  <2>2. PICK g \in groups : k \in KeysOf(g.items)
    BY <1>4, <2>1, HeldMeans
  <2> QED BY <1>1, <2>2 DEF GroupsArrived
<1>5. CASE k \in decided
  BY <1>5, WhereArrived DEF WholeDecisions, AllArrived
<1> QED BY <1>1, <1>2, <1>3, <1>4, <1>5

\* What waits while a queue is about to be purged stays, or is dropped with it.
LEMMA WaitingStays ==
  ASSUME Inv, tick.pc = "purge", [CollectNext]_<<setup, collectVars>>, NEW k \in KeysOf(joined)
  PROVE  k \in KeysOf(joined') \cup dropped'
<1>1. joined \in Seq(Member)
  BY DEF Inv, CollectTypeOK
<1>2. ASSUME NEW m \in Member, Put(m) PROVE k \in KeysOf(joined')
  BY <1>1, <1>2, AppendKeys DEF Put
<1>3. ASSUME NEW e, DeleteQueueOf(e) PROVE k \in KeysOf(joined') \cup dropped'
  BY <1>3, DeleteKeys
<1>4. ASSUME NEW j \in Keys, Arrive(j) PROVE k \in KeysOf(joined')
  <2>1. [key |-> j, tries |-> 0, old |-> FALSE] \in Member
    BY DEF Member
  <2> QED BY <1>2, <1>4, <2>1 DEF Arrive
<1>5. ASSUME NEW g \in groups, HandleGroup(g) PROVE k \in KeysOf(joined') \cup dropped'
  <2>1. CASE PutsBack(g)
    <3>1. g.items \in Seq(Member) /\ g.items # <<>> /\ DistinctKeys(g.items)
      BY <2>1, GroupTypes DEF PutsBack
    <3>2. Head(g.items) \in Member
      BY <3>1, TailKeys
    <3>3. Timeouts \in BOOLEAN /\ Head(g.items).old \in BOOLEAN
      BY <3>2, CollectAssumption DEF Member
    <3>4. \A old \in {Head(g.items).old, Timeouts} : [Head(g.items) EXCEPT !.old = old] \in Member
      BY <3>2, <3>3 DEF Member
    <3> QED BY <1>2, <2>1, <3>4 DEF PutsBack
  <2> QED BY <1>3, <1>5, <2>1 DEF HandleGroup, RunGroup, PurgesOwn, PurgeOwnFails, FailGroup,
          PanicInGroup
<1>6. CASE CollectScan
  BY <1>3, <1>6 DEF CollectScan, TakesQueue, FindsEmpty, EvictsQueue, EvictionFails, TakesStatic,
     EvictsStatic, Parks, Purges, PurgeFails
<1>7. ASSUME NEW i \in DOMAIN joined, Age(i) PROVE k \in KeysOf(joined')
  BY <1>7, AgeKeys
<1>8. CASE CollectCrash
  BY <1>8 DEF CollectCrash
<1>9. CASE UNCHANGED <<setup, collectVars>>
  BY <1>9 DEF collectVars
<1> QED BY <1>4, <1>5, <1>6, <1>7, <1>8, <1>9 DEF CollectNext

\* The file of an event goes when the event is decided or parked, or drops what it
\* has; what has been parked keeps a name in the directory.
LEMMA FileKeptNext ==
  ASSUME Inv, SingleUse, WholeDecisions, GroupsArrived, NEW e \in Events, ~Dropped(e),
         ~Dropped(e)', FileKept(e), [CollectNext]_<<setup, collectVars>>
  PROVE  FileKept(e)'
<1> DEFINE Some  == \E l \in Legs : <<e, l>> \in arrived
           Names == \E k \in parked : k[1] = e
           Waits == \E k \in KeysOf(joined) : k[1] = e
<1>0. setup' = setup /\ SingleUse'
  BY DEF CollectNext, SingleUse
<1>1. /\ Some => e \in files \/ Names \/ AllArrived(e)
      /\ e \in files => Some
      /\ tick.pc = "purge" /\ tick.event = e => AllArrived(e) \/ Names \/ Waits
  BY DEF FileKept, CollectNames
<1>2. ASSUME arrived' = arrived, parked \subseteq parked',
             e \in files => e \in files' \/ AllArrived(e) \/ Names,
             e \in files' => e \in files \/ Some,
             tick'.pc = "purge" /\ tick'.event = e => AllArrived(e) \/ Names' \/ Waits'
      PROVE  FileKept(e)'
  <2>1. AllArrived(e)' = AllArrived(e) /\ Some' = Some /\ (Names => Names')
    BY <1>2 DEF AllArrived
  <2>2. /\ Some' => e \in files' \/ Names' \/ AllArrived(e)'
        /\ e \in files' => Some'
        /\ tick'.pc = "purge" /\ tick'.event = e => AllArrived(e)' \/ Names' \/ Waits'
    BY <1>1, <1>2, <2>1
  <2> QED BY <1>0, <2>2 DEF FileKept, CollectNames
<1>2a. ASSUME tick.pc = "purge", Waits PROVE Waits'
  <2>1. PICK k \in KeysOf(joined) : k[1] = e
    BY <1>2a
  <2>2. k = <<e, k[2]>> /\ k[2] \in Legs
    BY <2>1, WhereArrived, KeyParts
  <2>3. k \notin dropped'
    BY <2>2 DEF Dropped
  <2> QED BY <1>2a, <2>1, <2>3, WaitingStays
<1>3. ASSUME UNCHANGED <<files, parked, arrived>>, tick' = tick \/ tick'.pc # "purge"
      PROVE  FileKept(e)'
  BY <1>1, <1>2, <1>3, <1>2a
<1>4. ASSUME NEW k \in Keys, Arrive(k) PROVE FileKept(e)'
  <2>1. /\ files' = files \cup {k[1]} /\ arrived' = arrived \cup {k} /\ UNCHANGED <<tick, parked>>
        /\ k = <<k[1], k[2]>> /\ k[2] \in Legs
    BY <1>4, KeyParts DEF Arrive, Put
  <2>2. /\ Some' => e \in files' \/ Names' \/ AllArrived(e)'
        /\ e \in files' => Some'
        /\ tick'.pc = "purge" /\ tick'.event = e => AllArrived(e)' \/ Names' \/ Waits'
    BY <1>1, <1>2a, <2>1, KeyParts DEF AllArrived
  <2> QED BY <1>0, <2>2 DEF FileKept, CollectNames
<1>5. ASSUME NEW f \in Events, FindsEmpty(f) PROVE FileKept(e)'
  <2>1. /\ UNCHANGED <<files, parked, arrived>> /\ tick'.event = f
        /\ tick.pc = "idle" /\ f \in files /\ In(f) = <<>>
    BY <1>5 DEF FindsEmpty, Purging
  <2>2. f = e => AllArrived(e) \/ Names
    BY <1>1, <2>1, EmptyMeans
  <2> QED BY <1>2, <2>1, <2>2
<1>6. CASE Parks
  <2>1. /\ tick.pc = "evict" /\ UNCHANGED <<files, arrived>>
        /\ parked' = parked \cup KeysOf(tick.items)
        /\ tick' = Idle \/ tick' = [tick EXCEPT !.pc = "purge", !.items = <<>>]
    BY <1>6 DEF Parks
  <2>2. tick.items # <<>> /\ \A k \in KeysOf(tick.items) : k[1] = tick.event
    BY <2>1 DEF GroupsArrived
  <2>3. \E k \in KeysOf(tick.items) : k[1] = tick.event
    BY <2>2, WhereArrived, KeysByIndex
  <2>4. tick'.pc = "purge" => tick'.event = tick.event
    <3>1. Idle.pc = "idle"
      BY DEF Idle
    <3>2. [tick EXCEPT !.pc = "purge", !.items = <<>>].event = tick.event
      BY DEF Inv, CollectTypeOK
    <3> QED BY <2>1, <3>1, <3>2
  <2> QED BY <1>2, <2>1, <2>3, <2>4
<1>7. ASSUME NEW f, DeleteQueueOf(f), UNCHANGED <<parked, arrived>>,
             f = e => AllArrived(e) \/ Names \/ Waits,
             tick' = tick \/ tick'.pc # "purge"
      PROVE  FileKept(e)'
  <2>1. f = e => AllArrived(e) \/ Names
    <3> SUFFICES ASSUME f = e, NEW k \in KeysOf(joined), k[1] = e PROVE FALSE
      BY <1>7
    <3>1. k = <<e, k[2]>> /\ k[2] \in Legs
      BY WhereArrived, KeyParts
    <3>2. k \in KeysOf(In(f))
      BY QueueKeys DEF Inv
    <3>3. k \in dropped'
      BY <1>7, <3>2, DeleteKeys
    <3> QED BY <3>1, <3>3 DEF Dropped
  <2>2. e \in files => e \in files' \/ AllArrived(e) \/ Names
    BY <1>7, <2>1 DEF DeleteQueueOf
  <2>3. files' \subseteq files
    BY <1>7 DEF DeleteQueueOf
  <2> QED BY <1>1, <1>2, <1>7, <1>2a, <2>2, <2>3
<1>8. CASE Purges
  <2>1. /\ DeleteQueueOf(tick.event) /\ UNCHANGED <<parked, arrived>>
        /\ tick.pc = "purge" /\ tick'.pc # "purge"
    BY <1>8 DEF Purges, Idle
  <2>2. PICK f : f = tick.event
    OBVIOUS
  <2>3. DeleteQueueOf(f)
    BY <2>1, <2>2
  <2> QED BY <1>1, <1>7, <2>1, <2>2, <2>3
<1>9. CASE CollectScan
  <2>1. \A f \in Events : TakesQueue(f) \/ EvictsQueue(f)
          => UNCHANGED <<files, parked, arrived>> /\ (tick' = tick \/ tick'.pc # "purge")
    BY DEF TakesQueue, EvictsQueue, Evicting
  <2>2. \A f \in Events : ~TakesStatic(f) /\ ~EvictsStatic(f)
    BY DEF TakesStatic, EvictsStatic
  <2>3. ASSUME NEW f \in Events, EvictionFails(f) PROVE FileKept(e)'
    <3>1. /\ UNCHANGED <<joined, files, parked, arrived>> /\ tick'.event = f /\ Stale(f)
      BY <2>3 DEF EvictionFails, Purging
    <3>2. In(f) \in Seq(Member) /\ KeysOf(In(f)) = {k \in KeysOf(joined) : k[1] = f}
      BY QueueKeys DEF Inv
    <3>3. PICK m \in Range(In(f)) : m.old
      BY <3>1 DEF Stale
    <3>4. m.key \in KeysOf(In(f))
      BY <3>3 DEF KeysOf
    <3>5. f = e => Waits'
      BY <3>1, <3>2, <3>4
    <3> QED BY <1>1, <1>2, <3>1, <3>5
  <2>4. PurgeFails => UNCHANGED <<files, parked, arrived>> /\ tick'.pc # "purge"
    BY DEF PurgeFails, Idle
  <2> QED BY <1>3, <1>5, <1>6, <1>8, <1>9, <2>1, <2>2, <2>3, <2>4 DEF CollectScan
<1>10. ASSUME NEW g \in groups, HandleGroup(g) PROVE FileKept(e)'
  <2>1. CASE PurgesOwn(g)
    <3>1. DeleteQueueOf(g.event) /\ UNCHANGED <<tick, parked, arrived>> /\ AllArrived(g.event)
      BY <2>1 DEF PurgesOwn, GroupsArrived
    <3>2. PICK f : f = g.event
      OBVIOUS
    <3>3. DeleteQueueOf(f) /\ AllArrived(f)
      BY <3>1, <3>2
    <3> QED BY <1>7, <3>1, <3>3
  <2>2. CASE PutsBack(g)
    <3>1. /\ UNCHANGED <<tick, arrived>>
          /\ g.items \in Seq(Member) /\ g.items # <<>> /\ DistinctKeys(g.items)
      BY <2>2, GroupTypes DEF PutsBack
    <3>2. /\ Head(g.items).key \in KeysOf(g.items)
          /\ Head(g.items) \in Member /\ Head(g.items).key \in Keys
      BY <3>1, TailKeys, MemberKey
    <3>3. /\ Head(g.items).key[1] = g.event /\ AllArrived(g.event) /\ Head(g.items).key[2] \in Legs
      BY <3>2, KeyParts DEF GroupsArrived
    <3>4. CASE g.pc = "requeue"
      <4>1. PICK old : /\ Put([Head(g.items) EXCEPT !.old = old]) /\ UNCHANGED parked
        BY <2>2, <3>4 DEF PutsBack
      <4>2. [Head(g.items) EXCEPT !.old = old].key = Head(g.items).key
        BY <3>2 DEF Member
      <4>3. files' = files \cup {g.event}
        BY <3>3, <4>1, <4>2 DEF Put
      <4>4. e = g.event => Some
        BY <3>3 DEF AllArrived
      <4> QED BY <1>1, <1>2, <1>2a, <3>1, <4>1, <4>3, <4>4
    <3>5. CASE g.pc # "requeue"
      <4>1. parked \subseteq parked' /\ UNCHANGED files
        BY <2>2, <3>5 DEF PutsBack
      <4> QED BY <1>1, <1>2, <1>2a, <3>1, <4>1
    <3> QED BY <3>4, <3>5
  <2>3. CASE RunGroup(g) \/ PurgeOwnFails(g) \/ FailGroup(g) \/ PanicInGroup(g)
    BY <1>3, <2>3 DEF RunGroup, PurgeOwnFails, FailGroup, PanicInGroup
  <2> QED BY <1>10, <2>1, <2>2, <2>3 DEF HandleGroup
<1>11. ASSUME NEW i \in DOMAIN joined, Age(i) PROVE FileKept(e)'
  BY <1>3, <1>11 DEF Age
<1>12. CASE CollectCrash
  BY <1>3, <1>12 DEF CollectCrash, Idle
<1>13. CASE UNCHANGED <<setup, collectVars>>
  BY <1>3, <1>13 DEF collectVars
<1> QED BY <1>4, <1>9, <1>10, <1>11, <1>12, <1>13 DEF CollectNext

\* The hide goes only when nothing in the directory has its name.
LEMMA HideKeptNext ==
  ASSUME FanInv, SingleUse, NamesKnown, NEW e \in Events,
         ~Retried(e)', FileKept(e), HideKept(e), [Next]_vars
  PROVE  HideKept(e)'
<1>0. arrived \subseteq arrived' /\ LegTypeOK
  BY FanStep, ArrivedGrows DEF FanInv, LegInv
<1>1. AllArrived(e) => AllArrived(e)'
  BY <1>0 DEF AllArrived
<1>2. ASSUME received' = received, e \in hides => e \in hides' \/ AllArrived(e),
             \A c \in closers' : c.key[1] = e /\ c \notin closers =>
               c.key \in arrived' /\ (c.pc = "unhide" => AllArrived(e))
      PROVE  HideKept(e)'
  <2>1. \A c \in closers' : c.key[1] = e => c.key \in arrived' /\ (c.pc = "unhide" => AllArrived(e)')
    BY <1>0, <1>1, <1>2 DEF HideKept
  <2>2. e \in received' => e \in hides' \/ AllArrived(e)'
    BY <1>1, <1>2 DEF HideKept
  <2> QED BY <2>1, <2>2 DEF HideKept
<1>3. CASE UNCHANGED <<received, hides, closers>>
  BY <1>2, <1>3
<1>4. ASSUME NEW f \in setup.events, Receive(f) PROVE HideKept(e)'
  <2>1. /\ closers' = closers /\ received' = received \cup {f} /\ hides' = hides \cup {f}
    BY <1>4 DEF Receive
  <2>2. \A c \in closers' : c.key[1] = e => c.key \in arrived' /\ (c.pc = "unhide" => AllArrived(e)')
    BY <1>0, <1>1, <2>1 DEF HideKept
  <2>3. e \in received' => e \in hides' \/ AllArrived(e)'
    BY <1>1, <2>1 DEF HideKept
  <2> QED BY <2>2, <2>3 DEF HideKept
<1>5. ASSUME NEW f \in setup.events PROVE ~SendFails(f)
  BY DEF SendFails, NamesKnown
<1>6. ASSUME NEW k \in Keys, LegStep(k) PROVE HideKept(e)'
  <2>1. CASE Retry(k)
    <3> DEFINE c == [key |-> k, run |-> tries[k], pc |-> "look"]
    <3>1. /\ closers' = closers \cup {c} /\ UNCHANGED <<received, hides>> /\ c.key = k
          /\ tries' = [tries EXCEPT ![k] = @ + 1] /\ tries[k] \in Nat /\ tries'[k] = tries[k] + 1
      BY <1>0, <2>1, LegAssumption DEF Retry, Closes, LegTypeOK
    <3>2. k[1] # e
      <4>1. tries'[k] > 0
        BY <3>1
      <4> QED BY <4>1, KeyParts DEF Retried
    <3> HIDE DEF c
    <3> QED BY <1>2, <3>1, <3>2
  <2>2. CASE ~Retry(k)
    BY <1>3, <1>6, <2>2 DEF LegStep, Send, ScanTakes, ScanFindsEmpty, LoadHide, RunLeg, PanicInLeg
  <2> QED BY <2>1, <2>2
<1>7. ASSUME NEW k \in Keys, Deliver(k) PROVE HideKept(e)'
  <2> DEFINE c == [key |-> k, run |-> tries[k], pc |-> "look"]
  <2>1. /\ closers' = closers \cup {c} /\ UNCHANGED <<received, hides>>
        /\ c.key = k /\ c.pc = "look"
    BY <1>7 DEF Deliver, Routed, Closes
  <2> HIDE DEF c
  <2>2. k \in arrived'
    BY <1>7 DEF Deliver, Arrive, SingleUse, NamesKnown
  <2> QED BY <1>2, <2>1, <2>2
<1>8. ASSUME NEW c \in closers, Close(c) PROVE HideKept(e)'
  <2>1. /\ \A pc \in Closing : [c EXCEPT !.pc = pc].key = c.key /\ [c EXCEPT !.pc = pc].pc = pc
        /\ c.key[1] \in Events /\ c.key[2] \in Legs /\ c.key = <<c.key[1], c.key[2]>>
    BY <1>0, CloserTypes, KeyParts
  <2>2. CASE CloserLooks(c)
    <3> DEFINE d == [c EXCEPT !.pc = "delete"]
    <3>1. /\ closers' \subseteq closers \cup {d} /\ UNCHANGED <<received, hides>>
          /\ d.key = c.key /\ d.pc = "delete"
      BY <2>1, <2>2 DEF CloserLooks, Ends, Proceeds, Closing
    <3> HIDE DEF d
    <3>2. c.key[1] = e => c.key \in arrived'
      BY <1>0 DEF HideKept
    <3> QED BY <1>2, <3>1, <3>2
  <2>3. CASE CloserDeletes(c, CollectNames(c.key[1]))
    <3> DEFINE d == [c EXCEPT !.pc = "unhide"]
    <3>1. /\ UNCHANGED <<received, hides>> /\ d.key = c.key
          /\ \/ closers' \subseteq closers
             \/ closers' \subseteq closers \cup {d} /\ ~CollectNames(c.key[1])
      BY <2>1, <2>3 DEF CloserDeletes, Ends, Proceeds, Closing, NamesKnown
    <3> HIDE DEF d
    <3>2. CASE closers' \subseteq closers
      BY <1>2, <3>1, <3>2
    <3>3. CASE closers' \subseteq closers \cup {d} /\ ~CollectNames(c.key[1])
      <4>1. c.key[1] = e => c.key \in arrived' /\ AllArrived(e)
        BY <1>0, <2>1, <3>3 DEF HideKept, FileKept
      <4> QED BY <1>2, <3>1, <3>3, <4>1
    <3> QED BY <3>1, <3>2, <3>3
  <2>4. CASE CloserUnhides(c)
    <3>1. /\ closers' \subseteq closers /\ received' = received /\ hides' = hides \ {c.key[1]}
          /\ c.pc = "unhide"
      BY <2>4 DEF CloserUnhides, Ends
    <3>2. c.key[1] = e => AllArrived(e)
      BY <3>1 DEF HideKept
    <3> QED BY <1>2, <3>1, <3>2
  <2>5. CASE CloserFails(c)
    BY <1>2, <2>5 DEF CloserFails, Ends
  <2> QED BY <1>8, <2>2, <2>3, <2>4, <2>5 DEF Close
<1>9. CASE Crash
  BY <1>2, <1>9 DEF Crash, LegCrash
<1>10. CASE UNCHANGED vars \/ Collect \/ Grow
  BY <1>3, <1>10, CollectLeaves DEF vars, legVars
<1>11. ASSUME NEW l \in Legs, ScanNext(l) PROVE HideKept(e)'
  BY <1>3, <1>11 DEF ScanNext, ScanDeletes, ScanDeleteFails
<1> QED BY <1>4, <1>5, <1>6, <1>7, <1>8, <1>9, <1>10, <1>11 DEF Next, LegNext

\* Attempts are counted up, and what was dropped stays dropped.
LEMMA SpoiltStays ==
  ASSUME FanInv, [Next]_vars, NEW e \in Events, Spoilt(e)
  PROVE  Spoilt(e)'
<1>1. dropped \subseteq dropped'
  BY FanStep DEF CollectNext, Arrive, CollectScan, TakesQueue, FindsEmpty, EvictsQueue,
     EvictionFails, TakesStatic, EvictsStatic, Parks, Purges, PurgeFails, HandleGroup, RunGroup,
     PurgesOwn, PurgeOwnFails, FailGroup, PutsBack, PanicInGroup, Age, CollectCrash, collectVars,
     DeleteQueueOf
<1>2. ASSUME NEW k \in Keys, tries[k] > 0 PROVE tries'[k] > 0
  <2>1. tries \in [Keys -> 0..MaxAttempts]
    BY DEF FanInv, LegInv, LegTypeOK
  <2>2. tries' = tries \/ \E j \in Keys : tries' = [tries EXCEPT ![j] = @ + 1]
    BY CollectLeaves DEF Next, vars, legVars, Receive, SendFails, LegNext, LegStep, Send, ScanTakes,
       ScanFindsEmpty, LoadHide, RunLeg, Retry, PanicInLeg, Deliver, Routed, ScanNext, ScanDeletes,
       ScanDeleteFails, Close, CloserLooks, CloserDeletes, CloserUnhides, CloserFails, Crash, LegCrash
  <2> QED BY <1>2, <2>1, <2>2, LegAssumption
<1> QED BY <1>1, <1>2, KeyParts DEF Spoilt, Dropped, Retried

\* Both parts together, for the events that are not spoilt.
LEMMA HideHeldNext ==
  ASSUME IsFiniteSet(Legs), Size = Cardinality(Legs), FanInv, WholeDecisions, HideHeld, [Next]_vars
  PROVE  HideHeld'
<1>1. setup' = setup /\ [CollectNext]_<<setup, collectVars>> /\ Inv
  BY FanStep DEF FanInv, Next, vars, LegNext, Deliver, ScanNext, Close, Collect, Grow, Crash
<1> SUFFICES ASSUME SingleUse, NamesKnown
             PROVE  GroupsArrived' /\ \A e \in Events : (Spoilt(e) \/ (FileKept(e) /\ HideKept(e)))'
  BY <1>1 DEF HideHeld, SingleUse, NamesKnown, MayFail
<1>2. GroupsArrived /\ \A e \in Events : Spoilt(e) \/ (FileKept(e) /\ HideKept(e))
  BY DEF HideHeld
<1>3. GroupsArrived'
  BY <1>1, <1>2, GroupsArrivedNext
<1>4. ASSUME NEW e \in Events, ~Spoilt(e)' PROVE FileKept(e)' /\ HideKept(e)'
  <2>1. ~Spoilt(e) /\ FileKept(e) /\ HideKept(e)
    BY <1>2, <1>4, SpoiltStays
  <2>2. ~Dropped(e) /\ ~Dropped(e)' /\ ~Retried(e)'
    BY <1>4, <2>1 DEF Spoilt
  <2> QED BY <1>1, <1>2, <2>1, <2>2, FileKeptNext, HideKeptNext
<1> QED BY <1>3, <1>4

\* worker.go:482-485 with a fan-in of all routes (docs/GUIDE.md, "Fan-out and
\* fan-in"): the file of the collecting worker's queue keeps the shared hide from
\* the first output to the last, so that a leg that is behind finds it, unless a
\* leg was retried or an output was dropped.
THEOREM HideIsShared ==
  ASSUME IsFiniteSet(Legs), Size = Cardinality(Legs)
  PROVE  Spec => []SiblingsKeepHide
<1>1. Init => HideHeld /\ GroupsWhole /\ WholeDecisions
  BY DEF Init, LegInit, CollectInit, HideHeld, GroupsArrived, FileKept, HideKept, Idle,
     GroupsWhole, WholeDecisions
<1>2. FanInv /\ HideHeld => SiblingsKeepHide
  <2> SUFFICES ASSUME FanInv, HideHeld, SingleUse, NamesKnown,
                      NEW k \in Keys, Active(k), ~Spoilt(k[1])
               PROVE  k[1] \in hides
    BY DEF SiblingsKeepHide, Spoilt
  <2>1. k[1] \in Events /\ k[2] \in Legs /\ <<k[1], k[2]>> = k
    BY KeyParts
  <2>2. k[1] \in received /\ k \notin arrived
    BY DEF Active, Pending, FanInv, LegInv, OneItem
  <2>3. ~AllArrived(k[1])
    BY <2>1, <2>2 DEF AllArrived
  <2> QED BY <2>1, <2>2, <2>3 DEF HideHeld, HideKept
<1>3. FanInv /\ GroupsWhole /\ WholeDecisions /\ [Next]_vars => GroupsWhole' /\ WholeDecisions'
  BY FanStep, WholeNext DEF FanInv
<1> QED BY <1>1, <1>2, <1>3, FanInit, FanNext, HideHeldNext, PTL DEF Spec
=============================================================================
