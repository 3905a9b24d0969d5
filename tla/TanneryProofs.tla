---------------------------- MODULE TanneryProofs ----------------------------
(***************************************************************************)
(* Proofs about Tannery, for any installation whose queues are static: any *)
(* routes, clients, limits, operators, failing saves and crashes.  What    *)
(* was answered with 202 is kept (AnsweredIsKept), and max_depth is        *)
(* exceeded by the requests that read the depth together alone             *)
(* (DepthBounded).                                                         *)
(***************************************************************************)
EXTENDS Tannery, SelectionProofs, FiniteSetTheorems

USE DEF Stages, Request

-----------------------------------------------------------------------------
(* The IDs and the untried items of a slice.                                *)

\* The IDs are those of the items.
LEMMA IdsRange ==
  ASSUME NEW T, NEW s \in Seq(T)
  PROVE  Ids(s) = {x.id : x \in Range(s)}
  BY DEF Ids, Range

\* What an operation on the slice does to its IDs.
LEMMA IdsOf ==
  ASSUME NEW T, NEW s \in Seq(T)
  PROVE  /\ \A x \in T : Ids(Append(s, x)) = Ids(s) \cup {x.id}
         /\ s # <<>> => Ids(s) = {Head(s).id} \cup Ids(Tail(s))
         /\ Ids(<<>>) = {}
         /\ \A i \in 1..Len(s) : s[i].id \in Ids(s)
<1>1. ASSUME NEW x \in T PROVE Ids(Append(s, x)) = Ids(s) \cup {x.id}
  <2>1. Append(s, x) \in Seq(T) /\ Range(Append(s, x)) = Range(s) \cup {x}
    BY RangeAppend
  <2> DEFINE a == Append(s, x)
  <2> HIDE DEF a
  <2>2. Ids(a) = {y.id : y \in Range(a)} /\ Ids(s) = {y.id : y \in Range(s)}
    BY <2>1, IdsRange DEF a
  <2>3. Range(a) = Range(s) \cup {x}
    BY <2>1 DEF a
  <2>4. Ids(a) = Ids(s) \cup {x.id}
    BY <2>2, <2>3
  <2> QED BY <2>4 DEF a
<1>2. ASSUME s # <<>> PROVE Ids(s) = {Head(s).id} \cup Ids(Tail(s))
  <2>1. Tail(s) \in Seq(T) /\ Range(s) = {Head(s)} \cup Range(Tail(s))
    BY <1>2, RangeTail
  <2> QED BY <2>1, IdsRange
<1>3. Ids(<<>>) = {}
  BY DEF Ids
<1>4. DOMAIN s = 1..Len(s)
  OBVIOUS
<1> QED BY <1>1, <1>2, <1>3, <1>4 DEF Ids

\* An untried item adds one to the untried items, a tried one nothing, ...
LEMMA FreshAppend ==
  ASSUME NEW T, NEW s \in Seq(T), NEW x \in T
  PROVE  /\ IsFiniteSet(FreshIn(s)) /\ Cardinality(FreshIn(s)) \in Nat
         /\ Cardinality(FreshIn(s)) <= Len(s)
         /\ Cardinality(FreshIn(Append(s, x))) <= Cardinality(FreshIn(s)) + 1
         /\ x.tries # 0 => FreshIn(Append(s, x)) = FreshIn(s)
<1> DEFINE a == Append(s, x)
           l == Len(s)
<1>1. /\ l \in Nat /\ DOMAIN s = 1..l /\ DOMAIN a = 1..l + 1
      /\ \A i \in 1..l : a[i] = s[i]
      /\ a[l + 1] = x
  OBVIOUS
<1> HIDE DEF a, l
<1>2. FreshIn(s) \subseteq 1..l /\ FreshIn(a) \subseteq FreshIn(s) \cup {l + 1}
  BY <1>1 DEF FreshIn
<1>3. IsFiniteSet(1..l) /\ Cardinality(1..l) = l
  BY <1>1, FS_Interval
<1>4. /\ IsFiniteSet(FreshIn(s)) /\ Cardinality(FreshIn(s)) <= l
  BY <1>2, <1>3, FS_Subset
<1>5. Cardinality(FreshIn(s)) \in Nat
  BY <1>4, FS_CardinalityType
<1>6. /\ IsFiniteSet(FreshIn(s) \cup {l + 1})
      /\ Cardinality(FreshIn(s) \cup {l + 1}) <= Cardinality(FreshIn(s)) + 1
  <2> DEFINE F == FreshIn(s)
             m == l + 1
  <2> HIDE DEF F, m
  <2>1. IsFiniteSet(F \cup {m}) /\ Cardinality(F \cup {m}) =
          IF m \in F THEN Cardinality(F) ELSE Cardinality(F) + 1
    BY <1>4, FS_AddElement DEF F
  <2>2. Cardinality(F) \in Nat
    BY <1>5 DEF F
  <2>3. Cardinality(F \cup {m}) <= Cardinality(F) + 1
    BY <2>1, <2>2
  <2> QED BY <2>1, <2>3 DEF F, m
<1>7. Cardinality(FreshIn(a)) <= Cardinality(FreshIn(s) \cup {l + 1})
  BY <1>2, <1>6, FS_Subset
<1>8. Cardinality(FreshIn(a)) \in Nat /\ Cardinality(FreshIn(s) \cup {l + 1}) \in Nat
  BY <1>2, <1>6, FS_Subset, FS_CardinalityType
<1>9. x.tries # 0 => FreshIn(a) = FreshIn(s)
  BY <1>1, <1>2 DEF FreshIn
<1> QED BY <1>4, <1>5, <1>6, <1>7, <1>8, <1>9 DEF a, l

\* ... and taking the head adds none.
LEMMA FreshTail ==
  ASSUME NEW T, NEW s \in Seq(T), s # <<>>
  PROVE  Cardinality(FreshIn(Tail(s))) <= Cardinality(FreshIn(s))
<1> DEFINE t == Tail(s)
           f == [i \in FreshIn(t) |-> i + 1]
<1>1. /\ Len(s) \in Nat /\ DOMAIN s = 1..Len(s) /\ DOMAIN t = 1..Len(s) - 1
      /\ \A i \in 1..Len(s) - 1 : t[i] = s[i + 1]
  OBVIOUS
<1> HIDE DEF t
<1>2. \A i \in FreshIn(t) : i \in Nat /\ i + 1 \in FreshIn(s)
  BY <1>1 DEF FreshIn
<1>3. f \in Injection(FreshIn(t), FreshIn(s))
  BY <1>2 DEF Injection, IsInjective
<1>4. IsFiniteSet(FreshIn(s))
  <2>1. Head(s) \in T
    OBVIOUS
  <2> QED BY <2>1, FreshAppend
<1> QED BY <1>3, <1>4, FS_Injection DEF t

\* An empty slice has none.
LEMMA FreshEmpty ==
  FreshIn(<<>>) = {} /\ Cardinality({}) = 0
  BY FS_EmptySet DEF FreshIn

-----------------------------------------------------------------------------
(* Installations.                                                           *)

\* What SetupOK says of the present one.
LEMMA SetupFacts ==
  ASSUME setup \in Setups
  PROVE  /\ setup.routes \in Seq(RouteTo(setup.queues))
         /\ \A d \in setup.defs : d.queue \in setup.queues /\ d.prefix = <<>>
         /\ IsFiniteSet(Clients)
         /\ setup.maxDepth \in [setup.queues -> Nat] /\ setup.attempts \in Nat \ {0}
         /\ \A c \in Clients : Client(c).delivery \in Nat
  BY SetupsOK DEF SetupOK, Clients, Client

\* Every route that matches is a route.
LEMMA MatchAllType ==
  ASSUME NEW T, NEW routes \in Seq(T), NEW source, NEW event
  PROVE  MatchAll(routes, source, event) \in Seq(T)
  BY SelectPicks DEF MatchAll

\* A request is refused, goes nowhere or goes to a declared queue.
LEMMA RoutingType ==
  ASSUME NEW queues, NEW routes \in Seq(RouteTo(queues)), NEW defs, NEW r,
         \A d \in defs : d.queue \in queues /\ d.prefix = <<>>
  PROVE  LET to == ResolveRouting(r, routes, defs, queues)
         IN  to = Refused \/ ~Routed(to) \/ to.queue \in queues
<1> DEFINE to == ResolveRouting(r, routes, defs, queues)
<1> SUFFICES to = Refused \/ ~Routed(to) \/ to.queue \in queues
  OBVIOUS
<1>1. \A name : CheckQueue(defs, queues, name) => name \in queues
  BY DEF CheckQueue
<1>2. CASE r.curing # ""
  <2> DEFINE named == {d \in defs : d.name = r.curing}
             def == CHOOSE d \in named : TRUE
  <2>1. named # {} => def \in defs
    OBVIOUS
  <2>2. to = ByCuring(r, defs, queues)
    BY <1>2 DEF ResolveRouting
  <2>3. \/ to = Refused
        \/ r.queue \in queues /\ to = Routing(def.name, r.queue, <<>>)
        \/ named # {} /\ to = Routing(def.name, def.queue, <<>>)
    BY <1>1, <2>2 DEF ByCuring
  <2> QED BY <2>1, <2>3 DEF Routing
<1>3. CASE r.curing = "" /\ r.queue # <<>>
  BY <1>1, <1>3 DEF ResolveRouting, Routing
<1>4. CASE r.curing = "" /\ r.queue = <<>>
  <2> DEFINE all == MatchAll(routes, r.source, r.event)
             m == Match(routes, r.source, r.event)
  <2>1. all \in Seq(RouteTo(queues))
    BY MatchAllType
  <2>2. m = NoRoute \/ m \in RouteTo(queues)
    BY <2>1 DEF Match
  <2>3. to = IF m = NoRoute THEN Routing("", <<>>, <<>>) ELSE Routing(m.curing, m.queue, m.pattern)
    BY <1>4 DEF ResolveRouting
  <2>4. m \in RouteTo(queues) => m.queue \in queues
    BY DEF RouteTo
  <2> HIDE DEF m, to
  <2> QED BY <2>2, <2>3, <2>4 DEF Routing, Routed
<1> QED BY <1>2, <1>3, <1>4

\* A sequence of one.
LEMMA SingleSeq ==
  ASSUME NEW T, NEW x \in T
  PROVE  <<x>> \in Seq(T)
<1>1. <<>> \in Seq(T) /\ Len(<<>>) = 0
  OBVIOUS
<1>2. Append(<<>>, x) \in Seq(T)
  BY <1>1
<1>3. <<x>> = Append(<<>>, x)
  OBVIOUS
<1> QED BY <1>2, <1>3

\* The queues a request goes to are declared ones.
LEMMA DestinationsType ==
  ASSUME setup \in Setups, NEW c \in Clients
  PROVE  Destinations(c) \in Seq(setup.queues)
<1>1. CASE Client(c).kind = "webhook"
  <2> DEFINE rs == MatchAll(setup.routes, Client(c).source, Client(c).event)
  <2>1. rs \in Seq(RouteTo(setup.queues))
    BY SetupFacts, MatchAllType
  <2>2. Destinations(c) = [i \in DOMAIN rs |-> rs[i].queue]
    BY <1>1 DEF Destinations
  <2> HIDE DEF rs
  <2>3. DOMAIN rs = 1..Len(rs) /\ Len(rs) \in Nat /\ \A i \in 1..Len(rs) : rs[i] \in RouteTo(setup.queues)
    BY <2>1
  <2>4. \A i \in 1..Len(rs) : rs[i].queue \in setup.queues
    BY <2>3 DEF RouteTo
  <2>5. [i \in 1..Len(rs) |-> rs[i].queue] \in Seq(setup.queues)
    BY <2>3, <2>4
  <2> QED BY <2>2, <2>3, <2>5
<1>2. CASE Client(c).kind # "webhook"
  <2> DEFINE to == ResolveRouting(Client(c), setup.routes, setup.defs, setup.queues)
  <2>1. Destinations(c) = IF to = Refused THEN <<>> ELSE IF Routed(to) THEN <<to.queue>> ELSE <<>>
    BY <1>2 DEF Destinations
  <2>2. to = Refused \/ ~Routed(to) \/ to.queue \in setup.queues
    BY SetupFacts, RoutingType
  <2> HIDE DEF to
  <2>3. Destinations(c) = <<>> \/ \E x \in setup.queues : Destinations(c) = <<x>>
    BY <2>1, <2>2
  <2>4. <<>> \in Seq(setup.queues)
    OBVIOUS
  <2>5. \A x \in setup.queues : <<x>> \in Seq(setup.queues)
    BY SingleSeq
  <2> QED BY <2>3, <2>4, <2>5, Zenon
<1> QED BY <1>1, <1>2

\* A step does not change the installation, nor what follows from it.
LEMMA SetupStays ==
  ASSUME setup' = setup
  PROVE  /\ Names' = Names /\ Clients' = Clients
         /\ ItemId' = ItemId /\ Item' = Item /\ OpType' = OpType
         /\ \A c : Client(c)' = Client(c) /\ Destinations(c)' = Destinations(c)
         /\ \A q : Places(q)' = Places(q) /\ Bound(q)' = Bound(q)
<1>1. /\ Names' = Names /\ Clients' = Clients
      /\ \A c : Client(c)' = Client(c)
  BY DEF Names, Clients, Client
<1>2. \A c : Destinations(c)' = Destinations(c)
  BY <1>1 DEF Destinations
<1>3. \A q : Places(q)' = Places(q)
  BY <1>1, <1>2 DEF Places
<1>4. \A q : Bound(q)' = Bound(q)
  BY <1>3 DEF Bound
<1>5. ItemId' = ItemId
  BY <1>1 DEF ItemId
<1>6. Item' = Item
  BY <1>1, <1>5 DEF Item
<1>7. OpType' = OpType
  BY <1>6 DEF OpType
<1> QED BY <1>1, <1>2, <1>3, <1>4, <1>5, <1>6, <1>7

\* A queue has a finite number of routes to it.
LEMMA PlacesFinite ==
  ASSUME setup \in Setups, NEW q
  PROVE  /\ IsFiniteSet(Places(q)) /\ Cardinality(Places(q)) \in Nat
         /\ \A p \in Places(q) : /\ p = <<p[1], p[2]>> /\ p[1] \in Clients
                                 /\ p[2] \in DOMAIN Destinations(p[1]) /\ Destinations(p[1])[p[2]] = q
         /\ \A c \in Clients : \A i \in DOMAIN Destinations(c) :
              Destinations(c)[i] = q => <<c, i>> \in Places(q)
<1> DEFINE Of(c) == {<<c, i>> : i \in {j \in DOMAIN Destinations(c) : Destinations(c)[j] = q}}
           f == [c \in Clients |-> Of(c)]
           S == {Of(c) : c \in Clients}
<1>1. ASSUME NEW c \in Clients PROVE IsFiniteSet(Of(c))
  <2> DEFINE d == Destinations(c)
  <2>1. DOMAIN d = 1..Len(d) /\ Len(d) \in Nat
    BY DestinationsType
  <2>2. IsFiniteSet(1..Len(d)) /\ IsFiniteSet({c})
    <3> HIDE DEF d
    <3>1. IsFiniteSet(1..Len(d))
      BY <2>1, FS_Interval
    <3> QED BY <3>1, FS_Singleton
  <2>3. IsFiniteSet({c} \X (1..Len(d)))
    BY <2>2, FS_Product
  <2>4. Of(c) \subseteq {c} \X (1..Len(d))
    BY <2>1
  <2> QED BY <2>3, <2>4, FS_Subset
<1>2. f \in Surjection(Clients, S)
  BY DEF Surjection
<1>3. IsFiniteSet(S)
  BY <1>2, SetupFacts, FS_Surjection
<1>4. \A T \in S : IsFiniteSet(T)
  BY <1>1
<1>5. IsFiniteSet(UNION S)
  <2> HIDE DEF S
  <2> QED BY <1>3, <1>4, FS_UNION
<1>6. Places(q) = UNION S
  BY DEF Places
<1>7. IsFiniteSet(Places(q)) /\ Cardinality(Places(q)) \in Nat
  BY <1>5, <1>6, FS_CardinalityType
<1> QED BY <1>7 DEF Places

-----------------------------------------------------------------------------
(* The queue operations.                                                    *)

\* No slice gets more untried items, and no file others than its slice.
NoFresh ==
  \A m \in Names :
    /\ Cardinality(FreshIn(queue'[m])) <= Cardinality(FreshIn(queue[m]))
    /\ file'[m] \in {file[m], queue'[m]}

\* The untried items of a queue are counted.
LEMMA FreshCounted ==
  ASSUME NEW s \in Seq(Item)
  PROVE  /\ IsFiniteSet(FreshIn(s)) /\ Cardinality(FreshIn(s)) \in Nat
         /\ Cardinality(FreshIn(s)) <= Len(s)
<1>1. CASE s = <<>>
  BY <1>1, FreshEmpty, FS_EmptySet
<1>2. CASE s # <<>>
  <2>1. Head(s) \in Item
    BY <1>2
  <2> QED BY <2>1, FreshAppend
<1> QED BY <1>1, <1>2

\* An enqueue that is saved makes its file complete.
LEMMA PushKeeps ==
  ASSUME TypeOK, FileBehind, setup' = setup, failed \subseteq failed',
         NEW n \in Names, NEW it \in Item, Push(n, it)
  PROVE  /\ queue' \in [Names -> Seq(Item)] /\ file' \in [Names -> Seq(Item)]
         /\ FileBehind'
         /\ InFiles \subseteq InFiles' \cup failed' /\ it.id \in InFiles'
         /\ \A m \in Names : Ids(queue'[m]) \subseteq Ids(queue[m]) \cup {it.id}
         /\ it.tries # 0 => NoFresh
<1> DEFINE a == Append(queue[n], it)
<1>1. /\ queue \in [Names -> Seq(Item)] /\ file \in [Names -> Seq(Item)] /\ queue[n] \in Seq(Item)
      /\ Names' = Names
  BY SetupStays DEF TypeOK
<1>2. a \in Seq(Item) /\ Ids(a) = Ids(queue[n]) \cup {it.id}
  BY <1>1, IdsOf
<1>3. /\ queue' = [queue EXCEPT ![n] = a] /\ file' = [file EXCEPT ![n] = a]
  BY <1>1 DEF Push
<1>4. /\ Cardinality(FreshIn(queue[n])) \in Nat
      /\ it.tries # 0 => FreshIn(a) = FreshIn(queue[n])
      /\ \A m \in Names : Cardinality(FreshIn(queue[m])) \in Nat
  BY <1>1, FreshAppend, FreshCounted
<1> HIDE DEF a
<1>5. \A m \in Names : /\ queue'[m] = IF m = n THEN a ELSE queue[m]
                       /\ file'[m] = IF m = n THEN a ELSE file[m]
  BY <1>1, <1>3
<1>6. FileBehind'
  BY <1>1, <1>5 DEF FileBehind
<1>7. InFiles \subseteq InFiles' \cup failed'
  <2>1. \A m \in Names : Ids(file[m]) \subseteq Ids(file'[m]) \cup failed'
    BY <1>1, <1>2, <1>5 DEF FileBehind
  <2> QED BY <1>1, <2>1 DEF InFiles
<1>8. it.id \in InFiles'
  BY <1>1, <1>2, <1>5 DEF InFiles
<1>9. it.tries # 0 => NoFresh
  BY <1>1, <1>4, <1>5 DEF NoFresh
<1> QED BY <1>1, <1>2, <1>3, <1>5, <1>6, <1>7, <1>8, <1>9

\* One that is not leaves the file alone.
LEMMA PushFailsKeeps ==
  ASSUME TypeOK, FileBehind, setup' = setup, failed \subseteq failed',
         NEW n \in Names, NEW it \in Item, PushFails(n, it)
  PROVE  /\ queue' \in [Names -> Seq(Item)] /\ file' \in [Names -> Seq(Item)]
         /\ FileBehind' /\ InFiles' = InFiles
         /\ \A m \in Names : Ids(queue'[m]) \subseteq Ids(queue[m]) \cup {it.id}
         /\ it.tries # 0 => NoFresh
<1> DEFINE a == Append(queue[n], it)
<1>1. /\ queue \in [Names -> Seq(Item)] /\ file \in [Names -> Seq(Item)] /\ queue[n] \in Seq(Item)
      /\ Names' = Names
  BY SetupStays DEF TypeOK
<1>2. a \in Seq(Item) /\ Ids(a) = Ids(queue[n]) \cup {it.id}
  BY <1>1, IdsOf
<1>3. queue' = [queue EXCEPT ![n] = a] /\ file' = file
  BY <1>1 DEF PushFails
<1>4. /\ it.tries # 0 => FreshIn(a) = FreshIn(queue[n])
      /\ \A m \in Names : Cardinality(FreshIn(queue[m])) \in Nat
  BY <1>1, FreshAppend, FreshCounted
<1> HIDE DEF a
<1>5. \A m \in Names : queue'[m] = IF m = n THEN a ELSE queue[m]
  BY <1>1, <1>3
<1>6. FileBehind'
  BY <1>1, <1>2, <1>3, <1>5 DEF FileBehind
<1>7. InFiles' = InFiles
  BY <1>1, <1>3 DEF InFiles
<1>8. it.tries # 0 => NoFresh
  BY <1>1, <1>3, <1>4, <1>5 DEF NoFresh
<1> QED BY <1>1, <1>2, <1>3, <1>5, <1>6, <1>7, <1>8

\* A dequeue takes the head from both.
LEMMA PopKeeps ==
  ASSUME TypeOK, FileBehind, setup' = setup, failed' = failed,
         NEW n \in Names, Pop(n)
  PROVE  /\ queue' \in [Names -> Seq(Item)] /\ file' \in [Names -> Seq(Item)]
         /\ Head(queue[n]) \in Item
         /\ FileBehind'
         /\ InFiles \subseteq InFiles' \cup failed \cup {Head(queue[n]).id}
         /\ \A m \in Names : Ids(queue'[m]) \subseteq Ids(queue[m])
         /\ NoFresh
<1> DEFINE a == Tail(queue[n])
           x == Head(queue[n])
<1>1. /\ queue \in [Names -> Seq(Item)] /\ file \in [Names -> Seq(Item)] /\ queue[n] \in Seq(Item)
      /\ Names' = Names
  BY SetupStays DEF TypeOK
<1>2. a \in Seq(Item) /\ x \in Item /\ Ids(queue[n]) = {x.id} \cup Ids(a)
  <2>1. queue[n] # <<>>
    BY DEF Pop
  <2>2. a \in Seq(Item) /\ x \in Item
    BY <1>1, <2>1
  <2>3. Ids(queue[n]) = {x.id} \cup Ids(a)
    BY <1>1, <2>1, IdsOf
  <2> QED BY <2>2, <2>3
<1>3. /\ queue' = [queue EXCEPT ![n] = a] /\ file' = [file EXCEPT ![n] = a]
  BY <1>1 DEF Pop
<1>4. /\ Cardinality(FreshIn(a)) <= Cardinality(FreshIn(queue[n]))
      /\ \A m \in Names : Cardinality(FreshIn(queue[m])) \in Nat
  BY <1>1, FreshTail, FreshCounted DEF Pop
<1> HIDE DEF a, x
<1>5. \A m \in Names : /\ queue'[m] = IF m = n THEN a ELSE queue[m]
                       /\ file'[m] = IF m = n THEN a ELSE file[m]
  BY <1>1, <1>3
<1>6. FileBehind'
  BY <1>1, <1>5 DEF FileBehind
<1>7. InFiles \subseteq InFiles' \cup failed \cup {x.id}
  BY <1>1, <1>2, <1>5 DEF InFiles, FileBehind
<1>8. NoFresh
  BY <1>1, <1>4, <1>5 DEF NoFresh
<1> QED BY <1>1, <1>2, <1>3, <1>5, <1>6, <1>7, <1>8 DEF x

\* A drain empties the slice, and the file unless the save fails.
LEMMA DrainedKeeps ==
  ASSUME TypeOK, FileBehind, setup' = setup, NEW n \in Names, Drained(n),
         \/ file' = [file EXCEPT ![n] = <<>>] /\ failed' = failed
         \/ file' = file /\ failed' = failed \cup Ids(queue[n])
  PROVE  /\ queue' \in [Names -> Seq(Item)] /\ file' \in [Names -> Seq(Item)]
         /\ FileBehind'
         /\ InFiles \subseteq InFiles' \cup failed \cup Ids(queue[n])
         /\ \A m \in Names : Ids(queue'[m]) \subseteq Ids(queue[m])
         /\ NoFresh
<1>1. /\ queue \in [Names -> Seq(Item)] /\ file \in [Names -> Seq(Item)] /\ queue[n] \in Seq(Item)
      /\ Names' = Names
  BY SetupStays DEF TypeOK
<1>2. <<>> \in Seq(Item) /\ Ids(<<>>) = {} /\ Cardinality(FreshIn(<<>>)) = 0
  BY FreshEmpty DEF Ids
<1>3. queue' = [queue EXCEPT ![n] = <<>>]
  BY DEF Drained
<1>4. \A m \in Names : Cardinality(FreshIn(queue[m])) \in Nat
  BY <1>1, FreshCounted
<1>5. \A m \in Names : queue'[m] = IF m = n THEN <<>> ELSE queue[m]
  BY <1>1, <1>3
<1>6. CASE file' = [file EXCEPT ![n] = <<>>] /\ failed' = failed
  <2>1. \A m \in Names : file'[m] = IF m = n THEN <<>> ELSE file[m]
    BY <1>1, <1>6
  <2>2. FileBehind'
    BY <1>1, <1>2, <1>5, <1>6, <2>1 DEF FileBehind
  <2>3. InFiles \subseteq InFiles' \cup failed \cup Ids(queue[n])
    BY <1>1, <2>1 DEF InFiles, FileBehind
  <2>4. NoFresh
    BY <1>2, <1>4, <1>5, <2>1 DEF NoFresh
  <2>5. queue' \in [Names -> Seq(Item)] /\ file' \in [Names -> Seq(Item)]
    BY <1>1, <1>2, <1>3, <1>6
  <2> QED BY <1>2, <1>5, <2>2, <2>3, <2>4, <2>5
<1>7. CASE file' = file /\ failed' = failed \cup Ids(queue[n])
  <2>1. FileBehind'
    BY <1>1, <1>5, <1>7 DEF FileBehind
  <2>2. InFiles \subseteq InFiles' \cup failed \cup Ids(queue[n])
    BY <1>1, <1>7 DEF InFiles
  <2>3. NoFresh
    BY <1>2, <1>4, <1>5, <1>7 DEF NoFresh
  <2>4. queue' \in [Names -> Seq(Item)] /\ file' \in [Names -> Seq(Item)]
    BY <1>1, <1>2, <1>3, <1>7
  <2> QED BY <1>2, <1>5, <2>1, <2>2, <2>3, <2>4
<1> QED BY <1>6, <1>7

-----------------------------------------------------------------------------
(* What every step has to do for the invariant.                             *)

\* Who is admitted is one of the routes to the queue.
LEMMA AdmittedCounted ==
  ASSUME setup \in Setups, NEW q
  PROVE  /\ IsFiniteSet(Admitted(q)) /\ Cardinality(Admitted(q)) \in Nat
         /\ Admitted(q) \subseteq Places(q)
         /\ Cardinality(Admitted(q)) <= Cardinality(Places(q))
<1>1. Admitted(q) \subseteq Places(q)
  BY DEF Admitted
<1>2. IsFiniteSet(Places(q))
  BY PlacesFinite
<1> QED BY <1>1, <1>2, FS_Subset, FS_CardinalityType

\* Kept IDs stay kept: then what is queued, and what was answered, is kept.
LEMMA KeptStep ==
  ASSUME Inductive, setup' = setup, Kept \subseteq Kept',
         \A n \in Names : Ids(queue'[n]) \subseteq Ids(queue[n]) \cup Kept',
         answered' \subseteq answered \cup Kept
  PROVE  QueuedIsKept' /\ AnsweredIsKept'
<1>1. Names' = Names
  BY SetupStays
<1>2. \A n \in Names : Ids(queue[n]) \subseteq Kept
  BY DEF Inductive, QueuedIsKept
<1>3. QueuedIsKept'
  BY <1>1, <1>2 DEF QueuedIsKept
<1> QED BY <1>3 DEF Inductive, AnsweredIsKept

\* A request that does not move has still sent what it had, ...
LEMMA RequestsStay ==
  ASSUME Inductive, setup' = setup, req' = req, Kept \subseteq Kept'
  PROVE  AtQueue' /\ SentIsKept'
<1>1. Clients' = Clients /\ \A c : Client(c)' = Client(c) /\ Destinations(c)' = Destinations(c)
  BY SetupStays
<1>2. AtQueue'
  BY <1>1 DEF Inductive, AtQueue
<1>3. \A c, j : Id(c, j)' = Id(c, j)
  BY <1>1 DEF Id
<1>4. SentIsKept'
  BY <1>1, <1>3 DEF Inductive, SentIsKept
<1> QED BY <1>2, <1>4

\* ... and one that moves must be at a queue of its own, with all before it sent.
LEMMA RequestMoves ==
  ASSUME Inductive, setup' = setup, Kept \subseteq Kept',
         NEW c \in Clients, NEW r, req' = [req EXCEPT ![c] = r],
         r \in Request,
         r.pc \in {"check", "scan", "send"} => r.i <= Len(Destinations(c)),
         r.pc = "put" => r.i = 1,
         r.pc = "answer" => r.i = Len(Destinations(c)) + 1,
         r.pc \in {"scan", "send", "answer"} =>
           r.sent = req[c].sent /\ \A j \in 1..r.i - 1 : Id(c, j) \in Kept'
  PROVE  /\ req' \in [Clients -> Request]
         /\ AtQueue' /\ SentIsKept'
<1>1. Clients' = Clients /\ \A b : Client(b)' = Client(b) /\ Destinations(b)' = Destinations(b)
  BY SetupStays
<1>2. /\ req \in [Clients -> Request]
      /\ req'[c] = r /\ \A b \in Clients : b # c => req'[b] = req[b]
  BY DEF Inductive, TypeOK
<1>3. req' \in [Clients -> Request]
  BY <1>2
<1>4. AtQueue'
  BY <1>1, <1>2 DEF Inductive, AtQueue
<1>5. \A b \in Clients, j \in Nat : req'[b].sent = req[b].sent => Id(b, j)' = Id(b, j)
  BY <1>1 DEF Id
<1>6. ASSUME NEW b \in Clients, req'[b].pc \in {"scan", "send", "answer"}, NEW j \in 1..req'[b].i - 1
      PROVE  Id(b, j)' \in Kept'
  <2>1. req'[b].i \in Nat \ {0}
    BY <1>3
  <2>2. j \in Nat
    BY <2>1
  <2>3. CASE b = c
    BY <1>2, <1>5, <1>6, <2>2, <2>3
  <2>4. CASE b # c
    <3>1. Id(b, j) \in Kept
      BY <1>2, <1>6, <2>4 DEF Inductive, SentIsKept
    <3> QED BY <1>2, <1>5, <2>2, <2>4, <3>1
  <2> QED BY <2>3, <2>4
<1>7. SentIsKept'
  BY <1>1, <1>6 DEF SentIsKept
<1> QED BY <1>3, <1>4, <1>7

\* A step that admits nobody and brings no untried item keeps the bounds.
LEMMA DepthStep ==
  ASSUME Inductive, setup' = setup,
         queue' \in [Names -> Seq(Item)], file' \in [Names -> Seq(Item)],
         "cli" \notin setup.ops => NoFresh,
         \A q \in setup.queues : Admitted(q)' \subseteq Admitted(q),
         "cli" \notin setup.ops =>
           op'.pc # "cli" /\ \A i \in DOMAIN op'.items : op'.items[i].tries # 0
  PROVE  TriedItems' /\ FileBounded' /\ DepthBounded'
<1> SUFFICES ASSUME "cli" \notin setup.ops PROVE TriedItems' /\ FileBounded' /\ DepthBounded'
  BY DEF TriedItems, FileBounded, DepthBounded
<1>1. /\ setup \in Setups /\ queue \in [Names -> Seq(Item)] /\ file \in [Names -> Seq(Item)]
      /\ \A q \in setup.queues : Live(q) \in Names /\ Dlq(q) \in Names
  BY DEF Inductive, TypeOK, Names, Live, Dlq
<1>2. \A m \in Names :
        /\ Cardinality(FreshIn(queue'[m])) <= Cardinality(FreshIn(queue[m]))
        /\ file'[m] \in {file[m], queue'[m]}
        /\ Cardinality(FreshIn(queue'[m])) \in Nat /\ IsFiniteSet(FreshIn(queue'[m]))
        /\ Cardinality(FreshIn(queue[m])) \in Nat
  BY <1>1, FreshCounted DEF NoFresh
<1>3. ASSUME NEW q \in setup.queues
      PROVE  FreshIn(queue'[Dlq(q)]) = {} /\ FreshIn(file'[Dlq(q)]) = {}
  <2>1. FreshIn(queue[Dlq(q)]) = {} /\ FreshIn(file[Dlq(q)]) = {}
    BY <1>3 DEF Inductive, TriedItems
  <2>2. Cardinality(FreshIn(queue'[Dlq(q)])) = 0
    <3>1. Cardinality(FreshIn(queue[Dlq(q)])) = 0
      BY <2>1, FreshEmpty
    <3> QED BY <1>1, <1>2, <1>3, <3>1
  <2>3. FreshIn(queue'[Dlq(q)]) = {}
    BY <1>1, <1>2, <1>3, <2>2, FS_EmptySet
  <2> QED BY <1>1, <1>2, <1>3, <2>1, <2>3
<1>4. TriedItems'
  BY <1>3 DEF TriedItems, Dlq
<1>5. ASSUME NEW q \in setup.queues, setup.maxDepth[q] > 0
      PROVE  /\ Cardinality(FreshIn(queue'[Live(q)])) + Cardinality(Admitted(q)') <= Bound(q)
             /\ Cardinality(FreshIn(file'[Live(q)])) <= Bound(q)
  <2>1. /\ Cardinality(FreshIn(queue[Live(q)])) + Cardinality(Admitted(q)) <= Bound(q)
        /\ Cardinality(FreshIn(file[Live(q)])) <= Bound(q)
    BY <1>5 DEF Inductive, DepthBounded, FileBounded, Fresh
  <2>2. IsFiniteSet(Admitted(q)) /\ Cardinality(Admitted(q)) \in Nat
    BY <1>1, AdmittedCounted
  <2>3. Cardinality(Admitted(q)') <= Cardinality(Admitted(q)) /\ Cardinality(Admitted(q)') \in Nat
    <3> DEFINE A == Admitted(q)
               B == Admitted(q)'
    <3>1. B \subseteq A
      BY <1>5
    <3> HIDE DEF A, B
    <3>2. IsFiniteSet(B) /\ Cardinality(B) <= Cardinality(A)
      BY <2>2, <3>1, FS_Subset DEF A
    <3>3. Cardinality(B) \in Nat
      BY <3>2, FS_CardinalityType
    <3> QED BY <3>2, <3>3 DEF A, B
  <2>4. Bound(q) \in Int
    BY <1>1, <1>5, SetupFacts, PlacesFinite DEF Bound
  <2>5. /\ Cardinality(FreshIn(queue'[Live(q)])) <= Cardinality(FreshIn(queue[Live(q)]))
        /\ file'[Live(q)] \in {file[Live(q)], queue'[Live(q)]}
        /\ Cardinality(FreshIn(queue'[Live(q)])) \in Nat
        /\ Cardinality(FreshIn(queue[Live(q)])) \in Nat
    BY <1>1, <1>2, <1>5
  <2>6. Cardinality(FreshIn(queue'[Live(q)])) + Cardinality(Admitted(q)') <= Bound(q)
    BY <2>1, <2>2, <2>3, <2>4, <2>5
  <2>7. Cardinality(FreshIn(queue'[Live(q)])) <= Bound(q)
    BY <2>3, <2>4, <2>5, <2>6
  <2> QED BY <2>1, <2>5, <2>6, <2>7
<1>6. \A q : Bound(q)' = Bound(q)
  BY SetupStays
<1>7. FileBounded'
  BY <1>5, <1>6 DEF FileBounded, Live
<1>8. DepthBounded'
  BY <1>5, <1>6 DEF DepthBounded, Fresh, Live
<1> QED BY <1>4, <1>7, <1>8

\* Nobody is admitted while no request moves.
LEMMA AdmittedStays ==
  ASSUME setup' = setup, req' = req
  PROVE  \A q : Admitted(q)' = Admitted(q)
<1>1. \A q : Places(q)' = Places(q)
  BY SetupStays
<1>2. \A c, i : Passed(c, i)' = Passed(c, i)
  BY DEF Passed
<1> QED BY <1>1, <1>2 DEF Admitted

-----------------------------------------------------------------------------
(* Requests.                                                                *)

\* What a request leaves alone, when it only moves.
LEMMA OnlyRequest ==
  ASSUME Inductive, UNCHANGED <<setup, up, work, op, done, withdrawn, failed, lost>>,
         answered' \subseteq answered \cup (Kept \cap ItemId),
         hides' \subseteq Clients \X Nat,
         req' \in [Clients -> Request],
         AtQueue', SentIsKept', FileBounded' /\ DepthBounded'
  PROVE  Inductive'
<1>1. /\ Names' = Names /\ Clients' = Clients /\ Item' = Item /\ ItemId' = ItemId /\ OpType' = OpType
      /\ UNCHANGED <<setup, up, queue, file, held, op, done, withdrawn, failed, lost>>
  BY SetupStays DEF work
<1>2. Kept' = Kept
  BY <1>1 DEF Kept, InFiles, HeldIds
<1>3. TypeOK'
  BY <1>1 DEF Inductive, TypeOK
<1>4. FileBehind'
  BY <1>1 DEF Inductive, FileBehind
<1>5. QueuedIsKept' /\ AnsweredIsKept'
  BY <1>1, <1>2 DEF Inductive, QueuedIsKept, AnsweredIsKept
<1>6. TriedItems'
  BY <1>1 DEF Inductive, TriedItems, Dlq
<1> QED BY <1>3, <1>4, <1>5, <1>6 DEF Inductive

\* Nothing is kept less when the work is not touched.
LEMMA WorkStays ==
  ASSUME setup' = setup, UNCHANGED <<queue, file, held, op, done, withdrawn, failed, lost>>
  PROVE  Kept' = Kept
  BY SetupStays DEF Kept, InFiles, HeldIds

\* The queues stay, and nobody is admitted.
LEMMA BoundsStay ==
  ASSUME Inductive, setup' = setup, UNCHANGED <<queue, file, op>>,
         \A q \in setup.queues : Admitted(q)' \subseteq Admitted(q)
  PROVE  TriedItems' /\ FileBounded' /\ DepthBounded'
<1>1. queue \in [Names -> Seq(Item)] /\ file \in [Names -> Seq(Item)]
  BY DEF Inductive, TypeOK
<1>2. NoFresh
  <2>1. \A m \in Names : Cardinality(FreshIn(queue[m])) \in Nat
    BY <1>1, FreshCounted
  <2> QED BY <2>1 DEF NoFresh
<1> QED BY <1>1, <1>2, DepthStep DEF Inductive, TriedItems

\* The request c is at a stage of its own afterwards; the others are not touched.
LEMMA AdmittedMoves ==
  ASSUME TypeOK, setup' = setup, NEW c \in Clients, NEW r, req' = [req EXCEPT ![c] = r],
         NEW q
  PROVE  \A p \in Admitted(q)' :
           /\ p \in Places(q)
           /\ p \in Admitted(q) \/ p[1] = c
           /\ p[1] = c => /\ r.pc \in {"check", "put", "scan", "send"}
                          /\ r.pc = "check" => p[2] < r.i
                          /\ r.pc \in {"scan", "send"} => p[2] >= r.i
<1> SUFFICES ASSUME NEW p \in Admitted(q)'
             PROVE  /\ p \in Places(q)
                    /\ p \in Admitted(q) \/ p[1] = c
                    /\ p[1] = c => /\ r.pc \in {"check", "put", "scan", "send"}
                                   /\ r.pc = "check" => p[2] < r.i
                                   /\ r.pc \in {"scan", "send"} => p[2] >= r.i
  OBVIOUS
<1>1. Places(q)' = Places(q) /\ setup \in Setups
  BY SetupStays DEF TypeOK
<1>2. p \in Places(q) /\ Passed(p[1], p[2])'
  BY <1>1 DEF Admitted
<1>3. p[1] \in Clients
  BY <1>1, <1>2, PlacesFinite
<1>4. req'[c] = r /\ \A b \in Clients : b # c => req'[b] = req[b]
  BY DEF TypeOK
<1>5. p[1] # c => Passed(p[1], p[2])
  BY <1>2, <1>3, <1>4 DEF Passed
<1>6. CASE p[1] # c
  BY <1>2, <1>5, <1>6 DEF Admitted
<1>7. CASE p[1] = c
  BY <1>2, <1>4, <1>7 DEF Passed
<1> QED BY <1>6, <1>7

\* Where a request goes that becomes another stage.
Moved(c, pc, i) == [req[c] EXCEPT !.pc = pc, !.i = i]

\* It stays a request, with as much sent as before.
LEMMA MovedIs ==
  ASSUME TypeOK, NEW c \in Clients, NEW i \in Nat \ {0},
         NEW pc \in Stages
  PROVE  /\ Moved(c, pc, i) \in Request
         /\ Moved(c, pc, i).pc = pc /\ Moved(c, pc, i).i = i
         /\ Moved(c, pc, i).sent = req[c].sent
         /\ Becomes(c, pc, i) => req' = [req EXCEPT ![c] = Moved(c, pc, i)]
<1>1. /\ req \in [Clients -> Request]
  BY DEF TypeOK
<1>2. req[c] \in Request
  BY <1>1
<1>3. LET z == [req[c] EXCEPT !.pc = pc, !.i = i]
      IN  /\ z \in Request
          /\ z.pc = pc /\ z.i = i /\ z.sent = req[c].sent
  BY <1>2
<1>4. Becomes(c, pc, i) => req' = [req EXCEPT ![c] = Moved(c, pc, i)]
  BY <1>1 DEF Becomes, Moved
<1> QED BY <1>3, <1>4 DEF Moved

\* The stages of a request before its queues and after the last.
LEMMA AtStages ==
  ASSUME setup \in Setups, NEW c \in Clients, NEW i \in Nat \ {0}
  PROVE  /\ Len(Destinations(c)) \in Nat /\ DOMAIN Destinations(c) = 1..Len(Destinations(c))
         /\ \A stage : At(c, i, stage) = IF i <= Len(Destinations(c)) THEN stage
                                         ELSE IF stage = "check" THEN "put" ELSE "answer"
<1>1. Len(Destinations(c)) \in Nat /\ DOMAIN Destinations(c) = 1..Len(Destinations(c))
  BY DestinationsType
<1> QED BY <1>1 DEF At

\* An accepted request has not read a depth yet.
LEMMA ReceiveKeeps ==
  ASSUME Inductive, NEW c \in Clients, Receive(c)
  PROVE  Inductive'
<1> DEFINE l == Len(Destinations(c))
           r == [pc |-> At(c, 1, "check"), sent |-> req[c].sent + 1, i |-> 1]
<1>1. /\ setup \in Setups /\ setup' = setup /\ TypeOK
      /\ UNCHANGED <<setup, up, work, op, answered>>
      /\ UNCHANGED <<queue, file, held, op, done, withdrawn, failed, lost>>
      /\ hides' \subseteq Clients \X Nat
      /\ req[c].sent \in Nat
  BY DEF Inductive, TypeOK, Receive, work, history
<1>2. l \in Nat /\ DOMAIN Destinations(c) = 1..l
      /\ At(c, 1, "check") = IF 1 <= l THEN "check" ELSE "put"
  BY <1>1, AtStages
<1>3. req' = [req EXCEPT ![c] = r]
  BY DEF Receive
<1> HIDE DEF l
<1>4. /\ r \in Request
      /\ r.i = 1 /\ r.pc = IF 1 <= l THEN "check" ELSE "put"
  BY <1>1, <1>2
<1>5. Kept' = Kept
  BY <1>1, WorkStays
<1> HIDE DEF r
<1>6. /\ req' \in [Clients -> Request]
      /\ AtQueue' /\ SentIsKept'
  BY <1>1, <1>3, <1>4, <1>5, RequestMoves DEF l
<1>7. ASSUME NEW q PROVE Admitted(q)' \subseteq Admitted(q)
  <2> SUFFICES ASSUME NEW p \in Admitted(q)', p[1] = c PROVE FALSE
    BY <1>1, <1>3, AdmittedMoves
  <2>1. p \in Places(q) /\ (r.pc = "check" => p[2] < 1)
    BY <1>1, <1>3, <1>4, AdmittedMoves
  <2>2. p[2] \in 1..l
    BY <1>1, <1>2, <2>1, PlacesFinite
  <2> QED BY <1>2, <1>4, <2>1, <2>2
<1>8. FileBounded' /\ DepthBounded'
  BY <1>1, <1>7, BoundsStay
<1> QED BY <1>1, <1>6, <1>8, OnlyRequest

\* The check that passes finds a place, which leaves one to all routes together.
LEMMA CheckDepthKeeps ==
  ASSUME Inductive, NEW c \in Clients, CheckDepth(c)
  PROVE  Inductive'
<1> DEFINE l == Len(Destinations(c))
           n == req[c].i
           pc == At(c, n + 1, "check")
           r == IF Full(Dest(c)) THEN [req[c] EXCEPT !.pc = "idle", !.i = 1]
                ELSE [req[c] EXCEPT !.pc = pc, !.i = IF pc = "put" THEN 1 ELSE n + 1]
<1>1. /\ setup \in Setups /\ setup' = setup /\ TypeOK
      /\ UNCHANGED <<setup, up, work, op, answered>>
      /\ UNCHANGED <<queue, file, held, op, done, withdrawn, failed, lost>>
      /\ hides' \subseteq Clients \X Nat
      /\ req[c] \in Request
      /\ req[c].pc = "check" /\ n \in Nat \ {0} /\ n <= l
      /\ queue \in [Names -> Seq(Item)]
  BY DEF Inductive, TypeOK, AtQueue, CheckDepth, work, history
<1>2. /\ l \in Nat /\ DOMAIN Destinations(c) = 1..l
      /\ pc = IF n + 1 <= l THEN "check" ELSE "put"
  <2>1. n + 1 \in Nat \ {0}
    BY <1>1
  <2> QED BY <1>1, <2>1, AtStages
<1>3. req' = [req EXCEPT ![c] = r]
  BY <1>1 DEF CheckDepth, Becomes, TypeOK
<1> HIDE DEF l, pc
<1>4. /\ r \in Request
      /\ r.pc = IF Full(Dest(c)) THEN "idle" ELSE IF n + 1 <= l THEN "check" ELSE "put"
      /\ r.i = IF ~Full(Dest(c)) /\ n + 1 <= l THEN n + 1 ELSE 1
  <2>1. CASE Full(Dest(c))
    <3>1. r = Moved(c, "idle", 1)
      BY <2>1 DEF Moved
    <3> HIDE DEF r
    <3> QED BY <1>1, <2>1, <3>1, MovedIs
  <2>2. CASE ~Full(Dest(c)) /\ n + 1 <= l
    <3>1. r = Moved(c, "check", n + 1) /\ n + 1 \in Nat \ {0}
      BY <1>1, <1>2, <2>2 DEF Moved
    <3> HIDE DEF r
    <3> QED BY <1>1, <2>2, <3>1, MovedIs
  <2>3. CASE ~Full(Dest(c)) /\ ~(n + 1 <= l)
    <3>1. r = Moved(c, "put", 1)
      BY <1>1, <1>2, <2>3 DEF Moved
    <3> HIDE DEF r
    <3> QED BY <1>1, <2>3, <3>1, MovedIs
  <2> QED BY <2>1, <2>2, <2>3
<1>5. Kept' = Kept
  BY <1>1, WorkStays
<1> HIDE DEF r
<1>6. /\ req' \in [Clients -> Request]
      /\ AtQueue' /\ SentIsKept'
  BY <1>1, <1>2, <1>3, <1>4, <1>5, RequestMoves DEF l
<1>7. ASSUME NEW q, Dest(c) # q \/ Full(Dest(c)) PROVE Admitted(q)' \subseteq Admitted(q)
  <2> SUFFICES ASSUME NEW p \in Admitted(q)', p[1] = c PROVE p \in Admitted(q)
    BY <1>1, <1>3, AdmittedMoves
  <2>1. p \in Places(q) /\ r.pc # "idle" /\ (r.pc = "check" => p[2] < r.i)
    BY <1>1, <1>3, <1>4, AdmittedMoves
  <2>2. p[2] \in 1..l /\ Destinations(c)[p[2]] = q
    BY <1>1, <1>2, <2>1, PlacesFinite
  <2>3. p[2] # n
    BY <1>4, <1>7, <2>1, <2>2 DEF Dest
  <2>4. p[2] < n
    BY <1>1, <1>2, <1>4, <2>1, <2>2, <2>3
  <2> QED BY <1>1, <2>1, <2>4 DEF Admitted, Passed
<1>8. FileBounded'
  <2>1. \A q : Bound(q)' = Bound(q)
    BY <1>1, SetupStays
  <2> QED BY <1>1, <2>1 DEF Inductive, FileBounded, Live
<1>9. ASSUME "cli" \notin setup.ops, NEW q \in setup.queues, setup.maxDepth[q] > 0
      PROVE  Cardinality(FreshIn(queue[Live(q)])) + Cardinality(Admitted(q)') <= Bound(q)
  <2>1. /\ IsFiniteSet(Places(q)) /\ Cardinality(Places(q)) \in Nat /\ setup.maxDepth[q] \in Nat
        /\ IsFiniteSet(Admitted(q)) /\ Cardinality(Admitted(q)) \in Nat
    BY <1>1, <1>9, PlacesFinite, AdmittedCounted, SetupFacts
  <2>2. Live(q) \in Names /\ queue[Live(q)] \in Seq(Item)
    BY <1>1 DEF Live, Names
  <2>3. Cardinality(FreshIn(queue[Live(q)])) \in Nat /\ Cardinality(FreshIn(queue[Live(q)])) <= Len(queue[Live(q)])
    BY <2>2, FreshCounted
  <2> DEFINE A == Admitted(q)'
  <2>4. IsFiniteSet(A) /\ Cardinality(A) \in Nat /\ Cardinality(A) <= Cardinality(Places(q))
    <3>1. A \subseteq Places(q)
      BY <1>1, <1>3, AdmittedMoves
    <3> HIDE DEF A
    <3> QED BY <2>1, <3>1, FS_Subset, FS_CardinalityType
  <2>5. CASE Dest(c) # q \/ Full(Dest(c))
    <3>1. A \subseteq Admitted(q)
      BY <1>7, <2>5
    <3>2. Cardinality(A) <= Cardinality(Admitted(q))
      <4> HIDE DEF A
      <4> QED BY <2>1, <3>1, FS_Subset
    <3>3. Cardinality(FreshIn(queue[Live(q)])) + Cardinality(Admitted(q)) <= Bound(q)
      BY <1>9 DEF Inductive, DepthBounded, Fresh
    <3>4. Bound(q) \in Int
      BY <2>1 DEF Bound
    <3> HIDE DEF A
    <3>5. Cardinality(FreshIn(queue[Live(q)])) + Cardinality(A) <= Bound(q)
      BY <2>1, <2>3, <2>4, <3>2, <3>3, <3>4
    <3> QED BY <3>5 DEF A
  <2>6. CASE Dest(c) = q /\ ~Full(Dest(c))
    <3>1. Len(queue[Live(q)]) < setup.maxDepth[q] /\ Len(queue[Live(q)]) \in Nat
      BY <1>9, <2>1, <2>2, <2>6 DEF Full
    <3> HIDE DEF A
    <3>2. Cardinality(FreshIn(queue[Live(q)])) + Cardinality(A) <= Bound(q)
      BY <2>1, <2>3, <2>4, <3>1 DEF Bound
    <3> QED BY <3>2 DEF A
  <2> QED BY <2>5, <2>6
<1>10. DepthBounded'
  <2>1. \A q : Bound(q)' = Bound(q)
    BY <1>1, SetupStays
  <2> QED BY <1>1, <1>9, <2>1 DEF DepthBounded, Fresh, Live
<1> QED BY <1>1, <1>6, <1>8, <1>10, OnlyRequest

\* IDs are of either kind.
LEMMA IdType ==
  ASSUME TypeOK, NEW c \in Clients, NEW i \in Nat
  PROVE  Id(c, i) \in ItemId
<1>1. req[c] \in Request /\ Client(c).delivery \in Nat
  BY SetupFacts DEF TypeOK
<1> QED BY <1>1 DEF Id, ItemId

\* A request that goes on to its next stage, or gives up, admits nobody.
LEMMA MoveKeeps ==
  ASSUME Inductive, NEW c \in Clients, NEW pc \in Stages, NEW i \in Nat \ {0}, Becomes(c, pc, i),
         UNCHANGED <<setup, up, work, op, done, withdrawn, failed, lost>>,
         answered' \subseteq answered \cup (Kept \cap ItemId),
         hides' \subseteq Clients \X Nat,
         pc \in {"idle", "scan", "send", "answer"},
         pc \in {"scan", "send"} =>
           /\ i <= Len(Destinations(c))
           /\ req[c].pc = "put" \/ (req[c].pc \in {"scan", "send"} /\ req[c].i <= i),
         pc = "answer" => i = Len(Destinations(c)) + 1,
         pc # "idle" => \A j \in 1..i - 1 : Id(c, j) \in Kept
  PROVE  Inductive'
<1> DEFINE r == Moved(c, pc, i)
<1>1. /\ setup \in Setups /\ setup' = setup /\ TypeOK
      /\ UNCHANGED <<queue, file, held, op, done, withdrawn, failed, lost>>
  BY DEF Inductive, TypeOK, work
<1>2. /\ r \in Request /\ r.pc = pc /\ r.i = i /\ r.sent = req[c].sent
      /\ req' = [req EXCEPT ![c] = r]
  BY <1>1, MovedIs
<1> HIDE DEF r
<1>3. Kept' = Kept
  BY <1>1, WorkStays
<1>4. req' \in [Clients -> Request] /\ AtQueue' /\ SentIsKept'
  BY <1>1, <1>2, <1>3, RequestMoves
<1>5. ASSUME NEW q PROVE Admitted(q)' \subseteq Admitted(q)
  <2> SUFFICES ASSUME NEW p \in Admitted(q)', p[1] = c PROVE p \in Admitted(q)
    BY <1>1, <1>2, AdmittedMoves
  <2>1. /\ p \in Places(q)
        /\ pc \in {"check", "put", "scan", "send"}
        /\ pc \in {"scan", "send"} => p[2] >= i
    BY <1>1, <1>2, AdmittedMoves
  <2>2. pc \in {"scan", "send"} /\ p[2] >= i
    BY <2>1
  <2>3. p[2] \in Nat /\ req[c].i \in Nat
    BY <1>1, <2>1, PlacesFinite, AtStages DEF TypeOK
  <2>4. Passed(p[1], p[2])
    BY <2>2, <2>3 DEF Passed
  <2> QED BY <2>1, <2>4 DEF Admitted
<1>6. FileBounded' /\ DepthBounded'
  BY <1>1, <1>5, BoundsStay
<1> QED BY <1>1, <1>4, <1>6, OnlyRequest

\* The hide is stored before the first item; without it nothing is sent.
LEMMA PutHideKeeps ==
  ASSUME Inductive, NEW c \in Clients, PutHide(c)
  PROVE  Inductive'
<1>1. /\ setup \in Setups /\ TypeOK /\ hides \subseteq Clients \X Nat
      /\ UNCHANGED <<setup, up, work, op, answered, done, withdrawn, failed, lost>>
      /\ req[c].pc = "put" /\ req[c].sent \in Nat
  BY DEF Inductive, TypeOK, PutHide, history
<1>2. Hide(c) \in Clients \X Nat
  BY <1>1 DEF Hide
<1>3. CASE Becomes(c, "idle", 1) /\ hides' = hides
  BY <1>1, <1>3, MoveKeeps
<1>4. CASE Becomes(c, At(c, 1, Enqueues(c)), 1) /\ hides' = hides \cup {Hide(c)}
  <2>1. /\ Len(Destinations(c)) \in Nat /\ Enqueues(c) \in {"scan", "send"}
        /\ At(c, 1, Enqueues(c)) = IF 1 <= Len(Destinations(c)) THEN Enqueues(c) ELSE "answer"
    BY <1>1, AtStages DEF Enqueues
  <2> DEFINE pc == At(c, 1, Enqueues(c))
             i == 1
  <2>2. /\ pc \in Stages /\ pc \in {"idle", "scan", "send", "answer"}
        /\ pc = "answer" => i = Len(Destinations(c)) + 1
        /\ Becomes(c, pc, i)
    BY <1>4, <2>1
  <2>3. pc \in {"scan", "send"} =>
          /\ i <= Len(Destinations(c))
          /\ req[c].pc = "put" \/ (req[c].pc \in {"scan", "send"} /\ req[c].i <= i)
    BY <1>1, <2>1
  <2>4. hides' \subseteq Clients \X Nat /\ answered' \subseteq answered \cup (Kept \cap ItemId)
    BY <1>1, <1>2, <1>4
  <2>5. i \in Nat \ {0} /\ (pc # "idle" => \A j \in 1..i - 1 : Id(c, j) \in Kept)
    OBVIOUS
  <2> HIDE DEF pc, i
  <2> QED BY <1>1, <2>2, <2>3, <2>4, <2>5, MoveKeeps
<1> QED BY <1>3, <1>4 DEF PutHide

\* What the scan finds is queued, and so it is kept.
LEMMA ScanKeeps ==
  ASSUME Inductive, NEW c \in Clients, Scan(c)
  PROVE  Inductive'
<1> DEFINE n == req[c].i
           l == Len(Destinations(c))
<1>1. /\ setup \in Setups /\ TypeOK /\ hides' \subseteq Clients \X Nat
      /\ UNCHANGED <<setup, up, work, op, answered, done, withdrawn, failed, lost>>
      /\ req[c].pc = "scan" /\ n \in Nat \ {0} /\ n <= l
      /\ \A j \in 1..n - 1 : Id(c, j) \in Kept
  BY DEF Inductive, TypeOK, AtQueue, SentIsKept, Scan, history
<1>2. l \in Nat /\ DOMAIN Destinations(c) = 1..l /\ n + 1 \in Nat \ {0}
      /\ At(c, n + 1, "scan") = IF n + 1 <= l THEN "scan" ELSE "answer"
  <2>1. n + 1 \in Nat \ {0}
    BY <1>1
  <2> QED BY <1>1, <2>1, AtStages
<1>3. CASE Id(c, n) \in Ids(queue[Live(Dest(c))])
  <2>1. Dest(c) \in setup.queues
    BY <1>1, <1>2, DestinationsType DEF Dest
  <2>2. Id(c, n) \in Kept
    BY <1>3, <2>1 DEF Inductive, QueuedIsKept, Names, Live
  <2>3. Becomes(c, At(c, n + 1, "scan"), n + 1)
    BY <1>3 DEF Scan
  <2>4. \A j \in 1..(n + 1) - 1 : Id(c, j) \in Kept
    BY <1>1, <2>2
  <2>5. /\ At(c, n + 1, "scan") \in {"scan", "answer"}
        /\ At(c, n + 1, "scan") = "scan" => n + 1 <= l
        /\ At(c, n + 1, "scan") = "answer" => n + 1 = l + 1
        /\ n <= n + 1
    BY <1>1, <1>2
  <2> HIDE DEF n, l
  <2> QED BY <1>1, <1>2, <2>3, <2>4, <2>5, MoveKeeps DEF n, l
<1>4. CASE Id(c, n) \notin Ids(queue[Live(Dest(c))])
  <2>1. Becomes(c, "send", n)
    BY <1>4 DEF Scan
  <2> QED BY <1>1, <2>1, MoveKeeps
<1> QED BY <1>3, <1>4

\* 202 after the last queue: all items are kept.
LEMMA AnswerKeeps ==
  ASSUME Inductive, NEW c \in Clients, Answer(c)
  PROVE  Inductive'
<1>1. /\ setup \in Setups /\ TypeOK /\ hides' \subseteq Clients \X Nat
      /\ UNCHANGED <<setup, up, work, op, done, withdrawn, failed, lost>>
      /\ req[c].i = Len(Destinations(c)) + 1
      /\ \A j \in 1..req[c].i - 1 : Id(c, j) \in Kept
      /\ Becomes(c, "idle", 1)
      /\ answered' = answered \cup {Id(c, i) : i \in DOMAIN Destinations(c)}
  BY DEF Inductive, TypeOK, AtQueue, SentIsKept, Answer
<1>2. \A i \in DOMAIN Destinations(c) : Id(c, i) \in Kept /\ Id(c, i) \in ItemId
  <2>1. /\ Len(Destinations(c)) \in Nat /\ DOMAIN Destinations(c) = 1..Len(Destinations(c))
    BY <1>1, AtStages
  <2>2. \A i \in 1..Len(Destinations(c)) : i \in Nat /\ i \in 1..req[c].i - 1
    BY <1>1, <2>1
  <2> QED BY <1>1, <2>1, <2>2, IdType
<1> QED BY <1>1, <1>2, MoveKeeps

\* The item sent is kept, saved or not, and takes the place of an admitted route.
LEMMA SendKeeps ==
  ASSUME Inductive, NEW c \in Clients, Send(c)
  PROVE  Inductive'
<1> DEFINE n == req[c].i
           l == Len(Destinations(c))
           m == Live(Dest(c))
           it == NewItem(c)
<1>1. /\ setup \in Setups /\ TypeOK /\ FileBehind /\ setup' = setup
      /\ UNCHANGED <<up, held, op, answered, done, withdrawn, lost>>
      /\ req[c].pc = "send" /\ n \in Nat \ {0} /\ n <= l
      /\ req[c].sent \in Nat
      /\ \A j \in 1..n - 1 : Id(c, j) \in Kept
  BY DEF Inductive, TypeOK, AtQueue, SentIsKept, Send
<1>2. /\ l \in Nat /\ DOMAIN Destinations(c) = 1..l /\ n + 1 \in Nat \ {0}
      /\ Enqueues(c) \in {"scan", "send"}
      /\ At(c, n + 1, Enqueues(c)) = IF n + 1 <= l THEN Enqueues(c) ELSE "answer"
  <2>1. n + 1 \in Nat \ {0}
    BY <1>1
  <2>2. Enqueues(c) \in {"scan", "send"}
    BY DEF Enqueues
  <2> QED BY <1>1, <2>1, <2>2, AtStages
<1>3. /\ Dest(c) \in setup.queues /\ m \in Names
      /\ <<c, n>> \in Places(Dest(c))
      /\ \A q : q # Dest(c) => <<c, n>> \notin Places(q)
  <2>1. Dest(c) \in setup.queues /\ n \in DOMAIN Destinations(c) /\ Dest(c) = Destinations(c)[n]
    BY <1>1, <1>2, DestinationsType DEF Dest
  <2>2. <<c, n>> \in Places(Dest(c))
    BY <1>1, <2>1, PlacesFinite
  <2>3. ASSUME NEW q, <<c, n>> \in Places(q) PROVE Dest(c) = q
    BY <1>1, <2>1, <2>3, PlacesFinite
  <2> QED BY <2>1, <2>2, <2>3 DEF Names, Live
<1>4. it \in Item /\ it.id = Id(c, n)
  BY <1>1, IdType DEF NewItem, Item, Hide
<1>5. /\ queue' \in [Names -> Seq(Item)] /\ file' \in [Names -> Seq(Item)]
      /\ FileBehind'
      /\ failed \subseteq failed' /\ failed' \subseteq ItemId /\ hides' \subseteq Clients \X Nat
      /\ InFiles \subseteq InFiles' \cup failed' /\ it.id \in InFiles' \cup failed'
      /\ \A k \in Names : Ids(queue'[k]) \subseteq Ids(queue[k]) \cup {it.id}
      /\ queue' = [queue EXCEPT ![m] = Append(@, it)]
      /\ file' \in {file, [file EXCEPT ![m] = queue'[m]]}
  <2>1. CASE Push(m, it) /\ UNCHANGED <<hides, failed>>
    BY <1>1, <1>3, <1>4, <2>1, PushKeeps DEF TypeOK, Push
  <2>2. CASE /\ PushFails(m, it) /\ failed' = failed \cup {Id(c, n)}
             /\ hides' = IF Client(c).kind = "webhook" THEN hides \ {Hide(c)} ELSE hides
    <3>1. failed' \subseteq ItemId /\ hides' \subseteq Clients \X Nat /\ failed \subseteq failed'
      BY <1>1, <2>2, IdType DEF TypeOK
    <3> QED BY <1>1, <1>3, <1>4, <2>2, <3>1, PushFailsKeeps DEF PushFails
  <2> QED BY <2>1, <2>2 DEF Send
<1>6. PICK pc \in {"idle", "scan", "send", "answer"}, i \in Nat \ {0} :
        /\ Becomes(c, pc, i)
        /\ pc # "idle" => i = n + 1 /\ pc = IF n + 1 <= l THEN Enqueues(c) ELSE "answer"
  <2>1. \/ Becomes(c, At(c, n + 1, Enqueues(c)), n + 1)
        \/ Becomes(c, "idle", 1)
    BY DEF Send
  <2>2. At(c, n + 1, Enqueues(c)) \in {"idle", "scan", "send", "answer"}
    BY <1>2
  <2> QED BY <1>2, <2>1, <2>2
<1>7. Kept \subseteq Kept' /\ Id(c, n) \in Kept'
  BY <1>1, <1>4, <1>5 DEF Kept, HeldIds
<1> DEFINE r == Moved(c, pc, i)
<1>8. /\ r \in Request /\ r.pc = pc /\ r.i = i /\ r.sent = req[c].sent
      /\ req' = [req EXCEPT ![c] = r]
  BY <1>1, <1>6, MovedIs
<1> HIDE DEF r, it
<1>9. req' \in [Clients -> Request] /\ AtQueue' /\ SentIsKept'
  <2>1. \A j \in 1..(n + 1) - 1 : Id(c, j) \in Kept'
    BY <1>1, <1>7
  <2>2. /\ r.pc \in {"check", "scan", "send"} => r.i <= l
        /\ r.pc # "put"
        /\ r.pc = "answer" => r.i = l + 1
    BY <1>1, <1>2, <1>6, <1>8
  <2>3. r.pc \in {"scan", "send", "answer"} =>
          r.sent = req[c].sent /\ \A j \in 1..r.i - 1 : Id(c, j) \in Kept'
    BY <1>6, <1>8, <2>1
  <2> HIDE DEF n
  <2> QED BY <1>1, <1>7, <1>8, <2>2, <2>3, RequestMoves
<1>10. QueuedIsKept' /\ AnsweredIsKept'
  BY <1>1, <1>4, <1>5, <1>7, KeptStep
<1>11. TypeOK'
  <2>1. Names' = Names /\ Clients' = Clients /\ Item' = Item /\ ItemId' = ItemId /\ OpType' = OpType
    BY <1>1, SetupStays
  <2> QED BY <1>1, <1>5, <1>9, <2>1 DEF TypeOK
<1>12. \A q : Admitted(q)' \subseteq Admitted(q) \ {<<c, n>>}
  <2> SUFFICES ASSUME NEW q, NEW p \in Admitted(q)'
               PROVE  p \in Admitted(q) \ {<<c, n>>}
    OBVIOUS
  <2>1. /\ p \in Places(q) /\ (p \in Admitted(q) \/ p[1] = c)
        /\ p[1] = c => pc \in {"scan", "send"} /\ p[2] >= i
    <3>1. /\ p \in Places(q)
          /\ p \in Admitted(q) \/ p[1] = c
          /\ p[1] = c => /\ r.pc \in {"check", "put", "scan", "send"}
                         /\ r.pc = "check" => p[2] < r.i
                         /\ r.pc \in {"scan", "send"} => p[2] >= r.i
      BY <1>1, <1>8, AdmittedMoves
    <3> QED BY <1>6, <1>8, <3>1
  <2>2. p = <<p[1], p[2]>> /\ p[2] \in 1..Len(Destinations(p[1])) /\ p[1] \in Clients
    BY <1>1, <2>1, PlacesFinite, AtStages
  <2>3. CASE p[1] = c
    <3>1. p[2] > n
      BY <1>1, <1>2, <1>6, <2>1, <2>2, <2>3
    <3>2. Passed(p[1], p[2])
      BY <1>1, <1>2, <2>2, <2>3, <3>1 DEF Passed
    <3> QED BY <1>1, <1>2, <2>1, <2>2, <3>1, <3>2 DEF Admitted
  <2>4. CASE p[1] # c
    BY <2>1, <2>2, <2>4
  <2> QED BY <2>3, <2>4
<1>13. ASSUME NEW k \in Names
       PROVE  /\ queue'[k] = IF k = m THEN Append(queue[m], it) ELSE queue[k]
              /\ file'[k] \in {file[k], queue'[k]}
  <2>1. queue \in [Names -> Seq(Item)] /\ file \in [Names -> Seq(Item)]
    BY <1>1 DEF TypeOK
  <2> HIDE DEF m
  <2>2. queue'[k] = IF k = m THEN Append(queue[m], it) ELSE queue[k]
    BY <1>3, <1>5, <2>1
  <2>3. file'[k] = file[k] \/ (k = m /\ file'[k] = queue'[m])
    BY <1>3, <1>5, <2>1
  <2> QED BY <2>2, <2>3
<1>14. ASSUME "cli" \notin setup.ops, NEW q \in setup.queues, setup.maxDepth[q] > 0
       PROVE  /\ Cardinality(FreshIn(queue'[Live(q)])) + Cardinality(Admitted(q)') <= Bound(q)
              /\ Cardinality(FreshIn(file'[Live(q)])) <= Bound(q)
  <2> DEFINE A == Admitted(q)
             B == Admitted(q)'
             F == Cardinality(FreshIn(queue[Live(q)]))
             G == Cardinality(FreshIn(queue'[Live(q)]))
  <2>1. /\ F + Cardinality(A) <= Bound(q)
        /\ Cardinality(FreshIn(file[Live(q)])) <= Bound(q)
    BY <1>14 DEF Inductive, DepthBounded, FileBounded, Fresh
  <2>2. IsFiniteSet(A) /\ Cardinality(A) \in Nat
    BY <1>1, AdmittedCounted
  <2>3. Live(q) \in Names /\ queue[Live(q)] \in Seq(Item) /\ queue'[Live(q)] \in Seq(Item)
    BY <1>1, <1>5 DEF TypeOK, Names, Live
  <2>4. F \in Nat /\ G \in Nat
    BY <2>3, FreshCounted
  <2>5. Bound(q) \in Int
    BY <1>1, <1>14, SetupFacts, PlacesFinite DEF Bound
  <2>6. G + Cardinality(B) <= Bound(q) /\ Cardinality(B) \in Nat
    <3>1. CASE Live(q) = m
      <4>1. q = Dest(c)
        BY <3>1 DEF Live
      <4>2. <<c, n>> \in A
        BY <1>1, <1>3, <4>1 DEF Admitted, Passed
      <4>3. B \subseteq A \ {<<c, n>>}
        BY <1>12
      <4>4. G <= F + 1
        <5>1. queue'[Live(q)] = Append(queue[Live(q)], it)
          BY <1>13, <2>3, <3>1
        <5> QED BY <1>4, <2>3, <5>1, FreshAppend
      <4> HIDE DEF A, B, F, G
      <4>5. IsFiniteSet(A \ {<<c, n>>}) /\ Cardinality(A \ {<<c, n>>}) = Cardinality(A) - 1
        BY <2>2, <4>2, FS_RemoveElement
      <4>6. IsFiniteSet(B) /\ Cardinality(B) <= Cardinality(A \ {<<c, n>>})
        BY <4>3, <4>5, FS_Subset
      <4>7. Cardinality(B) \in Nat
        BY <4>6, FS_CardinalityType
      <4>8. Cardinality(B) <= Cardinality(A) - 1
        BY <4>5, <4>6
      <4> QED BY <2>1, <2>2, <2>4, <2>5, <4>4, <4>7, <4>8
    <3>2. CASE Live(q) # m
      <4>1. G = F
        BY <1>13, <2>3, <3>2
      <4>2. B \subseteq A
        BY <1>12
      <4> HIDE DEF A, B, F, G
      <4>3. IsFiniteSet(B) /\ Cardinality(B) <= Cardinality(A)
        BY <2>2, <4>2, FS_Subset
      <4>4. Cardinality(B) \in Nat
        BY <4>3, FS_CardinalityType
      <4> QED BY <2>1, <2>2, <2>4, <2>5, <4>1, <4>3, <4>4
    <3> QED BY <3>1, <3>2
  <2>7. file'[Live(q)] \in {file[Live(q)], queue'[Live(q)]}
    BY <1>13, <2>3
  <2>8. G <= Bound(q)
    <3> HIDE DEF B, G
    <3> QED BY <2>4, <2>5, <2>6
  <2> QED BY <2>1, <2>6, <2>7, <2>8
<1>15. TriedItems'
  <2>1. ASSUME NEW q \in setup.queues PROVE Dlq(q) \in Names /\ Dlq(q) # m
    BY <2>1 DEF Dlq, Live, Names
  <2>2. ASSUME "cli" \notin setup.ops, NEW q \in setup.queues
        PROVE  FreshIn(queue'[Dlq(q)]) = {} /\ FreshIn(file'[Dlq(q)]) = {}
    <3>1. FreshIn(queue[Dlq(q)]) = {} /\ FreshIn(file[Dlq(q)]) = {}
      BY <2>2 DEF Inductive, TriedItems
    <3> QED BY <1>13, <2>1, <2>2, <3>1
  <2> QED BY <1>1, <2>2 DEF Inductive, TriedItems, Dlq
<1>16. FileBounded' /\ DepthBounded'
  <2>1. \A q : Bound(q)' = Bound(q)
    BY <1>1, SetupStays
  <2> QED BY <1>1, <1>14, <2>1 DEF FileBounded, DepthBounded, Fresh, Live
<1> QED BY <1>5, <1>9, <1>10, <1>11, <1>15, <1>16 DEF Inductive
-----------------------------------------------------------------------------
(* Workers and operators.                                                   *)

\* What a step has to do that leaves the requests alone.
LEMMA WorkKeeps ==
  ASSUME Inductive, UNCHANGED <<setup, req, answered>>,
         TypeOK', FileBehind', Kept \subseteq Kept',
         \A n \in Names : Ids(queue'[n]) \subseteq Ids(queue[n]) \cup Kept',
         "cli" \notin setup.ops => NoFresh,
         "cli" \notin setup.ops =>
           op'.pc # "cli" /\ \A i \in DOMAIN op'.items : op'.items[i].tries # 0
  PROVE  Inductive'
<1>1. setup' = setup /\ req' = req /\ answered' \subseteq answered \cup Kept
  OBVIOUS
<1>2. QueuedIsKept' /\ AnsweredIsKept'
  BY <1>1, KeptStep
<1>3. AtQueue' /\ SentIsKept'
  BY <1>1, RequestsStay
<1>4. queue' \in [Names -> Seq(Item)] /\ file' \in [Names -> Seq(Item)]
  BY <1>1, SetupStays DEF TypeOK
<1>5. \A q \in setup.queues : Admitted(q)' \subseteq Admitted(q)
  BY <1>1, AdmittedStays
<1>6. TriedItems' /\ FileBounded' /\ DepthBounded'
  BY <1>1, <1>4, <1>5, DepthStep
<1> QED BY <1>2, <1>3, <1>6 DEF Inductive

\* The queues are as they were.
LEMMA QueuesStay ==
  ASSUME Inductive, UNCHANGED <<setup, queue, file>>, failed' = failed
  PROVE  /\ NoFresh /\ FileBehind' /\ InFiles' = InFiles
         /\ \A n \in Names : Ids(queue'[n]) \subseteq Ids(queue[n]) \cup Kept'
<1>1. Names' = Names /\ queue \in [Names -> Seq(Item)]
  BY SetupStays DEF Inductive, TypeOK
<1>2. NoFresh
  <2>1. \A m \in Names : Cardinality(FreshIn(queue[m])) \in Nat
    BY <1>1, FreshCounted
  <2> QED BY <2>1 DEF NoFresh
<1> QED BY <1>1, <1>2 DEF Inductive, FileBehind, InFiles

\* The operator has what it had.
LEMMA OpStays ==
  ASSUME Inductive, UNCHANGED <<setup, op>>
  PROVE  "cli" \notin setup.ops =>
           op'.pc # "cli" /\ \A i \in DOMAIN op'.items : op'.items[i].tries # 0
  BY DEF Inductive, TriedItems

\* Nothing is done to the work.
LEMMA QuietKeeps ==
  ASSUME Inductive, UNCHANGED <<setup, work, req, op, history>>,
         up' \in BOOLEAN, hides' \subseteq hides
  PROVE  Inductive'
<1>1. /\ UNCHANGED <<setup, req, answered>> /\ UNCHANGED <<setup, queue, file>> /\ UNCHANGED <<setup, op>>
      /\ failed' = failed /\ UNCHANGED <<held, done, withdrawn, lost>>
  BY DEF work, history
<1>2. Kept' = Kept
  BY <1>1, WorkStays
<1>3. TypeOK'
  BY <1>1, SetupStays DEF Inductive, TypeOK
<1> QED BY <1>1, <1>2, <1>3, QueuesStay, OpStays, WorkKeeps

\* An item that is taken is in a hand.
LEMMA TakeKeeps ==
  ASSUME Inductive, NEW q \in setup.queues, Take(q)
  PROVE  Inductive'
<1> DEFINE n == Live(q)
           x == Head(queue[n])
           h == [item |-> x, from |-> q, pc |-> "taken"]
<1>1. /\ TypeOK /\ FileBehind /\ n \in Names /\ Pop(n) /\ held' = held \cup {h}
      /\ UNCHANGED <<setup, up, hides, req, op, answered, done, withdrawn, failed, lost>>
  BY DEF Inductive, Take, history, Names, Live
<1>2. /\ queue' \in [Names -> Seq(Item)] /\ file' \in [Names -> Seq(Item)]
      /\ x \in Item /\ FileBehind' /\ InFiles \subseteq InFiles' \cup failed \cup {x.id}
      /\ \A m \in Names : Ids(queue'[m]) \subseteq Ids(queue[m])
      /\ NoFresh
  BY <1>1, PopKeeps
<1>3. h \in [item : Item, from : setup.queues, pc : {"taken", "active"}] /\ h.item = x
  BY <1>2
<1> HIDE DEF x, h
<1>4. TypeOK'
  BY <1>1, <1>2, <1>3, SetupStays DEF TypeOK
<1>5. Kept \subseteq Kept'
  BY <1>1, <1>2, <1>3 DEF Kept, HeldIds
<1>6. UNCHANGED <<setup, req, answered>> /\ UNCHANGED <<setup, op>>
  BY <1>1
<1> QED BY <1>2, <1>4, <1>5, <1>6, OpStays, WorkKeeps

\* What a handler has in hand.
LEMMA HeldFacts ==
  ASSUME TypeOK, NEW h \in held
  PROVE  /\ h.item \in Item /\ h.from \in setup.queues
         /\ h.item.id \in ItemId /\ h.item.hide \in Clients \X Nat /\ h.item.tries \in Nat
  BY DEF TypeOK, Item

\* It stays there when the handler is counted, ...
LEMMA BeginKeeps ==
  ASSUME Inductive, NEW h \in held, Begin(h)
  PROVE  Inductive'
<1> DEFINE g == [h EXCEPT !.pc = "active"]
<1>1. /\ TypeOK /\ held' = (held \ {h}) \cup {g}
      /\ UNCHANGED <<setup, up, queue, file, hides, req, op, answered, done, withdrawn, failed, lost>>
      /\ h \in [item : Item, from : setup.queues, pc : {"taken", "active"}]
  BY DEF Inductive, TypeOK, Begin, history
<1>2. g \in [item : Item, from : setup.queues, pc : {"taken", "active"}] /\ g.item = h.item
  BY <1>1
<1> HIDE DEF g
<1>3. TypeOK'
  BY <1>1, <1>2, SetupStays DEF TypeOK
<1>4. UNCHANGED <<setup, queue, file>> /\ UNCHANGED <<setup, req, answered>> /\ UNCHANGED <<setup, op>>
  BY <1>1
<1>5. Kept \subseteq Kept'
  BY <1>1, <1>2, <1>4, QueuesStay DEF Kept, HeldIds
<1> QED BY <1>1, <1>3, <1>4, <1>5, QueuesStay, OpStays, WorkKeeps

\* ... is done when it succeeds, ...
LEMMA SucceedKeeps ==
  ASSUME Inductive, NEW h \in held, Succeed(h)
  PROVE  Inductive'
<1>1. /\ TypeOK /\ held' = held \ {h} /\ hides' = hides \ {h.item.hide}
      /\ done' = done \cup {h.item.id} /\ h.item.id \in ItemId
      /\ UNCHANGED <<setup, up, queue, file, req, op, answered, withdrawn, failed, lost>>
  BY HeldFacts DEF Inductive, Succeed
<1>2. TypeOK'
  BY <1>1, SetupStays DEF TypeOK
<1>3. UNCHANGED <<setup, queue, file>> /\ UNCHANGED <<setup, req, answered>> /\ UNCHANGED <<setup, op>>
  BY <1>1
<1>4. Kept \subseteq Kept'
  BY <1>1, <1>3, QueuesStay DEF Kept, HeldIds
<1> QED BY <1>1, <1>2, <1>3, <1>4, QueuesStay, OpStays, WorkKeeps

\* An attempt is counted.
LEMMA TriedIs ==
  ASSUME setup \in Setups, NEW it \in Item
  PROVE  /\ Tried(it) \in Item /\ Tried(it).id = it.id /\ Tried(it).tries # 0
<1>1. setup.attempts \in Nat \ {0}
  BY SetupFacts
<1>2. it \in [id : ItemId, hide : Clients \X Nat, tries : Nat] /\ it.tries \in Nat
  BY DEF Item
<1> DEFINE t == IF it.tries < setup.attempts THEN it.tries + 1 ELSE it.tries
<1>3. t \in Nat /\ t # 0
  BY <1>1, <1>2
<1>4. Tried(it) = [it EXCEPT !.tries = t]
  BY <1>2 DEF Tried
<1> HIDE DEF t
<1> QED BY <1>2, <1>3, <1>4 DEF Item

\* ... and is in a queue again when it fails, saved or counted as not.
LEMMA FailKeeps ==
  ASSUME Inductive, NEW h \in held, Fail(h)
  PROVE  Inductive'
<1> DEFINE it == Tried(h.item)
           n == IF h.item.hide \in hides /\ it.tries < setup.attempts
                  THEN Live(h.from) ELSE Dlq(h.from)
<1>1. /\ TypeOK /\ FileBehind /\ setup \in Setups /\ held' = held \ {h}
      /\ UNCHANGED <<setup, up, hides, req, op, answered, done, withdrawn, lost>>
      /\ \/ Push(n, it) /\ failed' = failed
         \/ PushFails(n, it) /\ failed' = failed \cup {it.id}
  BY DEF Inductive, TypeOK, Fail
<1>2. it \in Item /\ it.id = h.item.id /\ it.tries # 0 /\ it.id \in ItemId
  BY <1>1, HeldFacts, TriedIs
<1>3. n \in Names
  BY <1>1, HeldFacts DEF Names, Live, Dlq
<1> HIDE DEF it, n
<1>4. failed \subseteq failed' /\ failed' \subseteq ItemId
  BY <1>1, <1>2 DEF TypeOK
<1>5. /\ queue' \in [Names -> Seq(Item)] /\ file' \in [Names -> Seq(Item)] /\ FileBehind'
      /\ InFiles \subseteq InFiles' \cup failed' /\ it.id \in InFiles' \cup failed'
      /\ \A m \in Names : Ids(queue'[m]) \subseteq Ids(queue[m]) \cup {it.id}
      /\ NoFresh
  <2>1. CASE Push(n, it)
    BY <1>1, <1>2, <1>3, <1>4, <2>1, PushKeeps
  <2>2. CASE PushFails(n, it) /\ failed' = failed \cup {it.id}
    BY <1>1, <1>2, <1>3, <1>4, <2>2, PushFailsKeeps
  <2> QED BY <1>1, <2>1, <2>2
<1>6. TypeOK'
  BY <1>1, <1>4, <1>5, SetupStays DEF TypeOK
<1>7. Kept \subseteq Kept' /\ it.id \in Kept'
  BY <1>1, <1>2, <1>4, <1>5 DEF Kept, HeldIds
<1>8. \A m \in Names : Ids(queue'[m]) \subseteq Ids(queue[m]) \cup Kept'
  BY <1>5, <1>7
<1>9. UNCHANGED <<setup, req, answered>> /\ UNCHANGED <<setup, op>>
  BY <1>1
<1> QED BY <1>5, <1>6, <1>7, <1>8, <1>9, OpStays, WorkKeeps
\* The items of a slice have IDs of the right kind.
LEMMA IdsType ==
  ASSUME NEW s \in Seq(Item)
  PROVE  Ids(s) \subseteq ItemId
<1>1. \A x \in Item : x.id \in ItemId
  BY DEF Item
<1>2. \A x \in Range(s) : x \in Item
  <2>1. DOMAIN s = 1..Len(s) /\ \A i \in 1..Len(s) : s[i] \in Item
    OBVIOUS
  <2> QED BY <2>1 DEF Range
<1> QED BY <1>1, <1>2, IdsRange

\* What the operator has in hand.
LEMMA OpFacts ==
  ASSUME TypeOK, op.pc # "idle"
  PROVE  /\ op \in OpType /\ op.items \in Seq(Item) /\ op.items # <<>>
         /\ Head(op.items) \in Item /\ Head(op.items).id \in ItemId /\ Tail(op.items) \in Seq(Item)
         /\ Live(op.q) \in Names /\ Dlq(op.q) \in Names
         /\ Ids(op.items) = {Head(op.items).id} \cup Ids(Tail(op.items))
         /\ Ids(op.items) \subseteq ItemId
<1>1. op \in OpType
  BY DEF TypeOK, Idle
<1>2. op.items \in Seq(Item) /\ op.items # <<>> /\ op.q \in setup.queues
  BY <1>1 DEF OpType
<1>3. Head(op.items) \in Item /\ Tail(op.items) \in Seq(Item)
  BY <1>2
<1>4. Ids(op.items) = {Head(op.items).id} \cup Ids(Tail(op.items))
  BY <1>2, IdsOf
<1>5. Ids(op.items) \subseteq ItemId
  BY <1>2, IdsType
<1> QED BY <1>1, <1>2, <1>3, <1>4, <1>5 DEF Names, Live, Dlq

\* What it has after an item.
LEMMA NextFacts ==
  ASSUME TypeOK, op.pc # "idle", op' = NextItem(Tail(op.items))
  PROVE  /\ op' = Idle \/ op' \in OpType
         /\ op'.items = Tail(op.items) /\ op'.pc # "cli"
<1>1. op \in OpType /\ Tail(op.items) \in Seq(Item)
  BY OpFacts
<1>2. CASE Tail(op.items) = <<>>
  BY <1>2 DEF NextItem, Idle
<1>3. CASE Tail(op.items) # <<>>
  <2> DEFINE t == Tail(op.items)
  <2>1. op' = [op EXCEPT !.pc = "requeue", !.items = t]
    BY <1>3 DEF NextItem
  <2>2. t \in Seq(Item) \ {<<>>}
    BY <1>1, <1>3
  <2> HIDE DEF t
  <2>3. op' \in OpType /\ op'.items = t /\ op'.pc = "requeue"
    BY <1>1, <2>1, <2>2 DEF OpType
  <2> QED BY <2>3 DEF t
<1> QED BY <1>2, <1>3

\* Without `dlq requeue` it has been tried.
LEMMA OpTried ==
  ASSUME Inductive, op.pc # "idle", "cli" \notin setup.ops
  PROVE  /\ op.pc # "cli" /\ Head(op.items).tries # 0
         /\ \A i \in DOMAIN Tail(op.items) : Tail(op.items)[i].tries # 0
<1>1. op.pc # "cli" /\ \A i \in DOMAIN op.items : op.items[i].tries # 0
  BY DEF Inductive, TriedItems
<1>2. op.items \in Seq(Item) /\ op.items # <<>>
  BY OpFacts DEF Inductive
<1>3. /\ 1 \in DOMAIN op.items /\ Head(op.items) = op.items[1]
      /\ \A i \in DOMAIN Tail(op.items) : i + 1 \in DOMAIN op.items /\ Tail(op.items)[i] = op.items[i + 1]
  BY <1>2
<1> QED BY <1>1, <1>3

\* A requeue has the dead letters in hand, or has not saved that it took them.
LEMMA RequeueKeeps ==
  ASSUME Inductive, NEW q \in setup.queues, Requeue(q)
  PROVE  Inductive'
<1> DEFINE n == Dlq(q)
           s == queue[n]
           o == [pc |-> "requeue", q |-> q, items |-> s]
<1>1. /\ TypeOK /\ FileBehind /\ n \in Names /\ Drained(n) /\ op = Idle
      /\ UNCHANGED <<setup, up, held, hides, req, answered, done, withdrawn, lost>>
      /\ \/ file' = [file EXCEPT ![n] = <<>>] /\ op' = o /\ failed' = failed
         \/ file' = file /\ op' = op /\ failed' = failed \cup Ids(s)
  BY DEF Inductive, Requeue, May, Names, Dlq
<1>2. s \in Seq(Item) /\ s # <<>> /\ Ids(s) \subseteq ItemId
  <2>1. s \in Seq(Item) /\ s # <<>>
    BY <1>1 DEF TypeOK, Drained
  <2> QED BY <2>1, IdsType
<1>3. setup' = setup /\ failed \subseteq failed' /\ failed' \subseteq ItemId
  BY <1>1, <1>2 DEF TypeOK
<1>4. /\ queue' \in [Names -> Seq(Item)] /\ file' \in [Names -> Seq(Item)] /\ FileBehind'
      /\ InFiles \subseteq InFiles' \cup failed \cup Ids(s)
      /\ \A m \in Names : Ids(queue'[m]) \subseteq Ids(queue[m])
      /\ NoFresh
  BY <1>1, <1>3, DrainedKeeps
<1>5. "cli" \notin setup.ops => \A i \in DOMAIN s : s[i].tries # 0
  BY DEF Inductive, TriedItems, FreshIn
<1>6. o \in OpType /\ o.pc = "requeue" /\ o.items = s
  BY <1>2 DEF OpType
<1> HIDE DEF n, s, o
<1>7. TypeOK'
  <2>1. op' = Idle \/ op' \in OpType
    BY <1>1, <1>6
  <2>2. op'.pc # "cli"
    BY <1>1, <1>6 DEF Idle
  <2> QED BY <1>1, <1>3, <1>4, <2>1, <2>2, SetupStays DEF TypeOK
<1>8. "cli" \notin setup.ops =>
        op'.pc # "cli" /\ \A i \in DOMAIN op'.items : op'.items[i].tries # 0
  BY <1>1, <1>5, <1>6 DEF Idle
<1>9. Kept \subseteq Kept'
  <2>1. Ids(op.items) = {} /\ Ids(s) \subseteq Ids(op'.items) \cup failed'
    BY <1>1, <1>6, IdsOf DEF Idle, Ids
  <2> QED BY <1>1, <1>3, <1>4, <2>1 DEF Kept, HeldIds
<1>10. UNCHANGED <<setup, req, answered>>
  BY <1>1
<1> QED BY <1>4, <1>7, <1>8, <1>9, <1>10, WorkKeeps

\* An item of it is queued, or stays in hand.
LEMMA RequeueItemKeeps ==
  ASSUME Inductive, RequeueItem
  PROVE  Inductive'
<1> DEFINE n == Live(op.q)
           x == Head(op.items)
           t == Tail(op.items)
<1>1. /\ TypeOK /\ FileBehind /\ op.pc = "requeue" /\ setup' = setup
      /\ UNCHANGED <<setup, up, held, hides, req, answered, done, withdrawn, failed, lost>>
      /\ \/ Push(n, x) /\ op' = NextItem(t)
         \/ PushFails(n, x) /\ op' = [op EXCEPT !.pc = "rollback"]
  BY DEF Inductive, RequeueItem, history
<1>2. /\ op \in OpType /\ op.items \in Seq(Item) /\ x \in Item /\ n \in Names
      /\ Ids(op.items) = {x.id} \cup Ids(t)
  BY <1>1, OpFacts
<1>3. "cli" \notin setup.ops =>
        /\ x.tries # 0 /\ \A i \in DOMAIN t : t[i].tries # 0
        /\ \A i \in DOMAIN op.items : op.items[i].tries # 0
  BY <1>1, OpTried DEF Inductive, TriedItems
<1>4. /\ queue' \in [Names -> Seq(Item)] /\ file' \in [Names -> Seq(Item)] /\ FileBehind'
      /\ InFiles \subseteq InFiles' \cup failed'
      /\ \A m \in Names : Ids(queue'[m]) \subseteq Ids(queue[m]) \cup {x.id}
      /\ x.tries # 0 => NoFresh
      /\ Ids(op.items) \subseteq InFiles' \cup Ids(op'.items)
      /\ op'.items \in {t, op.items} /\ op'.pc # "cli"
      /\ op' = Idle \/ op' \in OpType
  <2>1. CASE Push(n, x) /\ op' = NextItem(t)
    <3>1. /\ queue' \in [Names -> Seq(Item)] /\ file' \in [Names -> Seq(Item)] /\ FileBehind'
          /\ InFiles \subseteq InFiles' \cup failed' /\ x.id \in InFiles'
          /\ \A m \in Names : Ids(queue'[m]) \subseteq Ids(queue[m]) \cup {x.id}
          /\ x.tries # 0 => NoFresh
      <4> HIDE DEF n, x
      <4> QED BY <1>1, <1>2, <2>1, PushKeeps
    <3>2. /\ op' = Idle \/ op' \in OpType
          /\ op'.items = t /\ op'.pc # "cli"
      BY <1>1, <2>1, NextFacts
    <3> HIDE DEF n, x, t
    <3> QED BY <1>2, <3>1, <3>2
  <2>2. CASE PushFails(n, x) /\ op' = [op EXCEPT !.pc = "rollback"]
    <3>1. /\ queue' \in [Names -> Seq(Item)] /\ file' \in [Names -> Seq(Item)] /\ FileBehind'
          /\ InFiles' = InFiles
          /\ \A m \in Names : Ids(queue'[m]) \subseteq Ids(queue[m]) \cup {x.id}
          /\ x.tries # 0 => NoFresh
      <4> HIDE DEF n, x
      <4> QED BY <1>1, <1>2, <2>2, PushFailsKeeps
    <3>2. op' \in OpType /\ op'.items = op.items /\ op'.pc = "rollback"
      BY <1>2, <2>2 DEF OpType
    <3> HIDE DEF n, x, t
    <3> QED BY <1>2, <3>1, <3>2
  <2> QED BY <1>1, <2>1, <2>2
<1> HIDE DEF n, x, t
<1>5. TypeOK'
  BY <1>1, <1>4, SetupStays DEF TypeOK
<1>6. Kept \subseteq Kept' /\ x.id \in Kept'
  BY <1>1, <1>2, <1>4 DEF Kept, HeldIds
<1>7. UNCHANGED <<setup, req, answered>> /\ \A m \in Names : Ids(queue'[m]) \subseteq Ids(queue[m]) \cup Kept'
  BY <1>1, <1>4, <1>6
<1> QED BY <1>3, <1>4, <1>5, <1>6, <1>7, WorkKeeps

\* An item that could not be queued is a dead letter again, or counted as unsaved.
LEMMA RequeueFailsKeeps ==
  ASSUME Inductive, RequeueFails
  PROVE  Inductive'
<1> DEFINE n == Dlq(op.q)
           x == Head(op.items)
           t == Tail(op.items)
<1>1. /\ TypeOK /\ FileBehind /\ op.pc = "rollback" /\ setup' = setup
      /\ UNCHANGED <<setup, up, held, hides, req, answered, done, withdrawn, lost>>
      /\ \/ Push(n, x) /\ failed' = failed
         \/ PushFails(n, x) /\ failed' = failed \cup {x.id}
      /\ op' = NextItem(t)
  BY DEF Inductive, RequeueFails, RollBack
<1>2. /\ op \in OpType /\ op.items \in Seq(Item) /\ x \in Item /\ x.id \in ItemId /\ n \in Names
      /\ Ids(op.items) = {x.id} \cup Ids(t)
  BY <1>1, OpFacts
<1>3. "cli" \notin setup.ops => x.tries # 0 /\ \A i \in DOMAIN t : t[i].tries # 0
  BY <1>1, OpTried
<1>4. op'.items = t /\ op'.pc # "cli" /\ (op' = Idle \/ op' \in OpType)
  BY <1>1, NextFacts
<1> HIDE DEF n, x, t
<1>5. failed \subseteq failed' /\ failed' \subseteq ItemId
  BY <1>1, <1>2 DEF TypeOK
<1>6. /\ queue' \in [Names -> Seq(Item)] /\ file' \in [Names -> Seq(Item)] /\ FileBehind'
      /\ InFiles \subseteq InFiles' \cup failed' /\ x.id \in InFiles' \cup failed'
      /\ \A m \in Names : Ids(queue'[m]) \subseteq Ids(queue[m]) \cup {x.id}
      /\ x.tries # 0 => NoFresh
  <2>1. CASE Push(n, x)
    BY <1>1, <1>2, <1>5, <2>1, PushKeeps
  <2>2. CASE PushFails(n, x) /\ failed' = failed \cup {x.id}
    BY <1>1, <1>2, <1>5, <2>2, PushFailsKeeps
  <2> QED BY <1>1, <2>1, <2>2
<1>7. TypeOK'
  BY <1>1, <1>4, <1>5, <1>6, SetupStays DEF TypeOK
<1>8. Kept \subseteq Kept' /\ x.id \in Kept'
  BY <1>1, <1>2, <1>4, <1>5, <1>6 DEF Kept, HeldIds
<1>9. UNCHANGED <<setup, req, answered>> /\ \A m \in Names : Ids(queue'[m]) \subseteq Ids(queue[m]) \cup Kept'
  BY <1>1, <1>6, <1>8
<1> QED BY <1>3, <1>4, <1>6, <1>7, <1>8, <1>9, WorkKeeps

\* What an operator drains is withdrawn, or counted as unsaved.
LEMMA DrainQueueKeeps ==
  ASSUME Inductive, NEW n \in Names, DrainQueue(n)
  PROVE  Inductive'
<1>1. /\ TypeOK /\ FileBehind /\ Drained(n)
      /\ UNCHANGED <<setup, up, held, hides, req, op, answered, done, lost>>
      /\ \/ file' = [file EXCEPT ![n] = <<>>] /\ failed' = failed /\ withdrawn' = withdrawn \cup Ids(queue[n])
         \/ file' = file /\ failed' = failed \cup Ids(queue[n]) /\ withdrawn' = withdrawn
  BY DEF Inductive, DrainQueue
<1>2. Ids(queue[n]) \subseteq ItemId
  <2>1. queue[n] \in Seq(Item)
    BY <1>1 DEF TypeOK
  <2> QED BY <2>1, IdsType
<1>3. /\ setup' = setup /\ failed \subseteq failed' /\ failed' \subseteq ItemId
      /\ withdrawn \subseteq withdrawn' /\ withdrawn' \subseteq ItemId
  BY <1>1, <1>2 DEF TypeOK
<1>4. /\ queue' \in [Names -> Seq(Item)] /\ file' \in [Names -> Seq(Item)] /\ FileBehind'
      /\ InFiles \subseteq InFiles' \cup failed \cup Ids(queue[n])
      /\ \A m \in Names : Ids(queue'[m]) \subseteq Ids(queue[m])
      /\ NoFresh
  BY <1>1, <1>3, DrainedKeeps
<1>5. TypeOK'
  BY <1>1, <1>3, <1>4, SetupStays DEF TypeOK
<1>6. Kept \subseteq Kept'
  BY <1>1, <1>3, <1>4 DEF Kept, HeldIds
<1>7. UNCHANGED <<setup, req, answered>> /\ UNCHANGED <<setup, op>>
  BY <1>1
<1> QED BY <1>4, <1>5, <1>6, <1>7, OpStays, WorkKeeps
\* `dlq requeue` has the first of the items it takes, all of one ID, in hand.
LEMMA CliTakeKeeps ==
  ASSUME Inductive, NEW q \in setup.queues, CliTake(q)
  PROVE  Inductive'
<1> DEFINE n == Dlq(q)
           s == queue[n]
<1>1. PICK id \in Ids(s) :
        LET known == {it \in Range(s) : it.id = id}
        IN  /\ queue' = [queue EXCEPT ![n] = Select(@, Range(@) \ known)]
            /\ op' = [pc |-> "cli", q |-> q,
                      items |-> <<[Head(Select(s, known)) EXCEPT !.tries = 0]>>]
  BY DEF CliTake
<1> DEFINE known == {it \in Range(s) : it.id = id}
           rest == Select(s, Range(s) \ known)
           first == Select(s, known)
           x == [Head(first) EXCEPT !.tries = 0]
<1>2. /\ TypeOK /\ FileBehind /\ op = Idle /\ "cli" \in setup.ops /\ n \in Names
      /\ UNCHANGED <<setup, up, held, hides, req, answered, done, withdrawn, failed, lost>>
      /\ file' = queue'
      /\ queue \in [Names -> Seq(Item)] /\ s \in Seq(Item)
  BY DEF Inductive, TypeOK, CliTake, history, Names, Dlq
<1>3. /\ queue' = [queue EXCEPT ![n] = rest]
      /\ op' = [pc |-> "cli", q |-> q, items |-> <<x>>]
  BY <1>1
<1> HIDE DEF n, s
<1>4. /\ rest \in Seq(Item) /\ Range(rest) = Range(s) \ known
      /\ first \in Seq(Item) /\ Range(first) = known
  <2>1. Range(s) \cap (Range(s) \ known) = Range(s) \ known /\ Range(s) \cap known = known
    OBVIOUS
  <2> HIDE DEF known
  <2> QED BY <1>2, <2>1, SelectPicks, SelectRange
<1>5. Head(first) \in Item /\ Head(first).id = id
  <2>1. \E it \in Range(s) : it.id = id
    BY <1>1, <1>2, IdsRange
  <2>2. known # {}
    BY <2>1
  <2>3. first # <<>>
    BY <1>4, <2>2 DEF Range
  <2>4. Head(first) \in Item /\ Head(first) \in Range(first)
    <3> HIDE DEF first
    <3> QED BY <1>4, <2>3, RangeTail
  <2> QED BY <1>4, <2>4
<1>6. x \in Item /\ x.id = id
  BY <1>5 DEF Item
<1>7. <<x>> \in Seq(Item) \ {<<>>} /\ Tail(<<x>>) = <<>> /\ Ids(<<x>>) = {id}
  <2>1. <<x>> \in Seq(Item) /\ <<x>> # <<>> /\ Tail(<<x>>) = <<>> /\ Head(<<x>>) = x
    BY <1>6, SingleSeq
  <2> HIDE DEF x
  <2>2. Ids(<<x>>) = {x.id} \cup Ids(<<>>) /\ Ids(<<>>) = {}
    BY <1>6, <2>1, IdsOf
  <2> QED BY <1>6, <2>1, <2>2
<1> HIDE DEF x, first, rest
<1>8. op' \in OpType /\ op'.items = <<x>>
  BY <1>3, <1>7 DEF OpType
<1>9. \A m \in Names : /\ queue'[m] = IF m = n THEN rest ELSE queue[m]
                       /\ Ids(queue'[m]) \subseteq Ids(queue[m])
                       /\ Ids(queue[m]) \subseteq Ids(queue'[m]) \cup {id}
  <2>1. Ids(rest) = {it.id : it \in Range(rest)} /\ Ids(s) = {it.id : it \in Range(s)}
    BY <1>2, <1>4, IdsRange
  <2>2. Ids(rest) \subseteq Ids(s) /\ Ids(s) \subseteq Ids(rest) \cup {id}
    BY <1>4, <2>1
  <2>3. \A m \in Names : queue'[m] = IF m = n THEN rest ELSE queue[m]
    BY <1>2, <1>3
  <2> QED BY <2>2, <2>3 DEF s
<1>10. queue' \in [Names -> Seq(Item)] /\ file' \in [Names -> Seq(Item)]
  BY <1>2, <1>3, <1>4
<1>11. FileBehind' /\ InFiles \subseteq InFiles' \cup failed \cup {id}
  <2>1. Names' = Names
    BY <1>2, SetupStays
  <2> QED BY <1>2, <1>9, <2>1 DEF FileBehind, InFiles
<1>12. TypeOK'
  BY <1>2, <1>7, <1>8, <1>10, SetupStays DEF TypeOK
<1>13. Kept \subseteq Kept'
  <2>1. Ids(op.items) = {}
    BY <1>2 DEF Idle, Ids
  <2> QED BY <1>2, <1>7, <1>8, <1>11, <2>1 DEF Kept, HeldIds
<1>14. UNCHANGED <<setup, req, answered>> /\ \A m \in Names : Ids(queue'[m]) \subseteq Ids(queue[m]) \cup Kept'
  BY <1>2, <1>9
<1> QED BY <1>2, <1>11, <1>12, <1>13, <1>14, WorkKeeps

\* It is queued, or counted as unsaved.
LEMMA CliPutKeeps ==
  ASSUME Inductive, CliPut
  PROVE  Inductive'
<1> DEFINE n == Live(op.q)
           x == Head(op.items)
<1>1. /\ TypeOK /\ FileBehind /\ op.pc = "cli" /\ setup' = setup /\ op' = Idle
      /\ UNCHANGED <<setup, up, held, hides, req, answered, done, withdrawn, lost>>
      /\ \/ Push(n, x) /\ failed' = failed
         \/ failed' = failed \cup Ids(op.items) /\ UNCHANGED <<queue, file>>
  BY DEF Inductive, CliPut
<1>2. x \in Item /\ n \in Names /\ Ids(op.items) = {x.id} /\ Ids(op.items) \subseteq ItemId
  <2>1. Tail(op.items) = <<>> /\ Ids(<<>>) = {}
    BY <1>1 DEF TypeOK, Ids
  <2> QED BY <1>1, <2>1, OpFacts
<1>3. "cli" \in setup.ops
  BY <1>1 DEF Inductive, TriedItems
<1> HIDE DEF n, x
<1>4. failed \subseteq failed' /\ failed' \subseteq ItemId
  BY <1>1, <1>2 DEF TypeOK
<1>5. /\ queue' \in [Names -> Seq(Item)] /\ file' \in [Names -> Seq(Item)] /\ FileBehind'
      /\ InFiles \subseteq InFiles' \cup failed' /\ x.id \in InFiles' \cup failed'
      /\ \A m \in Names : Ids(queue'[m]) \subseteq Ids(queue[m]) \cup {x.id}
  <2>1. CASE Push(n, x)
    BY <1>1, <1>2, <1>4, <2>1, PushKeeps
  <2>2. CASE failed' = failed \cup Ids(op.items) /\ UNCHANGED <<queue, file>>
    BY <1>1, <1>2, <2>2, SetupStays DEF TypeOK, FileBehind, InFiles
  <2> QED BY <1>1, <2>1, <2>2
<1>6. TypeOK'
  BY <1>1, <1>4, <1>5, SetupStays DEF TypeOK, Idle
<1>7. Kept \subseteq Kept' /\ x.id \in Kept'
  BY <1>1, <1>2, <1>4, <1>5 DEF Kept, HeldIds
<1>8. UNCHANGED <<setup, req, answered>> /\ \A m \in Names : Ids(queue'[m]) \subseteq Ids(queue[m]) \cup Kept'
  BY <1>1, <1>5, <1>7
<1> QED BY <1>3, <1>5, <1>6, <1>7, <1>8, WorkKeeps

\* A restart loads the files; what was in a hand is counted as lost.
LEMMA CrashKeeps ==
  ASSUME Inductive, Crash
  PROVE  Inductive'
<1>1. /\ TypeOK /\ setup \in Setups /\ setup' = setup /\ up' = FALSE
      /\ UNCHANGED <<setup, file, hides, answered, done, withdrawn, failed>>
      /\ queue' = file /\ held' = {} /\ op' = Idle
      /\ lost' = lost \cup {h.item.id : h \in held} \cup Ids(op.items)
      /\ req' = [c \in Clients |-> [req[c] EXCEPT !.pc = "idle", !.i = 1]]
  BY DEF Inductive, TypeOK, Crash
<1>2. /\ Names' = Names /\ Clients' = Clients /\ Item' = Item /\ ItemId' = ItemId /\ OpType' = OpType
  BY <1>1, SetupStays
<1>3. \A c \in Clients : req'[c] \in Request /\ req'[c].pc = "idle"
  <2> SUFFICES ASSUME NEW c \in Clients PROVE req'[c] \in Request /\ req'[c].pc = "idle"
    OBVIOUS
  <2>1. req'[c] = [req[c] EXCEPT !.pc = "idle", !.i = 1]
    BY <1>1
  <2>2. req[c] \in Request
    BY <1>1 DEF TypeOK
  <2>3. ASSUME NEW pc \in Stages, NEW i \in Nat \ {0}
        PROVE  LET z == [req[c] EXCEPT !.pc = pc, !.i = i] IN z \in Request /\ z.pc = pc
    BY <2>2
  <2> DEFINE pc == "idle"
             i == 1
             z == [req[c] EXCEPT !.pc = pc, !.i = i]
  <2>4. pc \in Stages /\ i \in Nat \ {0}
    OBVIOUS
  <2> HIDE DEF pc, i
  <2>5. z \in Request /\ z.pc = pc
    BY <2>3, <2>4
  <2> QED BY <2>1, <2>5 DEF pc, i
<1>4. req' \in [Clients -> Request]
  BY <1>1, <1>3
<1>5. AtQueue' /\ SentIsKept'
  BY <1>2, <1>3 DEF AtQueue, SentIsKept
<1>6. lost' \subseteq ItemId
  <2>1. Ids(op.items) \subseteq ItemId
    <3>1. CASE op.pc = "idle"
      <4>1. op = Idle
        BY <1>1, <3>1 DEF TypeOK, OpType
      <4>2. op.items = <<>>
        BY <4>1 DEF Idle
      <4> QED BY <4>2 DEF Ids
    <3> QED BY <1>1, <3>1, OpFacts
  <2>2. \A h \in held : h.item.id \in ItemId
    BY <1>1, HeldFacts
  <2> QED BY <1>1, <2>1, <2>2 DEF TypeOK
<1>7. TypeOK'
  BY <1>1, <1>2, <1>4, <1>6 DEF TypeOK, Idle
<1>8. InFiles' = InFiles /\ FileBehind'
  BY <1>1, <1>2 DEF InFiles, FileBehind
<1>9. Kept \subseteq Kept'
  BY <1>1, <1>8 DEF Kept, HeldIds
<1>10. QueuedIsKept' /\ AnsweredIsKept'
  <2>1. \A n \in Names : Ids(queue'[n]) \subseteq Kept'
    BY <1>1, <1>8 DEF InFiles, Kept
  <2> QED BY <1>1, <1>9, <2>1, KeptStep
<1>11. TriedItems'
  <2>1. op'.pc # "cli" /\ op'.items = <<>>
    BY <1>1 DEF Idle
  <2>2. \A i \in DOMAIN op'.items : op'.items[i].tries # 0
    BY <2>1
  <2> QED BY <1>1, <2>1, <2>2 DEF Inductive, TriedItems, Dlq
<1>12. \A q : Bound(q)' = Bound(q) /\ Admitted(q)' = {}
  <2>1. \A q : Bound(q)' = Bound(q) /\ Places(q)' = Places(q)
    BY <1>1, SetupStays
  <2>2. \A q : \A p \in Places(q) : ~Passed(p[1], p[2])'
    <3>1. \A c \in Clients : \A i : ~Passed(c, i)'
      BY <1>3 DEF Passed
    <3> QED BY <1>1, <3>1, PlacesFinite
  <2> QED BY <2>1, <2>2 DEF Admitted
<1>13. ASSUME "cli" \notin setup.ops, NEW q \in setup.queues, setup.maxDepth[q] > 0
       PROVE  /\ Cardinality(FreshIn(file[Live(q)])) <= Bound(q)
              /\ Cardinality(FreshIn(file[Live(q)])) + Cardinality({}) <= Bound(q)
  <2>1. Cardinality(FreshIn(file[Live(q)])) <= Bound(q)
    BY <1>13 DEF Inductive, FileBounded
  <2>2. Cardinality({}) = 0
    BY FreshEmpty
  <2>3. Cardinality(FreshIn(file[Live(q)])) \in Nat
    <3>1. file[Live(q)] \in Seq(Item)
      BY <1>1 DEF TypeOK, Names, Live
    <3> QED BY <3>1, FreshCounted
  <2> QED BY <2>1, <2>2, <2>3
<1>14. FileBounded' /\ DepthBounded'
  BY <1>1, <1>12, <1>13 DEF FileBounded, DepthBounded, Fresh, Live
<1> QED BY <1>5, <1>7, <1>8, <1>10, <1>11, <1>14 DEF Inductive

-----------------------------------------------------------------------------
(* The invariant.                                                           *)

\* Nothing is queued, answered or admitted at first.
LEMMA InitInductive ==
  ASSUME Init
  PROVE  Inductive
<1>1. /\ setup \in Setups /\ up = TRUE /\ queue = [n \in Names |-> <<>>] /\ file = queue
      /\ hides = {} /\ held = {} /\ op = Idle
      /\ req = [c \in Clients |-> [pc |-> "idle", sent |-> 0, i |-> 1]]
      /\ answered = {} /\ done = {} /\ withdrawn = {} /\ failed = {} /\ lost = {}
  BY DEF Init
<1>2. queue \in [Names -> Seq(Item)] /\ \A n \in Names : queue[n] = <<>> /\ file[n] = <<>>
  BY <1>1
<1>3. req \in [Clients -> Request] /\ \A c \in Clients : req[c].pc = "idle"
  BY <1>1
<1>4. TypeOK
  BY <1>1, <1>2, <1>3 DEF TypeOK, Idle
<1>5. AtQueue /\ SentIsKept /\ AnsweredIsKept
  BY <1>1, <1>3 DEF AtQueue, SentIsKept, AnsweredIsKept
<1>6. QueuedIsKept /\ FileBehind
  BY <1>2 DEF QueuedIsKept, FileBehind, Ids
<1>7. \A q \in setup.queues : Live(q) \in Names /\ Dlq(q) \in Names
  BY DEF Names, Live, Dlq
<1>8. TriedItems
  BY <1>1, <1>2, <1>7, FreshEmpty DEF TriedItems, Idle
<1>9. ASSUME NEW q \in setup.queues, setup.maxDepth[q] > 0
      PROVE  /\ Cardinality(FreshIn(file[Live(q)])) <= Bound(q)
             /\ Cardinality(Fresh(q)) + Cardinality(Admitted(q)) <= Bound(q)
  <2>1. Cardinality(FreshIn(file[Live(q)])) = 0 /\ Cardinality(Fresh(q)) = 0
    BY <1>2, <1>7, FreshEmpty DEF Fresh
  <2>2. Admitted(q) = {} /\ Cardinality({}) = 0
    <3>1. \A c \in Clients : \A i : ~Passed(c, i)
      BY <1>3 DEF Passed
    <3> QED BY <1>1, <3>1, PlacesFinite, FreshEmpty DEF Admitted
  <2>3. 0 <= Bound(q)
    BY <1>1, <1>9, SetupFacts, PlacesFinite DEF Bound
  <2> QED BY <2>1, <2>2, <2>3
<1> QED BY <1>4, <1>5, <1>6, <1>8, <1>9 DEF Inductive, FileBounded, DepthBounded

\* Every step keeps it.
LEMMA NextInductive ==
  ASSUME Inductive, [Next]_vars
  PROVE  Inductive'
<1>1. CASE \E c \in Clients : Receive(c) \/ RequestStep(c)
  BY <1>1, ReceiveKeeps, CheckDepthKeeps, PutHideKeeps, ScanKeeps, SendKeeps, AnswerKeeps DEF RequestStep
<1>2. CASE \E q \in setup.queues : Take(q) \/ Requeue(q) \/ CliTake(q)
  BY <1>2, TakeKeeps, RequeueKeeps, CliTakeKeeps
<1>3. CASE \E h \in held : HandlerStep(h)
  BY <1>3, BeginKeeps, SucceedKeeps, FailKeeps DEF HandlerStep
<1>4. CASE \E n \in Names : DrainQueue(n)
  BY <1>4, DrainQueueKeeps
<1>5. CASE OpStep
  BY <1>5, RequeueItemKeeps, RequeueFailsKeeps, CliPutKeeps DEF OpStep
<1>6. CASE Crash
  BY <1>6, CrashKeeps
<1>7. CASE (\E h \in hides : DeleteHide(h)) \/ Boot \/ WatchStep \/ TimeOut \/ UNCHANGED vars
  <2>1. up \in BOOLEAN
    BY DEF Inductive, TypeOK
  <2>2. UNCHANGED <<setup, work, req, op, history>> /\ up' \in BOOLEAN /\ hides' \subseteq hides
    <3>1. CASE \E h \in hides : DeleteHide(h)
      BY <2>1, <3>1 DEF DeleteHide
    <3>2. CASE Boot
      BY <3>2 DEF Boot
    <3>3. CASE WatchStep \/ TimeOut
      BY <2>1, <3>3 DEF WatchStep, StartWatch, ReadActive, Settle, EndWatch, ReadQueue, TimeOut, Looks
    <3>4. CASE UNCHANGED vars
      BY <2>1, <3>4 DEF vars
    <3> QED BY <1>7, <3>1, <3>2, <3>3, <3>4
  <2> QED BY <2>2, QuietKeeps
<1> QED BY <1>1, <1>2, <1>3, <1>4, <1>5, <1>6, <1>7 DEF Next

\* The invariant holds in every behaviour, whatever the installation.
THEOREM TanneryInductive ==
  Spec => []Inductive
<1>1. Init => Inductive
  BY InitInductive
<1>2. Inductive /\ [Next]_vars => Inductive'
  BY NextInductive
<1> QED BY <1>1, <1>2, PTL DEF Spec

\* What was answered with 202 is in a file, in somebody's hands, done or withdrawn,
\* except what a crash or a save that failed took, across redeliveries, requeues,
\* drains, `dlq requeue` and restarts (api_tannery.go:469-520, manager.go:187-210).
THEOREM AnsweredStaysKept ==
  Spec => []AnsweredIsKept
<1>1. Inductive => AnsweredIsKept
  BY DEF Inductive
<1> QED BY <1>1, TanneryInductive, PTL

\* A queue exceeds its max_depth by no more than the routes of the requests that
\* read its depth together, less one, whatever workers, operators, redeliveries and
\* restarts do (api_tannery.go:453-469, 788-797).
THEOREM DepthStaysBounded ==
  Spec => []DepthBounded
<1>1. Inductive => DepthBounded
  BY DEF Inductive
<1> QED BY <1>1, TanneryInductive, PTL
=============================================================================
