--------------------------- MODULE SelectionProofs ---------------------------
(***************************************************************************)
(* What the loop that filters a slice returns.  Select is a recursive      *)
(* function, and Picks says what it is without recursion: a sequence made  *)
(* of places of the slice, in their order.  Where one would argue by       *)
(* induction on the length, the least counterexample is taken instead.     *)
(***************************************************************************)
EXTENDS Selection, Functions, WellFoundedInduction, SequenceTheorems, TLAPS

\* The order on Nat as the relation that the library calls well-founded.
LEMMA LessThan ==
  ASSUME NEW x \in Nat, NEW y \in Nat
  PROVE  <<x, y>> \in OpToRel(<, Nat) <=> x < y
  BY SMT DEF OpToRel

\* A set of numbers that is not empty has a least one: what replaces induction
\* over the length of a sequence in this module.
LEMMA LeastNat ==
  ASSUME NEW T \in SUBSET Nat, T # {}
  PROVE  \E m \in T : \A n \in T : m <= n
<1>1. PICK m \in T : \A n \in T : ~(<<n, m>> \in OpToRel(<, Nat))
  BY WFMin, NatLessThanWellFounded
<1>2. \A n \in T : ~(n < m)
  BY <1>1, LessThan
<1> QED BY <1>2

\* One step of Select: what it has after the first i items of s.
Following(f, i, s, S) ==
  IF i = 0 THEN <<>>
  ELSE IF s[i] \in S THEN Append(f[i - 1], s[i]) ELSE f[i - 1]

\* The recursive function of Select exists, because its least counterexample
\* could be extended.
LEMMA UpToExists ==
  ASSUME NEW s, NEW S, NEW n \in Nat
  PROVE  \E f : f = [i \in 0..n |-> Following(f, i, s, S)]
<1> DEFINE Bad == {k \in Nat : ~ \E f : f = [i \in 0..k |-> Following(f, i, s, S)]}
<1> SUFFICES ASSUME Bad # {} PROVE FALSE
  OBVIOUS
<1>1. PICK m \in Bad : \A k \in Bad : m <= k
  BY LeastNat
<1>2. CASE m = 0
  <2> DEFINE f == [i \in 0..0 |-> <<>>]
  <2>1. f = [i \in 0..0 |-> Following(f, i, s, S)]
    BY DEF Following
  <2> QED BY <1>1, <1>2, <2>1
<1>3. CASE m # 0
  <2>0. m \in Nat
    OBVIOUS
  <2>1. m - 1 \in Nat /\ m - 1 \notin Bad
    BY <1>1, <1>3
  <2>2. PICK f : f = [i \in 0..m - 1 |-> Following(f, i, s, S)]
    BY <2>1
  <2> DEFINE g == [i \in 0..m |-> IF i = m THEN Following(f, m, s, S) ELSE f[i]]
  <2>3. \A i \in 0..m : g[i] = Following(g, i, s, S)
    <3> TAKE i \in 0..m
    <3>1. i # 0 => g[i - 1] = f[i - 1]
      BY <2>1
    <3>2. CASE i = m
      BY <3>1, <3>2 DEF Following
    <3>3. CASE i # m
      <4>1. i \in 0..m - 1 /\ g[i] = f[i]
        BY <3>3, <2>0
      <4>2. f[i] = Following(f, i, s, S)
        BY <2>2, <4>1
      <4> QED BY <3>1, <4>1, <4>2 DEF Following
    <3> QED BY <3>2, <3>3
  <2>4. g = [i \in 0..m |-> Following(g, i, s, S)]
    BY <2>3
  <2> QED BY <1>1, <2>4
<1> QED BY <1>2, <1>3

\* Select is the last value of that function.
LEMMA SelectSteps ==
  ASSUME NEW T, NEW s \in Seq(T), NEW S
  PROVE  \E f : /\ \A i \in 0..Len(s) : f[i] = Following(f, i, s, S)
                /\ Select(s, S) = f[Len(s)]
<1> DEFINE f == CHOOSE g : g = [i \in 0..Len(s) |-> Following(g, i, s, S)]
<1>1. Select(s, S) = f[Len(s)]
  BY DEF Select, Following
<1>2. f = [i \in 0..Len(s) |-> Following(f, i, s, S)]
  BY UpToExists
<1> QED BY <1>1, <1>2

\* h shows where in s the items of t come from: t keeps the order of s and has
\* exactly the items that are in S.
Picks(h, t, s, S, n) ==
  /\ h \in [1..Len(t) -> 1..n]
  /\ \A i, j \in 1..Len(t) : i < j => h[i] < h[j]
  /\ \A i \in 1..Len(t) : t[i] = s[h[i]] /\ s[h[i]] \in S
  /\ \A j \in 1..n : s[j] \in S => \E i \in 1..Len(t) : h[i] = j

\* An item that is not selected changes nothing, ...
LEMMA PicksSkip ==
  ASSUME NEW T, NEW t \in Seq(T), NEW s, NEW S, NEW n \in Nat,
         NEW h, Picks(h, t, s, S, n), s[n + 1] \notin S
  PROVE  Picks(h, t, s, S, n + 1)
<1>1. h \in [1..Len(t) -> 1..n + 1]
  BY DEF Picks
<1>2. ASSUME NEW j \in 1..n + 1, s[j] \in S
      PROVE  \E i \in 1..Len(t) : h[i] = j
  <2>1. j \in 1..n
    BY <1>2
  <2> QED BY <1>2, <2>1 DEF Picks
<1> QED BY <1>1, <1>2 DEF Picks

\* ... and one that is selected comes last.
LEMMA PicksAppend ==
  ASSUME NEW T, NEW t \in Seq(T), NEW s, NEW S, NEW n \in Nat,
         NEW h, Picks(h, t, s, S, n), s[n + 1] \in S, s[n + 1] \in T
  PROVE  \E g : Picks(g, Append(t, s[n + 1]), s, S, n + 1)
<1> DEFINE l == Len(t)
           u == Append(t, s[n + 1])
           g == [i \in 1..l + 1 |-> IF i = l + 1 THEN n + 1 ELSE h[i]]
<1>1. /\ Len(u) = l + 1 /\ l \in Nat
      /\ \A i \in 1..l : u[i] = t[i]
      /\ u[l + 1] = s[n + 1]
  OBVIOUS
<1>2. /\ \A i \in 1..l : h[i] \in 1..n
      /\ \A i, j \in 1..l : i < j => h[i] < h[j]
      /\ \A i \in 1..l : t[i] = s[h[i]] /\ s[h[i]] \in S
      /\ \A j \in 1..n : s[j] \in S => \E i \in 1..l : h[i] = j
  BY DEF Picks
<1>3. \A i \in 1..l + 1 : i # l + 1 => i \in 1..l
  BY <1>1
<1> HIDE DEF u, l
<1>4. g \in [1..l + 1 -> 1..n + 1]
  BY <1>2, <1>3
<1>5. (\A i \in 1..l : g[i] = h[i]) /\ g[l + 1] = n + 1
  BY <1>1
<1> HIDE DEF g
<1>6. ASSUME NEW i \in 1..l + 1, NEW j \in 1..l + 1, i < j
      PROVE  g[i] < g[j]
  <2>1. i \in 1..l
    BY <1>1, <1>6
  <2>2. g[i] = h[i] /\ h[i] \in 1..n
    BY <1>2, <1>5, <2>1
  <2>3. CASE j = l + 1
    BY <1>5, <2>2, <2>3
  <2>4. CASE j # l + 1
    <3>1. j \in 1..l
      BY <1>3, <2>4
    <3>2. h[i] < h[j] /\ g[j] = h[j]
      BY <1>2, <1>5, <1>6, <2>1, <3>1
    <3> QED BY <2>2, <3>2
  <2> QED BY <2>3, <2>4
<1>7. ASSUME NEW i \in 1..l + 1 PROVE u[i] = s[g[i]] /\ s[g[i]] \in S
  <2>1. CASE i = l + 1
    BY <1>1, <1>5, <2>1
  <2>2. CASE i # l + 1
    BY <1>1, <1>2, <1>3, <1>5, <2>2
  <2> QED BY <2>1, <2>2
<1>8. ASSUME NEW j \in 1..n + 1, s[j] \in S
      PROVE  \E i \in 1..l + 1 : g[i] = j
  <2>1. CASE j = n + 1
    BY <1>1, <1>5, <2>1
  <2>2. CASE j # n + 1
    <3>1. j \in 1..n
      BY <2>2
    <3>2. PICK i \in 1..l : h[i] = j
      BY <1>2, <1>8, <3>1
    <3>3. i \in 1..l + 1 /\ g[i] = j
      BY <1>1, <1>5, <3>2
    <3> QED BY <3>3
  <2> QED BY <2>1, <2>2
<1>9. Picks(g, u, s, S, n + 1)
  BY <1>1, <1>4, <1>6, <1>7, <1>8 DEF Picks
<1> QED BY <1>9 DEF u

\* What the loop of queue.go:103-109 keeps, whatever the slice: exactly the items
\* that it tests for, each from a place of its own, in the order of the slice.
THEOREM SelectPicks ==
  ASSUME NEW T, NEW s \in Seq(T), NEW S
  PROVE  /\ Select(s, S) \in Seq(T)
         /\ \E h : Picks(h, Select(s, S), s, S, Len(s))
<1>1. PICK f : /\ \A i \in 0..Len(s) : f[i] = Following(f, i, s, S)
               /\ Select(s, S) = f[Len(s)]
  BY SelectSteps
<1> DEFINE Good(n) == f[n] \in Seq(T) /\ \E h : Picks(h, f[n], s, S, n)
           Bad == {n \in 0..Len(s) : ~Good(n)}
<1>2. Bad = {}
  <2> SUFFICES ASSUME Bad # {} PROVE FALSE
    OBVIOUS
  <2>0. Bad \subseteq Nat
    OBVIOUS
  <2>1. PICK m \in Bad : \A k \in Bad : m <= k
    <3> HIDE DEF Bad
    <3> QED BY <2>0, LeastNat
  <2>2. CASE m = 0
    <3>1. f[0] = <<>>
      BY <1>1 DEF Following
    <3>2. Picks(<<>>, <<>>, s, S, 0)
      BY DEF Picks
    <3>3. Good(0)
      BY <3>1, <3>2
    <3> QED BY <2>2, <3>3
  <2>3. CASE m # 0
    <3>1. m \in 1..Len(s) /\ m - 1 \in 0..Len(s) /\ m - 1 \notin Bad /\ s[m] \in T
      BY <2>1, <2>3
    <3> DEFINE t == f[m - 1]
    <3>2. t \in Seq(T)
      BY <3>1
    <3>3. PICK h : Picks(h, t, s, S, m - 1)
      BY <3>1
    <3>4. f[m] = IF s[m] \in S THEN Append(t, s[m]) ELSE t
      BY <1>1, <3>1 DEF Following
    <3> DEFINE n == m - 1
    <3>5. n \in Nat /\ m = n + 1
      BY <3>1
    <3> HIDE DEF t, n
    <3>6. CASE s[m] \notin S
      BY <3>2, <3>3, <3>4, <3>5, <3>6, PicksSkip, <2>1 DEF n
    <3>7. CASE s[m] \in S
      <4>1. \E g : Picks(g, Append(t, s[m]), s, S, m)
        BY <3>1, <3>2, <3>3, <3>5, <3>7, PicksAppend DEF n
      <4>2. Append(t, s[m]) \in Seq(T)
        BY <3>1, <3>2
      <4> QED BY <2>1, <3>4, <3>7, <4>1, <4>2
    <3> QED BY <3>6, <3>7
  <2> QED BY <2>2, <2>3
<1>3. Good(Len(s))
  BY <1>2
<1> QED BY <1>1, <1>3

-----------------------------------------------------------------------------
(* There is only one such sequence.                                         *)

\* Two ways to pick the same items agree place by place, ...
LEMMA SameFrom ==
  ASSUME NEW s, NEW S, NEW n \in Nat, NEW T, NEW t \in Seq(T), NEW u \in Seq(T),
         NEW h, Picks(h, t, s, S, n), NEW g, Picks(g, u, s, S, n),
         Len(t) <= Len(u)
  PROVE  \A i \in 1..Len(t) : h[i] = g[i]
<1> DEFINE Bad == {i \in 1..Len(t) : h[i] # g[i]}
<1> SUFFICES ASSUME Bad # {} PROVE FALSE
  OBVIOUS
<1>1. Bad \subseteq Nat /\ Len(t) \in Nat /\ Len(u) \in Nat
  OBVIOUS
<1>2. PICK i \in Bad : \A k \in Bad : i <= k
  <2> HIDE DEF Bad
  <2> QED BY <1>1, LeastNat
<1>3. /\ i \in 1..Len(t) /\ i \in 1..Len(u) /\ h[i] # g[i]
      /\ \A k \in 1..i - 1 : h[k] = g[k]
  BY <1>1, <1>2
<1>4. /\ h[i] \in 1..n /\ g[i] \in 1..n
      /\ s[h[i]] \in S /\ s[g[i]] \in S
  BY <1>3 DEF Picks
<1>5. ASSUME h[i] < g[i] PROVE FALSE
  <2>1. PICK k \in 1..Len(u) : g[k] = h[i]
    BY <1>4 DEF Picks
  <2>2. k < i
    <3> SUFFICES ASSUME i <= k PROVE FALSE
      BY <1>3
    <3>1. CASE i = k
      BY <1>4, <1>5, <2>1, <3>1
    <3>2. CASE i < k
      <4>1. g[i] < g[k]
        BY <1>3, <3>2 DEF Picks
      <4> QED BY <1>4, <1>5, <2>1, <4>1
    <3> QED BY <1>3, <3>1, <3>2
  <2>3. h[k] = h[i] /\ k \in 1..Len(t)
    BY <1>1, <1>3, <2>1, <2>2
  <2>4. h[k] < h[i]
    BY <1>3, <2>2, <2>3 DEF Picks
  <2> QED BY <1>4, <2>3, <2>4
<1>6. ASSUME g[i] < h[i] PROVE FALSE
  <2>1. PICK k \in 1..Len(t) : h[k] = g[i]
    BY <1>4 DEF Picks
  <2>2. k < i
    <3> SUFFICES ASSUME i <= k PROVE FALSE
      BY <1>3
    <3>1. CASE i = k
      BY <1>4, <1>6, <2>1, <3>1
    <3>2. CASE i < k
      <4>1. h[i] < h[k]
        BY <1>3, <3>2 DEF Picks
      <4> QED BY <1>4, <1>6, <2>1, <4>1
    <3> QED BY <1>3, <3>1, <3>2
  <2>3. g[k] = g[i] /\ k \in 1..Len(u)
    BY <1>1, <1>3, <2>1, <2>2
  <2>4. g[k] < g[i]
    BY <1>3, <2>2, <2>3 DEF Picks
  <2> QED BY <1>4, <2>3, <2>4
<1> QED BY <1>3, <1>4, <1>5, <1>6

\* ... and so the picked sequences are the same.
LEMMA SameLength ==
  ASSUME NEW s, NEW S, NEW n \in Nat, NEW T, NEW t \in Seq(T), NEW u \in Seq(T),
         NEW h, Picks(h, t, s, S, n), NEW g, Picks(g, u, s, S, n),
         Len(t) <= Len(u)
  PROVE  t = u
<1>1. \A i \in 1..Len(t) : h[i] = g[i]
  BY SameFrom
<1>2. Len(t) = Len(u)
  <2> SUFFICES ASSUME Len(t) < Len(u) PROVE FALSE
    OBVIOUS
  <2> DEFINE l == Len(t) + 1
  <2>1. l \in 1..Len(u) /\ g[l] \in 1..n /\ s[g[l]] \in S
    BY DEF Picks
  <2>2. PICK k \in 1..Len(t) : h[k] = g[l]
    BY <2>1 DEF Picks
  <2>3. k \in 1..Len(u) /\ k < l /\ g[k] = g[l]
    BY <1>1, <2>2
  <2>4. g[k] < g[l]
    BY <2>1, <2>3 DEF Picks
  <2> QED BY <2>1, <2>3, <2>4
<1>3. \A i \in 1..Len(t) : t[i] = u[i]
  BY <1>1, <1>2 DEF Picks
<1> QED BY <1>2, <1>3

\* No other sequence is made of these places: whatever is shown to pick them is
\* what Select returns.
THEOREM SelectUnique ==
  ASSUME NEW T, NEW s \in Seq(T), NEW S, NEW t \in Seq(T),
         NEW h, Picks(h, t, s, S, Len(s))
  PROVE  t = Select(s, S)
<1>1. Len(s) \in Nat /\ Select(s, S) \in Seq(T)
  BY SelectPicks
<1>2. PICK g : Picks(g, Select(s, S), s, S, Len(s))
  BY SelectPicks
<1>3. Len(t) \in Nat /\ Len(Select(s, S)) \in Nat
  BY <1>1
<1>4. CASE Len(t) <= Len(Select(s, S))
  BY <1>1, <1>2, <1>4, SameLength
<1>5. CASE Len(Select(s, S)) <= Len(t)
  BY <1>1, <1>2, <1>5, SameLength
<1> QED BY <1>3, <1>4, <1>5

-----------------------------------------------------------------------------
(* What the other proofs use.                                               *)

\* The selected items are those of the slice that pass the test (queue.go:103).
THEOREM SelectRange ==
  ASSUME NEW T, NEW s \in Seq(T), NEW S
  PROVE  Range(Select(s, S)) = Range(s) \cap S
<1> DEFINE t == Select(s, S)
<1>1. t \in Seq(T) /\ DOMAIN s = 1..Len(s) /\ DOMAIN t = 1..Len(t)
  BY SelectPicks
<1>2. PICK h : Picks(h, t, s, S, Len(s))
  BY SelectPicks
<1> HIDE DEF t
<1>3. ASSUME NEW i \in 1..Len(t) PROVE t[i] \in Range(s) \cap S
  BY <1>1, <1>2, <1>3 DEF Picks, Range
<1>4. ASSUME NEW j \in 1..Len(s), s[j] \in S PROVE s[j] \in Range(t)
  BY <1>1, <1>2, <1>4 DEF Picks, Range
<1>5. Range(t) = Range(s) \cap S
  BY <1>1, <1>3, <1>4 DEF Range
<1> QED BY <1>5 DEF t

\* Only the test of items in the slice matters.
THEOREM SelectSame ==
  ASSUME NEW T, NEW s \in Seq(T), NEW S, NEW R,
         \A x \in Range(s) : x \in S <=> x \in R
  PROVE  Select(s, S) = Select(s, R)
<1>1. PICK h : Picks(h, Select(s, S), s, S, Len(s))
  BY SelectPicks
<1>2. \A j \in 1..Len(s) : s[j] \in S <=> s[j] \in R
  BY DEF Range
<1>3. Picks(h, Select(s, S), s, R, Len(s))
  BY <1>1, <1>2 DEF Picks
<1> QED BY <1>3, SelectPicks, SelectUnique

\* Nothing is lost when every item passes the test.
THEOREM SelectAll ==
  ASSUME NEW T, NEW s \in Seq(T), NEW S, Range(s) \subseteq S
  PROVE  Select(s, S) = s
<1>1. \A j \in 1..Len(s) : s[j] \in S
  BY DEF Range
<1>2. Picks([i \in 1..Len(s) |-> i], s, s, S, Len(s))
  BY <1>1 DEF Picks
<1> QED BY <1>2, SelectUnique

\* When only the head fails the test, the rest is Tail, which is Dequeue
\* (queue.go:58).
THEOREM SelectTail ==
  ASSUME NEW T, NEW s \in Seq(T), NEW S, s # <<>>,
         Head(s) \notin S, Range(Tail(s)) \subseteq S
  PROVE  Select(s, S) = Tail(s)
<1> DEFINE t == Tail(s)
           h == [i \in 1..Len(t) |-> i + 1]
<1>1. /\ t \in Seq(T) /\ Len(t) = Len(s) - 1 /\ Len(s) \in Nat \ {0}
      /\ \A i \in 1..Len(t) : t[i] = s[i + 1]
      /\ Head(s) = s[1]
  OBVIOUS
<1>2. \A i \in 1..Len(t) : t[i] \in S
  <2>1. DOMAIN t = 1..Len(t)
    BY <1>1
  <2> QED BY <2>1 DEF Range
<1> HIDE DEF t
<1>3. \A j \in 1..Len(s) : s[j] \in S => j # 1 /\ j - 1 \in 1..Len(t)
  BY <1>1 DEF t
<1>4. Picks(h, t, s, S, Len(s))
  BY <1>1, <1>2, <1>3 DEF Picks
<1>5. t = Select(s, S)
  BY <1>1, <1>4, SelectUnique
<1> QED BY <1>5 DEF t

\* Two loops, one after the other, are one loop with both tests.
THEOREM SelectTwice ==
  ASSUME NEW T, NEW s \in Seq(T), NEW S, NEW R
  PROVE  Select(Select(s, S), R) = Select(s, S \cap R)
<1> DEFINE t == Select(s, S)
           u == Select(t, R)
<1>1. t \in Seq(T) /\ u \in Seq(T)
  BY SelectPicks
<1>2. PICK h : Picks(h, t, s, S, Len(s))
  BY SelectPicks
<1>3. PICK g : Picks(g, u, t, R, Len(t))
  BY <1>1, SelectPicks
<1> HIDE DEF t, u
<1> DEFINE c == [i \in 1..Len(u) |-> h[g[i]]]
<1>4. \A i \in 1..Len(u) : g[i] \in 1..Len(t) /\ c[i] = h[g[i]] /\ c[i] \in 1..Len(s)
  BY <1>2, <1>3 DEF Picks
<1> HIDE DEF c
<1>5. c \in [1..Len(u) -> 1..Len(s)]
  BY <1>4 DEF c
<1>6. \A i, j \in 1..Len(u) : i < j => c[i] < c[j]
  BY <1>2, <1>3, <1>4 DEF Picks
<1>7. \A i \in 1..Len(u) : u[i] = s[c[i]] /\ s[c[i]] \in S \cap R
  <2> TAKE i \in 1..Len(u)
  <2>1. u[i] = t[g[i]] /\ t[g[i]] \in R
    BY <1>3 DEF Picks
  <2>2. t[g[i]] = s[h[g[i]]] /\ s[h[g[i]]] \in S
    BY <1>2, <1>4 DEF Picks
  <2> QED BY <1>4, <2>1, <2>2
<1>8. ASSUME NEW j \in 1..Len(s), s[j] \in S \cap R
      PROVE  \E i \in 1..Len(u) : c[i] = j
  <2>1. PICK k \in 1..Len(t) : h[k] = j
    BY <1>2, <1>8 DEF Picks
  <2>2. t[k] \in R
    BY <1>2, <1>8, <2>1 DEF Picks
  <2>3. PICK i \in 1..Len(u) : g[i] = k
    BY <1>3, <2>1, <2>2 DEF Picks
  <2> QED BY <1>4, <2>1, <2>3
<1>9. Picks(c, u, s, S \cap R, Len(s))
  BY <1>5, <1>6, <1>7, <1>8 DEF Picks
<1>10. u = Select(s, S \cap R)
  BY <1>1, <1>9, SelectUnique
<1> QED BY <1>10 DEF t, u

\* The loop over a slice with one more item ends with the test of that item.
THEOREM SelectAppend ==
  ASSUME NEW T, NEW s \in Seq(T), NEW x \in T, NEW S
  PROVE  Select(Append(s, x), S) =
           IF x \in S THEN Append(Select(s, S), x) ELSE Select(s, S)
<1> DEFINE t == Select(s, S)
           a == Append(s, x)
           n == Len(s)
<1>1. /\ a \in Seq(T) /\ Len(a) = n + 1 /\ n \in Nat /\ t \in Seq(T) /\ Len(t) \in Nat
      /\ \A i \in 1..n : a[i] = s[i]
      /\ a[n + 1] = x
  BY SelectPicks
<1>2. PICK h : Picks(h, t, s, S, n)
  BY SelectPicks
<1>3. Picks(h, t, a, S, n)
  <2>1. \A i \in 1..Len(t) : h[i] \in 1..n
    BY <1>2 DEF Picks
  <2>2. \A i \in 1..Len(t) : a[h[i]] = s[h[i]]
    BY <1>1, <2>1
  <2>3. \A j \in 1..n : a[j] = s[j]
    BY <1>1
  <2> HIDE DEF t, a, n
  <2> QED BY <1>2, <2>2, <2>3 DEF Picks
<1> HIDE DEF t, a, n
<1>4. CASE x \notin S
  <2>1. Picks(h, t, a, S, n + 1)
    BY <1>1, <1>3, <1>4, PicksSkip
  <2>2. t = Select(a, S)
    BY <1>1, <2>1, SelectUnique
  <2> QED BY <1>4, <2>2 DEF t, a
<1>5. CASE x \in S
  <2>1. PICK g : Picks(g, Append(t, x), a, S, n + 1)
    BY <1>1, <1>3, <1>5, PicksAppend
  <2> DEFINE u == Append(t, x)
  <2>2. u \in Seq(T) /\ Picks(g, u, a, S, Len(a))
    BY <1>1, <2>1
  <2> HIDE DEF u
  <2>3. u = Select(a, S)
    BY <1>1, <2>2, SelectUnique
  <2> QED BY <1>5, <2>3 DEF t, a, u
<1> QED BY <1>4, <1>5

-----------------------------------------------------------------------------
(* Select keeps no item twice, and the ranges of the other operations.      *)

\* No item of the slice is selected twice.
THEOREM SelectInjective ==
  ASSUME NEW T, NEW s \in Seq(T), NEW S
  PROVE  \E h \in [1..Len(Select(s, S)) -> 1..Len(s)] :
           /\ \A i, j \in 1..Len(Select(s, S)) : h[i] = h[j] => i = j
           /\ \A i \in 1..Len(Select(s, S)) : Select(s, S)[i] = s[h[i]]
<1> DEFINE t == Select(s, S)
<1>1. PICK h : Picks(h, t, s, S, Len(s))
  BY SelectPicks
<1>2. t \in Seq(T) /\ Len(t) \in Nat
  BY SelectPicks
<1> HIDE DEF t
<1>3. /\ h \in [1..Len(t) -> 1..Len(s)]
      /\ \A i \in 1..Len(t) : t[i] = s[h[i]]
      /\ \A i, j \in 1..Len(t) : i < j => h[i] < h[j]
  BY <1>1 DEF Picks
<1>4. ASSUME NEW i \in 1..Len(t), NEW j \in 1..Len(t), h[i] = h[j] PROVE i = j
  <2>1. h[i] \in Nat /\ h[j] \in Nat
    BY <1>3
  <2>2. ~(h[i] < h[j]) /\ ~(h[j] < h[i])
    BY <1>4, <2>1
  <2> QED BY <1>3, <2>2
<1> QED BY <1>3, <1>4 DEF t

\* The items of a sequence are what it has at its places.
LEMMA RangeSeq ==
  ASSUME NEW T, NEW s \in Seq(T)
  PROVE  /\ Range(s) \subseteq T
         /\ \A x \in Range(s) : \E i \in 1..Len(s) : s[i] = x
         /\ \A i \in 1..Len(s) : s[i] \in Range(s)
         /\ s = <<>> <=> Range(s) = {}
<1>1. /\ DOMAIN s = 1..Len(s) /\ Len(s) \in Nat /\ \A i \in 1..Len(s) : s[i] \in T
      /\ s = <<>> <=> Len(s) = 0
  OBVIOUS
<1>2. Range(s) \subseteq T /\ \A i \in 1..Len(s) : s[i] \in Range(s)
  BY <1>1 DEF Range
<1>3. \A x \in Range(s) : \E i \in 1..Len(s) : s[i] = x
  BY <1>1 DEF Range
<1>4. s # <<>> => 1 \in 1..Len(s)
  BY <1>1
<1>5. s = <<>> <=> Range(s) = {}
  BY <1>1, <1>2, <1>3, <1>4
<1> QED BY <1>2, <1>3, <1>5

\* Append adds its item ...
LEMMA RangeAppend ==
  ASSUME NEW T, NEW s \in Seq(T), NEW x \in T
  PROVE  Append(s, x) \in Seq(T) /\ Range(Append(s, x)) = Range(s) \cup {x}
<1> DEFINE a == Append(s, x)
<1>1. /\ a \in Seq(T) /\ Len(s) \in Nat /\ Len(a) = Len(s) + 1
      /\ \A i \in 1..Len(s) : a[i] = s[i]
      /\ a[Len(s) + 1] = x
      /\ DOMAIN s = 1..Len(s) /\ DOMAIN a = 1..Len(s) + 1
  OBVIOUS
<1> HIDE DEF a
<1>2. \A y \in Range(a) : y \in Range(s) \cup {x}
  BY <1>1 DEF Range
<1>3. \A y \in Range(s) \cup {x} : y \in Range(a)
  BY <1>1 DEF Range
<1> QED BY <1>1, <1>2, <1>3 DEF a

\* ... Tail takes the head away ...
LEMMA RangeTail ==
  ASSUME NEW T, NEW s \in Seq(T), s # <<>>
  PROVE  /\ Tail(s) \in Seq(T) /\ Head(s) \in T
         /\ Range(s) = {Head(s)} \cup Range(Tail(s))
<1> DEFINE t == Tail(s)
<1>1. /\ DOMAIN s = 1..Len(s) /\ DOMAIN t = 1..Len(s) - 1 /\ Len(s) \in Nat \ {0}
      /\ t \in Seq(T) /\ Head(s) \in T
      /\ \A i \in 1..Len(s) - 1 : t[i] = s[i + 1]
      /\ Head(s) = s[1]
  OBVIOUS
<1> HIDE DEF t
<1>2. \A y \in {Head(s)} \cup Range(t) : y \in Range(s)
  BY <1>1 DEF Range
<1>3. ASSUME NEW i \in 1..Len(s) PROVE s[i] \in {Head(s)} \cup Range(t)
  <2>1. CASE i = 1
    BY <1>1, <2>1
  <2>2. CASE i # 1
    <3>1. i - 1 \in 1..Len(s) - 1 /\ t[i - 1] = s[i]
      BY <1>1, <2>2
    <3> QED BY <1>1, <3>1 DEF Range
  <2> QED BY <2>1, <2>2
<1>4. \A y \in Range(s) : y \in {Head(s)} \cup Range(t)
  BY <1>1, <1>3 DEF Range
<1> QED BY <1>1, <1>2, <1>4 DEF t

\* ... and a concatenation has the items of both.
LEMMA RangeConcat ==
  ASSUME NEW T, NEW s \in Seq(T), NEW t \in Seq(T)
  PROVE  s \o t \in Seq(T) /\ Range(s \o t) = Range(s) \cup Range(t)
  BY RangeConcatenation
=============================================================================
