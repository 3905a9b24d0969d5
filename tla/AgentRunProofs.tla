--------------------------- MODULE AgentRunProofs ---------------------------
(***************************************************************************)
(* Proofs about the runs of an agent.  About Session and AgentRun: what    *)
(* every operation of a session keeps of its shape, and from it that a run *)
(* that succeeds has used the required tools, that a call succeeds once,   *)
(* that clear: true isolates the turns, that results follow their calls    *)
(* and that hide_next goes on.  About Startup: that a run has the settings *)
(* of the highest layer that gives one, that the runs of what validate     *)
(* accepts start, and that the jobs are those the lifecycles mean.         *)
(***************************************************************************)
EXTENDS AgentRun, StartupIntent, SelectionProofs, FiniteSetTheorems

(* The least and the largest number of a set.                               *)

\* Min is the least of a set of numbers, ...
LEMMA MinIsLeast ==
  ASSUME NEW S \in SUBSET Nat, S # {}
  PROVE  Min(S) \in S /\ \A x \in S : Min(S) <= x
<1>1. \E m \in S : \A x \in S : m <= x
  BY LeastNat
<1> QED BY <1>1 DEF Min

\* ... and Max the largest.
LEMMA MaxIsLargest ==
  ASSUME NEW n \in Nat, NEW S \in SUBSET (0..n), S # {}
  PROVE  Max(S) \in S /\ \A x \in S : x <= Max(S)
<1> DEFINE Left == {k \in 0..n : n - k \in S}
<1>1. Left \in SUBSET Nat /\ Left # {}
  <2>1. PICK x \in S : TRUE
    OBVIOUS
  <2>2. n - x \in 0..n /\ n - (n - x) = x
    BY <2>1
  <2>3. n - x \in Left
    BY <2>1, <2>2
  <2>4. \A k \in Left : k \in Nat
    OBVIOUS
  <2> HIDE DEF Left
  <2> QED BY <2>3, <2>4
<1>2. PICK l \in Left : \A y \in Left : l <= y
  BY <1>1, LeastNat
<1>3. PICK m \in S : l = n - m
  <2>1. l \in 0..n /\ n - l \in S /\ l = n - (n - l)
    OBVIOUS
  <2> QED BY <2>1
<1>4. \A x \in S : x <= m
  <2> TAKE x \in S
  <2>1. n - x \in Left
    OBVIOUS
  <2>2. n - m <= n - x
    BY <1>2, <1>3, <2>1
  <2> QED BY <2>2
<1>5. \E k \in S : \A x \in S : k >= x
  BY <1>4
<1>6. Max(S) \in S /\ \A x \in S : Max(S) >= x
  BY <1>5 DEF Max
<1> QED BY <1>6

-----------------------------------------------------------------------------
(* The shape of a session.                                                  *)

\* No message but a system message is from before turn n.
Recent(s, n) == \A i \in DOMAIN s : IsSystem(s[i]) \/ s[i].turn >= n

\* A summary is of the assistant and only system messages precede it.
SummaryFirst(s) ==
  \A i \in DOMAIN s : s[i].content = "summary" =>
    s[i].role = "assistant" /\ \A j \in 1..i - 1 : IsSystem(s[j])

\* The agent's prompt is the first message and the only one of the system.
Headed(s) ==
  /\ s # <<>> /\ IsSystem(s[1]) /\ s[1].content = "identity"
  /\ \A i \in 2..Len(s) : ~IsSystem(s[i])

Unsummarized(s) == \A i \in DOMAIN s : s[i].content # "summary"

\* Between a result and the calls it answers there are only results.
Follows(s, i) ==
  \E j \in 1..i - 1 :
    /\ s[j].content \in {"calls", "navigate"}
    /\ \A k \in j + 1..i : s[k].role = "tool"

Chained(s) ==
  Unsummarized(s) => \A i \in DOMAIN s : s[i].role = "tool" => Follows(s, i)

\* A result can come next.
Asked(s) ==
  Unsummarized(s) =>
    s # <<>> /\ (s[Len(s)].role = "tool" \/ s[Len(s)].content \in {"calls", "navigate"})

SessionOK(s, T) == s \in Seq(Messages(T)) /\ SummaryFirst(s) /\ Chained(s)

\* What Summarized and Settled make of a session.
LEMMA SummarizedKeeps ==
  ASSUME NEW T \in SUBSET Nat, NEW s \in Seq(Messages(T)), SummaryFirst(s)
  PROVE  /\ SessionOK(Summarized(s), T)
         /\ \A n \in Nat : Recent(s, n) => Recent(Summarized(s), n)
         /\ Headed(s) => Headed(Summarized(s))
         /\ (\E i \in DOMAIN s : ~IsSystem(s[i])) => ~Unsummarized(Summarized(s))
<1> DEFINE rest == {i \in DOMAIN s : ~IsSystem(s[i])}
           system == DOMAIN s \ rest
           turns == {s[i].turn : i \in rest}
           summary == Message("assistant", Min(turns), "summary")
<1>0. Summarized(s) = IF rest = {} THEN s
                      ELSE IF system = {} THEN <<summary>>
                      ELSE <<s[Max(system)], summary>>
  BY DEF Summarized
<1>1. \A i \in DOMAIN s : s[i] \in Messages(T) /\ s[i].turn \in T
  <2> TAKE i \in DOMAIN s
  <2>1. s[i] \in Messages(T)
    OBVIOUS
  <2> QED BY <2>1 DEF Messages
<1>2. CASE rest = {}
  <2>1. Summarized(s) = s /\ \A i \in DOMAIN s : IsSystem(s[i])
    BY <1>0, <1>2
  <2>2. \A i \in DOMAIN s : s[i].role # "tool"
    BY <2>1 DEF IsSystem
  <2>3. SessionOK(s, T)
    BY <2>2 DEF SessionOK, Chained
  <2> QED BY <2>1, <2>3
<1>3. CASE rest # {}
  <2>1. turns \in SUBSET Nat /\ turns # {}
    BY <1>1, <1>3
  <2>2. Min(turns) \in turns /\ \A x \in turns : Min(turns) <= x
    BY <2>1, MinIsLeast
  <2>3. /\ summary \in Messages(T) /\ ~IsSystem(summary)
        /\ summary.content = "summary" /\ summary.role = "assistant"
        /\ summary.turn = Min(turns)
    BY <2>2, <1>1 DEF Messages, Message, Contents, IsSystem
  <2>4. \A n \in Nat : Recent(s, n) => summary.turn >= n
    <3> TAKE n \in Nat
    <3>1. PICK i \in rest : Min(turns) = s[i].turn
      BY <2>2
    <3>2. Recent(s, n) => s[i].turn >= n
      BY DEF Recent
    <3> QED BY <3>1, <3>2, <2>3
  <2> HIDE DEF summary, turns
  <2>5. CASE system = {}
    <3>1. Summarized(s) = <<summary>>
      BY <1>0, <1>3, <2>5
    <3>2. ~Headed(s)
      BY <2>5 DEF Headed
    <3> QED BY <2>3, <2>4, <3>1, <3>2
         DEF SessionOK, SummaryFirst, Chained, Unsummarized, Recent
  <2>6. CASE system # {}
    <3> DEFINE m == Max(system)
    <3>1. system \in SUBSET (0..Len(s)) /\ Len(s) \in Nat
      OBVIOUS
    <3>2. m \in system /\ \A x \in system : x <= m
      BY <2>6, <3>1, MaxIsLargest
    <3>3. Summarized(s) = <<s[m], summary>>
      BY <1>0, <1>3, <2>6
    <3> HIDE DEF m
    <3>4. s[m] \in Messages(T) /\ IsSystem(s[m]) /\ s[m].content # "summary"
      BY <1>1, <3>2 DEF SummaryFirst, IsSystem
    <3>5. Headed(s) => m = 1
      BY <3>1, <3>2 DEF Headed
    <3>6. <<s[m], summary>> \in Seq(Messages(T))
      BY <2>3, <3>4
    <3> DEFINE t == <<s[m], summary>>
    <3>7. Len(t) = 2 /\ DOMAIN t = 1..2 /\ t[1] = s[m] /\ t[2] = summary
      OBVIOUS
    <3> HIDE DEF t
    <3>8. SessionOK(t, T) /\ ~Unsummarized(t)
      BY <2>3, <3>4, <3>6, <3>7 DEF SessionOK, SummaryFirst, Chained, Unsummarized, t
    <3>9. \A n \in Nat : Recent(s, n) => Recent(t, n)
      BY <2>4, <3>4, <3>7 DEF Recent
    <3>10. Headed(s) => Headed(t)
      BY <2>3, <3>4, <3>5, <3>7 DEF Headed
    <3> QED BY <3>3, <3>8, <3>9, <3>10 DEF t
  <2> QED BY <2>5, <2>6
<1> QED BY <1>2, <1>3

\* Add summarizes when the session is too long (session.go:64-70), ...
LEMMA SettledKeeps ==
  ASSUME NEW T \in SUBSET Nat, NEW s, SessionOK(s, T), NEW k
  PROVE  /\ SessionOK(Settled(s, k), T)
         /\ \A n \in Nat : Recent(s, n) => Recent(Settled(s, k), n)
         /\ Headed(s) => Headed(Settled(s, k))
         /\ (\E i \in DOMAIN s : ~IsSystem(s[i])) /\ Asked(s) => Asked(Settled(s, k))
<1>1. s \in Seq(Messages(T)) /\ SummaryFirst(s)
  BY DEF SessionOK
<1>2. CASE Len(s) >= k
  <2>1. Settled(s, k) = Summarized(s)
    BY <1>2 DEF Settled
  <2> QED BY <1>1, <2>1, SummarizedKeeps DEF Asked
<1>3. CASE ~(Len(s) >= k)
  BY <1>3 DEF Settled
<1> QED BY <1>2, <1>3

\* What one more message does to a session.
LEMMA AppendKeeps ==
  ASSUME NEW T \in SUBSET Nat, NEW s, SessionOK(s, T),
         NEW m \in Messages(T), m.content # "summary", m.role = "tool" => Asked(s)
  PROVE  /\ SessionOK(Append(s, m), T)
         /\ \A n \in Nat : Recent(s, n) /\ (m.turn >= n \/ IsSystem(m))
                            => Recent(Append(s, m), n)
         /\ Headed(s) /\ ~IsSystem(m) => Headed(Append(s, m))
         /\ m.role = "tool" \/ m.content \in {"calls", "navigate"} => Asked(Append(s, m))
         /\ ~IsSystem(m) => \E i \in DOMAIN Append(s, m) : ~IsSystem(Append(s, m)[i])
<1> DEFINE l == Len(s)
           t == Append(s, m)
<1>1. s \in Seq(Messages(T)) /\ SummaryFirst(s) /\ Chained(s)
  BY DEF SessionOK
<1>2. /\ t \in Seq(Messages(T)) /\ Len(t) = l + 1 /\ l \in Nat
      /\ DOMAIN s = 1..l /\ DOMAIN t = 1..l + 1
      /\ \A i \in 1..l : t[i] = s[i]
      /\ t[l + 1] = m /\ t # <<>>
  BY <1>1
<1> HIDE DEF t, l
<1>3. \A i \in 1..l + 1 : i # l + 1 => i \in 1..l
  BY <1>2
<1>4. SummaryFirst(t)
  <2> SUFFICES ASSUME NEW i \in 1..l + 1, t[i].content = "summary"
               PROVE  t[i].role = "assistant" /\ \A j \in 1..i - 1 : IsSystem(t[j])
    BY <1>2 DEF SummaryFirst
  <2>1. i \in 1..l /\ \A j \in 1..i - 1 : j \in 1..l
    BY <1>2, <1>3
  <2> QED BY <1>1, <1>2, <2>1 DEF SummaryFirst
<1>5. Unsummarized(t) <=> Unsummarized(s)
  <2>1. Unsummarized(t) => Unsummarized(s)
    BY <1>2 DEF Unsummarized
  <2>2. Unsummarized(s) => Unsummarized(t)
    BY <1>2, <1>3 DEF Unsummarized
  <2> QED BY <2>1, <2>2
<1>6. ASSUME NEW i \in 1..l, Follows(s, i)
      PROVE  Follows(t, i)
  <2>1. PICK j \in 1..i - 1 : /\ s[j].content \in {"calls", "navigate"}
                              /\ \A k \in j + 1..i : s[k].role = "tool"
    BY <1>6 DEF Follows
  <2>2. j \in 1..l /\ \A k \in j + 1..i : k \in 1..l
    BY <1>2
  <2> QED BY <1>2, <2>1, <2>2 DEF Follows
<1>7. Chained(t)
  <2> SUFFICES ASSUME Unsummarized(t), NEW i \in 1..l + 1, t[i].role = "tool"
               PROVE  Follows(t, i)
    BY <1>2 DEF Chained
  <2>1. CASE i \in 1..l
    BY <1>1, <1>2, <1>5, <1>6, <2>1 DEF Chained
  <2>2. CASE i = l + 1
    <3>1. l \in 1..l /\ (s[l].role = "tool" \/ s[l].content \in {"calls", "navigate"})
      BY <1>2, <1>5, <2>2, <1>1 DEF Asked, l
    <3>2. CASE s[l].role = "tool"
      <4>1. Follows(s, l)
        BY <1>1, <1>2, <1>5, <3>1, <3>2 DEF Chained
      <4>2. PICK j \in 1..l - 1 : /\ s[j].content \in {"calls", "navigate"}
                                  /\ \A k \in j + 1..l : s[k].role = "tool"
        BY <4>1 DEF Follows
      <4>3. j \in 1..l /\ j \in 1..i - 1
        BY <1>2, <2>2
      <4>4. \A k \in j + 1..i : k = l + 1 \/ (k \in 1..l /\ k \in j + 1..l)
        BY <1>2, <2>2
      <4>5. \A k \in j + 1..i : t[k].role = "tool"
        BY <1>2, <2>2, <4>2, <4>4
      <4> QED BY <1>2, <4>2, <4>3, <4>5 DEF Follows
    <3>3. CASE s[l].content \in {"calls", "navigate"}
      <4>1. l \in 1..i - 1 /\ \A k \in l + 1..i : k = l + 1
        BY <1>2, <2>2, <3>1
      <4> QED BY <1>2, <2>2, <3>1, <3>3, <4>1 DEF Follows
    <3> QED BY <3>1, <3>2, <3>3
  <2> QED BY <1>3, <2>1, <2>2
<1>8. \A n \in Nat : Recent(s, n) /\ (m.turn >= n \/ IsSystem(m)) => Recent(t, n)
  BY <1>2, <1>3 DEF Recent
<1>9. Headed(s) /\ ~IsSystem(m) => Headed(t)
  <2> HAVE Headed(s) /\ ~IsSystem(m)
  <2>1. 1 \in 1..l
    BY <1>1, <1>2 DEF Headed
  <2>2. \A i \in 2..l + 1 : i = l + 1 \/ (i \in 1..l /\ i \in 2..l)
    BY <1>2
  <2>3. \A i \in 2..l : ~IsSystem(s[i])
    BY DEF Headed, l
  <2> QED BY <1>2, <2>1, <2>2, <2>3 DEF Headed
<1>10. m.role = "tool" \/ m.content \in {"calls", "navigate"} => Asked(t)
  BY <1>2 DEF Asked
<1>11. ~IsSystem(m) => \E i \in DOMAIN t : ~IsSystem(t[i])
  BY <1>2
<1> QED BY <1>2, <1>4, <1>7, <1>8, <1>9, <1>10, <1>11 DEF SessionOK, t

\* ... after it has appended its message.
LEMMA AddKeeps ==
  ASSUME NEW T \in SUBSET Nat, NEW s, SessionOK(s, T), NEW k,
         NEW m \in Messages(T), m.content # "summary", m.role = "tool" => Asked(s)
  PROVE  /\ SessionOK(Add(s, m, k), T)
         /\ \A n \in Nat : Recent(s, n) /\ (m.turn >= n \/ IsSystem(m))
                            => Recent(Add(s, m, k), n)
         /\ Headed(s) /\ ~IsSystem(m) => Headed(Add(s, m, k))
         /\ ~IsSystem(m) /\ (m.role = "tool" \/ m.content \in {"calls", "navigate"})
              => Asked(Add(s, m, k))
<1> DEFINE t == Append(s, m)
<1>1. Add(s, m, k) = Settled(t, k)
  BY DEF Add
<1>2. /\ SessionOK(t, T)
      /\ \A n \in Nat : Recent(s, n) /\ (m.turn >= n \/ IsSystem(m)) => Recent(t, n)
      /\ Headed(s) /\ ~IsSystem(m) => Headed(t)
      /\ m.role = "tool" \/ m.content \in {"calls", "navigate"} => Asked(t)
      /\ ~IsSystem(m) => \E i \in DOMAIN t : ~IsSystem(t[i])
  BY AppendKeeps
<1> HIDE DEF t
<1> QED BY <1>1, <1>2, SettledKeeps

\* Only the first message can survive a reset, as a message of the system.
LEMMA ResetKeeps ==
  ASSUME NEW T \in SUBSET Nat, NEW s, SessionOK(s, T)
  PROVE  /\ SessionOK(Reset(s), T)
         /\ \A n \in Nat : Recent(Reset(s), n)
         /\ Headed(s) => Headed(Reset(s))
<1>1. s \in Seq(Messages(T)) /\ SummaryFirst(s)
  BY DEF SessionOK
<1>2. CASE s # <<>> /\ IsSystem(Head(s))
  <2> DEFINE t == <<s[1]>>
  <2>1. Reset(s) = t /\ s[1] \in Messages(T) /\ IsSystem(s[1]) /\ 1 \in DOMAIN s
    BY <1>1, <1>2 DEF Reset
  <2>2. s[1].role # "tool" /\ s[1].content # "summary"
    BY <1>1, <2>1 DEF IsSystem, SummaryFirst
  <2>3. /\ t \in Seq(Messages(T)) /\ Len(t) = 1 /\ DOMAIN t = 1..1
        /\ t[1] = s[1] /\ t # <<>> /\ 2..1 = {}
    BY <2>1
  <2> HIDE DEF t
  <2>4. SessionOK(t, T)
    BY <2>2, <2>3 DEF SessionOK, SummaryFirst, Chained
  <2>5. \A n \in Nat : Recent(t, n)
    BY <2>1, <2>3 DEF Recent
  <2>6. Headed(s) => Headed(t)
    BY <2>1, <2>3 DEF Headed
  <2> QED BY <2>1, <2>4, <2>5, <2>6
<1>3. CASE ~(s # <<>> /\ IsSystem(Head(s)))
  <2>1. Reset(s) = <<>> /\ ~Headed(s)
    BY <1>1, <1>3 DEF Reset, Headed
  <2> QED BY <2>1 DEF SessionOK, SummaryFirst, Chained, Recent
<1> QED BY <1>2, <1>3

\* What is cut out of a session begins after the head and holds no summary.
LEMMA CompactKeeps ==
  ASSUME NEW T \in SUBSET Nat, NEW s, SessionOK(s, T), NEW k
  PROVE  /\ SessionOK(CompactLatestHidePage(s, k), T)
         /\ \A n \in Nat : Recent(s, n) => Recent(CompactLatestHidePage(s, k), n)
         /\ Headed(s) => Headed(CompactLatestHidePage(s, k))
<1> DEFINE l == Len(s)
           pages == {i \in 1..l - 1 : IsHidePageMessage(s[i])}
           page == Max(pages)
           starts == {i \in 1..page :
                        \A j \in i..page - 1 : IsHideNavigationScaffold(s[j])}
           start == Min(starts)
           t == Append(SubSeq(s, 1, start - 1), Last(s))
<1>0. s \in Seq(Messages(T)) /\ SummaryFirst(s) /\ Chained(s) /\ l \in Nat
  BY DEF SessionOK
<1>1. CompactLatestHidePage(s, k) =
        IF s = <<>> \/ Last(s).role # "assistant" \/ pages = {} THEN s ELSE Settled(t, k)
  BY DEF CompactLatestHidePage
<1>2. CASE s = <<>> \/ Last(s).role # "assistant" \/ pages = {}
  BY <1>1, <1>2
<1>3. CASE ~(s = <<>> \/ Last(s).role # "assistant" \/ pages = {})
  <2>1. pages \in SUBSET (0..l) /\ pages # {}
    BY <1>0, <1>3
  <2>2. page \in pages
    BY <1>0, <2>1, MaxIsLargest
  <2>3. page \in 1..l - 1 /\ s[page].content = "page" /\ ~IsSystem(s[page])
    BY <2>2 DEF IsHidePageMessage, IsSystem
  <2> HIDE DEF page, pages
  <2>4. page \in starts /\ starts \in SUBSET Nat
    BY <2>3
  <2>5. start \in starts
    BY <2>4, MinIsLeast
  <2>6. start \in 1..page /\ \A j \in start..page - 1 : IsHideNavigationScaffold(s[j])
    BY <2>5
  <2> HIDE DEF starts, start
  <2>7. /\ l \in 1..l /\ DOMAIN s = 1..l /\ start \in 1..l - 1
        /\ Last(s) = s[l] /\ s[l] \in Messages(T) /\ s[l].role = "assistant"
    BY <1>0, <1>3, <2>3, <2>6 DEF Last
  <2>8. /\ t \in Seq(Messages(T)) /\ Len(t) = start /\ DOMAIN t = 1..start
        /\ \A i \in 1..start - 1 : t[i] = s[i] /\ i \in 1..l
        /\ t[start] = s[l] /\ t # <<>>
    <3> DEFINE u == SubSeq(s, 1, start - 1)
    <3>1. /\ u \in Seq(Messages(T)) /\ Len(u) = start - 1
          /\ \A i \in 1..start - 1 : u[i] = s[i] /\ i \in 1..l
      BY <1>0, <2>7
    <3> HIDE DEF u
    <3>2. t = Append(u, s[l])
      BY <2>7 DEF u
    <3>3. /\ Append(u, s[l]) \in Seq(Messages(T)) /\ Len(Append(u, s[l])) = start
          /\ \A i \in 1..start - 1 : Append(u, s[l])[i] = u[i]
          /\ Append(u, s[l])[start] = s[l]
      BY <3>1, <2>7
    <3> HIDE DEF t
    <3> QED BY <3>1, <3>2, <3>3, <2>7
  <2> HIDE DEF t
  <2>9. \A i \in 1..start : i = start \/ i \in 1..start - 1
    BY <2>7
  <2>10. SummaryFirst(t)
    <3> SUFFICES ASSUME NEW i \in 1..start, t[i].content = "summary"
                 PROVE  t[i].role = "assistant" /\ \A j \in 1..i - 1 : IsSystem(t[j])
      BY <2>8 DEF SummaryFirst
    <3>1. CASE i = start
      <4>1. s[l].content = "summary" /\ page \in 1..l - 1
        BY <2>3, <2>8, <3>1
      <4> QED BY <1>0, <2>3, <2>7, <4>1 DEF SummaryFirst
    <3>2. CASE i \in 1..start - 1
      <4>1. \A j \in 1..i - 1 : j \in 1..start - 1
        BY <2>7, <3>2
      <4> QED BY <1>0, <2>7, <2>8, <3>2, <4>1 DEF SummaryFirst
    <3> QED BY <2>9, <3>1, <3>2
  <2>11. Unsummarized(t) => Unsummarized(s)
    <3> SUFFICES ASSUME Unsummarized(t), NEW i \in 1..l, s[i].content = "summary"
                 PROVE  FALSE
      BY <2>7 DEF Unsummarized
    <3>1. \A j \in 1..i - 1 : IsSystem(s[j])
      BY <1>0, <2>7 DEF SummaryFirst
    <3>2. ~(page \in 1..i - 1)
      BY <2>3, <3>1
    <3>3. i # page
      BY <2>3
    <3>4. i \in 1..page - 1
      BY <1>0, <2>3, <3>2, <3>3
    <3>5. i \notin start..page - 1
      BY <2>6 DEF IsHideNavigationScaffold
    <3>6. i \in 1..start - 1
      BY <2>6, <3>4, <3>5
    <3> QED BY <2>8, <3>6 DEF Unsummarized
  <2>12. Chained(t)
    <3> SUFFICES ASSUME Unsummarized(t), NEW i \in 1..start, t[i].role = "tool"
                 PROVE  Follows(t, i)
      BY <2>8 DEF Chained
    <3>1. i \in 1..start - 1
      BY <2>7, <2>8, <2>9
    <3>2. Follows(s, i)
      BY <1>0, <2>7, <2>8, <2>11, <3>1 DEF Chained
    <3>3. PICK j \in 1..i - 1 : /\ s[j].content \in {"calls", "navigate"}
                                /\ \A n \in j + 1..i : s[n].role = "tool"
      BY <3>2 DEF Follows
    <3>4. j \in 1..start - 1 /\ \A n \in j + 1..i : n \in 1..start - 1
      BY <2>7, <3>1
    <3> QED BY <2>8, <3>3, <3>4 DEF Follows
  <2>13. \A n \in Nat : Recent(s, n) => Recent(t, n)
    BY <2>7, <2>8, <2>9 DEF Recent
  <2>14. Headed(s) => Headed(t)
    <3> HAVE Headed(s)
    <3>1. page # 1 /\ 1 \notin start..page - 1
      BY <2>3, <2>6 DEF Headed, IsHideNavigationScaffold
    <3>2. start # 1
      BY <2>3, <2>6, <3>1
    <3>3. 1 \in 1..start - 1 /\ \A i \in 2..start : i = start \/ (i \in 1..start - 1 /\ i \in 2..l)
      BY <2>7, <3>2
    <3> QED BY <2>7, <2>8, <3>3 DEF Headed, IsSystem
  <2>15. SessionOK(t, T)
    BY <2>8, <2>10, <2>12 DEF SessionOK
  <2> QED BY <1>1, <1>3, <2>13, <2>14, <2>15, SettledKeeps
<1> QED BY <1>2, <1>3

-----------------------------------------------------------------------------
(* The inductive invariant.                                                 *)

Required(i) == setup.turns[i].require # {}

\* The turns that have ended have acted, and so has this one once it may end.
ActsInv ==
  /\ \A i \in 1..turn - 1 : Required(i) => i \in acted
  /\ pc \in {"call", "exec"} /\ met /\ Required(turn) => turn \in acted
  /\ RequiredActs

\* The turn whose clear: true the session knows of: not yet that of a turn
\* that is about to begin.
Cleared == IF pc = "turn" /\ turn > 1 THEN LastClear(turn - 1) ELSE LastClear(turn)

NoSkills == \A i \in DOMAIN setup.turns : ~setup.turns[i].skill

SessionInv ==
  /\ SummaryFirst(sess) /\ Chained(sess)
  /\ pc = "start" => sess = <<>>
  /\ pc = "exec" => todo # <<>> /\ Asked(sess)
  /\ pc # "done" => Recent(sess, Cleared)
  /\ pc \in {"turn", "call", "exec"} /\ setup.identity /\ NoSkills => Headed(sess)

Inductive == TypeOK /\ ActsInv /\ WithinRepeats /\ SessionInv

\* Max of two numbers.
LEMMA LargerOf ==
  ASSUME NEW x \in Int, NEW y \in Int
  PROVE  Max({x, y}) = IF x >= y THEN x ELSE y
  BY SMT DEF Max

\* What the assumptions say of the setup of a run.
LEMMA SetupFacts ==
  ASSUME TypeOK
  PROVE  /\ SetupOK(setup) /\ turn \in Nat \ {0}
         /\ DOMAIN setup.turns = 1..Len(setup.turns) /\ Len(setup.turns) \in Nat
         /\ \A i \in DOMAIN setup.turns : setup.turns[i] \in Turns
         /\ Rounds \in Nat \ {0}
         /\ 0..turn \in SUBSET Nat
<1>1. SetupOK(setup)
  BY SetupsOK DEF TypeOK
<1>2. setup.turns \in Seq(Turns) /\ setup.rounds \in Nat \ {0}
  BY <1>1 DEF SetupOK
<1>3. turn \in DOMAIN setup.turns
  BY DEF TypeOK
<1>4. Rounds \in Nat \ {0}
  BY <1>2 DEF Rounds
<1>5. /\ DOMAIN setup.turns = 1..Len(setup.turns) /\ Len(setup.turns) \in Nat
      /\ \A i \in DOMAIN setup.turns : setup.turns[i] \in Turns
  BY <1>2
<1>6. turn \in Nat \ {0}
  BY <1>3, <1>5
<1>7. 0..turn \in SUBSET Nat
  BY <1>6
<1> QED BY <1>1, <1>4, <1>5, <1>6, <1>7

\* The last turn that cleared, at a turn and at the next one.
LEMMA LastClears ==
  ASSUME TypeOK, NEW n \in Nat \ {0}
  PROVE  /\ LastClear(n) \in 1..n
         /\ LastClear(1) = 1
         /\ n > 1 /\ ~setup.turns[n].clear => LastClear(n) = LastClear(n - 1)
<1> DEFINE Isolates(m) == {i \in 1..m : setup.turns[i].clear \/ i = 1}
<1>1. \A m \in Nat \ {0} : /\ LastClear(m) \in Isolates(m)
                            /\ \A i \in Isolates(m) : i <= LastClear(m)
  <2> TAKE m \in Nat \ {0}
  <2>1. Isolates(m) \in SUBSET (0..m) /\ 1 \in Isolates(m)
    BY SMT
  <2>2. LastClear(m) = Max(Isolates(m))
    BY DEF LastClear
  <2> HIDE DEF Isolates
  <2> QED BY <2>1, <2>2, MaxIsLargest
<1>2. LastClear(n) \in 1..n /\ LastClear(1) = 1
  BY <1>1
<1>3. ASSUME n > 1, ~setup.turns[n].clear
      PROVE  LastClear(n) = LastClear(n - 1)
  <2>1. Isolates(n) = Isolates(n - 1)
    BY <1>3
  <2>2. n - 1 \in Nat \ {0}
    BY <1>3
  <2> HIDE DEF Isolates
  <2>3. /\ LastClear(n) <= LastClear(n - 1) /\ LastClear(n - 1) <= LastClear(n)
    BY <1>1, <2>1, <2>2
  <2>4. LastClear(n) \in Int /\ LastClear(n - 1) \in Int
    BY <1>1, <2>2 DEF Isolates
  <2> QED BY <2>3, <2>4
<1> QED BY <1>2, <1>3

\* A message of the turn.
LEMMA SayKeeps ==
  ASSUME TypeOK, NEW s, SessionOK(s, 0..turn),
         NEW role \in {"user", "assistant", "tool"},
         NEW content \in Contents \ {"summary"}, role = "tool" => Asked(s)
  PROVE  LET t == Add(s, Message(role, turn, content), setup.threshold) IN
         /\ SessionOK(t, 0..turn)
         /\ \A n \in Nat : Recent(s, n) /\ turn >= n => Recent(t, n)
         /\ Headed(s) => Headed(t)
         /\ role = "tool" \/ content \in {"calls", "navigate"} => Asked(t)
<1> DEFINE m == Message(role, turn, content)
<1>1. /\ m \in Messages(0..turn) /\ m.content = content /\ m.role = role /\ m.turn = turn
      /\ ~IsSystem(m)
  BY SetupFacts DEF Messages, Message, IsSystem
<1>2. m.content # "summary" /\ 0..turn \in SUBSET Nat
  BY <1>1, SetupFacts
<1> HIDE DEF m
<1> QED BY <1>1, <1>2, AddKeeps DEF m

-----------------------------------------------------------------------------
(* Every step keeps the session in shape.                                   *)

\* What a turn makes of its session s.
Carries(s, t) ==
  /\ SessionOK(t, 0..turn)
  /\ \A n \in Nat : Recent(s, n) /\ turn >= n => Recent(t, n)
  /\ Headed(s) => Headed(t)

SessionNext == sess' \in Seq(Messages(0..turn')) /\ SessionInv'

\* A step that leaves the session alone.
LEMMA SessionSame ==
  ASSUME TypeOK, SessionInv, UNCHANGED <<setup, turn, sess>>, pc' \in {pc, "done"},
         pc' = "exec" => todo' # <<>>
  PROVE  SessionNext
<1>1. pc' # "done" => Cleared' = Cleared
  BY DEF Cleared, LastClear
<1>2. pc' = "start" => pc = "start"
  OBVIOUS
<1>3. pc' = "exec" => pc = "exec"
  OBVIOUS
<1>4. pc' \in {"turn", "call", "exec"} => pc = pc'
  OBVIOUS
<1>5. (pc' # "done" => Recent(sess', Cleared')) /\ sess' \in Seq(Messages(0..turn'))
  BY <1>1 DEF SessionInv, TypeOK
<1>6. NoSkills' = NoSkills /\ setup'.identity = setup.identity
  BY DEF NoSkills
<1> QED BY <1>2, <1>3, <1>4, <1>5, <1>6 DEF SessionNext, SessionInv

\* A step that only adds to the session.
LEMMA SessionCarried ==
  ASSUME TypeOK, SessionInv, pc \in {"call", "exec"}, setup' = setup, Carries(sess, sess'),
         \/ turn' = turn /\ pc' \in {"call", "exec", "done"}
         \/ turn' = turn + 1 /\ pc' = "turn",
         pc' = "exec" => todo' # <<>> /\ Asked(sess')
  PROVE  SessionNext
<1>1. Cleared = LastClear(turn) /\ LastClear(turn) \in Nat /\ turn >= LastClear(turn)
  <2>1. turn \in Nat \ {0} /\ LastClear(turn) \in 1..turn
    BY SetupFacts, LastClears
  <2> QED BY <2>1 DEF Cleared
<1>2. Recent(sess', LastClear(turn))
  BY <1>1 DEF SessionInv, Carries
<1>3. pc' # "done" => Cleared' = LastClear(turn)
  <2>1. CASE turn' = turn /\ pc' \in {"call", "exec", "done"}
    BY <2>1 DEF Cleared, LastClear
  <2>2. CASE turn' = turn + 1 /\ pc' = "turn"
    <3>1. turn' > 1 /\ turn' - 1 = turn
      BY <2>2, SetupFacts
    <3> QED BY <2>2, <3>1 DEF Cleared, LastClear
  <2> QED BY <2>1, <2>2
<1>4. /\ sess' \in Seq(Messages(0..turn)) /\ SummaryFirst(sess') /\ Chained(sess')
      /\ Headed(sess) => Headed(sess')
  BY DEF Carries, SessionOK
<1>5. sess' \in Seq(Messages(0..turn'))
  <2>1. turn' \in Nat /\ 0..turn \subseteq 0..turn'
    BY SetupFacts
  <2>2. Messages(0..turn) \subseteq Messages(0..turn')
    BY <2>1 DEF Messages
  <2> QED BY <1>4, <2>2
<1>6. setup.identity /\ NoSkills => Headed(sess)
  BY DEF SessionInv
<1>7. NoSkills' = NoSkills /\ setup'.identity = setup.identity
  BY DEF NoSkills
<1>8. pc' # "start"
  OBVIOUS
<1> QED BY <1>2, <1>3, <1>4, <1>5, <1>6, <1>7, <1>8 DEF SessionNext, SessionInv

\* What the runner says in a round can be added.
LEMMA Said ==
  ASSUME TypeOK, SessionInv,
         NEW role \in {"user", "assistant", "tool"},
         NEW content \in Contents \ {"summary"}, role = "tool" => Asked(sess)
  PROVE  /\ Carries(sess, Say(sess, role, content))
         /\ role = "tool" \/ content \in {"calls", "navigate"}
              => Asked(Say(sess, role, content))
<1>1. SessionOK(sess, 0..turn)
  BY DEF SessionOK, SessionInv, TypeOK
<1> QED BY <1>1, SayKeeps DEF Carries, Say

\* The result of a call follows the calls of its round.
LEMMA EndCallCarries ==
  ASSUME TypeOK, SessionInv, pc = "exec", NEW content \in {"result", "page"},
         NEW h, NEW tools, EndCall(content, h, tools), UNCHANGED <<setup, turn>>
  PROVE  SessionNext
<1>1. sess' = Say(sess, "tool", content) /\ Asked(sess)
  BY DEF EndCall, SessionInv
<1>2. Carries(sess, sess') /\ Asked(sess')
  <2>1. content \in Contents \ {"summary"}
    BY DEF Contents
  <2> QED BY <1>1, <2>1, Said
<1>3. todo \in Seq(Names) /\ todo # <<>>
  BY DEF TypeOK, SessionInv
<1>4. pc' \in {"call", "exec"} /\ (pc' = "exec" => todo' # <<>>)
  <2>1. CASE Len(todo) = 1
    BY <2>1 DEF EndCall
  <2>2. CASE Len(todo) # 1
    <3>1. Len(Tail(todo)) # 0
      BY <1>3, <2>2
    <3>2. todo' = Tail(todo) /\ pc' = "exec"
      BY <2>2 DEF EndCall
    <3>3. Len(<<>>) = 0
      OBVIOUS
    <3>4. Tail(todo) # <<>>
      BY <3>1, <3>3
    <3> QED BY <3>2, <3>4
  <2> QED BY <2>1, <2>2
<1> QED BY <1>2, <1>4, SessionCarried

\* Every step of a run keeps the session in shape.
LEMMA SessionStep ==
  ASSUME TypeOK, SessionInv, Next
  PROVE  SessionNext
<1>0. SessionOK(sess, 0..turn) /\ 0..turn \in SUBSET Nat /\ turn \in Nat \ {0}
  BY SetupFacts DEF SessionOK, SessionInv, TypeOK
<1>1. CASE Fail
  BY <1>1, SessionSame DEF Fail
<1>2. CASE Start
  <2>1. pc = "start" /\ sess = <<>>
    BY <1>2 DEF Start, SessionInv
  <2>2. CASE pc' = "done" /\ UNCHANGED <<setup, turn, sess>>
    BY <2>2, SessionSame
  <2>3. CASE /\ pc' = "turn" /\ UNCHANGED <<setup, turn>>
             /\ sess' = (IF setup.identity
                         THEN Add(<<>>, Message("system", 0, "identity"), setup.threshold)
                         ELSE <<>>)
    <3> DEFINE m == Message("system", 0, "identity")
               s == Append(<<>>, m)
    <3>1. /\ m \in Messages(0..turn) /\ m.content = "identity" /\ m.role # "tool"
          /\ IsSystem(m)
      BY <1>0 DEF Messages, Message, Contents, IsSystem
    <3>2. /\ s \in Seq(Messages(0..turn)) /\ Len(s) = 1 /\ DOMAIN s = 1..1 /\ s[1] = m
          /\ s # <<>> /\ 2..1 = {}
      BY <3>1
    <3> HIDE DEF s, m
    <3>3. SessionOK(s, 0..turn) /\ Headed(s) /\ \A n \in Nat : Recent(s, n)
      BY <3>1, <3>2 DEF SessionOK, SummaryFirst, Chained, Headed, Recent
    <3>4. LET t == Settled(s, setup.threshold) IN
            SessionOK(t, 0..turn) /\ Headed(t) /\ \A n \in Nat : Recent(t, n)
      BY <1>0, <3>3, SettledKeeps
    <3>5. setup.identity => /\ SessionOK(sess', 0..turn) /\ Headed(sess')
                            /\ \A n \in Nat : Recent(sess', n)
      BY <2>3, <3>4 DEF Add, s, m
    <3>6. ~setup.identity => SessionOK(sess', 0..turn) /\ \A n \in Nat : Recent(sess', n)
      BY <2>3 DEF SessionOK, SummaryFirst, Chained, Recent
    <3>7. Cleared' \in Nat
      <4>1. Cleared' = IF turn > 1 THEN LastClear(turn - 1) ELSE LastClear(turn)
        BY <2>3 DEF Cleared, LastClear
      <4>2. turn > 1 => turn - 1 \in Nat \ {0}
        BY <1>0
      <4>3. LastClear(turn) \in Nat /\ (turn > 1 => LastClear(turn - 1) \in Nat)
        BY <1>0, <4>2, LastClears
      <4> QED BY <4>1, <4>3
    <3>8. sess' \in Seq(Messages(0..turn')) /\ SummaryFirst(sess') /\ Chained(sess')
      BY <2>3, <3>5, <3>6 DEF SessionOK
    <3> QED BY <2>3, <3>5, <3>6, <3>7, <3>8 DEF SessionNext, SessionInv
  <2> QED BY <1>1, <1>2, <2>2, <2>3 DEF Start
<1>3. CASE BeginTurn
  <2>1. CASE Fail
    BY <2>1, <1>1
  <2>2. CASE /\ pc = "turn" /\ sess' = Opening(turn, Kept(turn, sess))
             /\ pc' = "call" /\ UNCHANGED <<setup, turn>>
    <3> DEFINE s == Kept(turn, sess)
               c == LastClear(turn)
               sk == Message("system", turn, "skill")
               u == IF Turn.skill THEN Add(s, sk, setup.threshold) ELSE s
               v == Add(u, Message("user", turn, Turn.prompt), setup.threshold)
    <3>1. c \in 1..turn /\ c \in Nat /\ c <= turn /\ (~Turn.clear => Cleared = c)
      <4>1. c \in 1..turn /\ LastClear(1) = 1
        BY <1>0, LastClears
      <4>2. turn > 1 /\ ~Turn.clear => LastClear(turn - 1) = c
        BY <1>0, LastClears DEF Turn
      <4> QED BY <1>0, <2>2, <4>1, <4>2 DEF Cleared
    <3>2. /\ SessionOK(s, 0..turn) /\ Recent(s, c)
          /\ (Headed(sess) => Headed(s))
      <4>1. CASE Turn.clear
        BY <1>0, <3>1, <4>1, ResetKeeps DEF Kept, Turn
      <4>2. CASE ~Turn.clear
        <5>1. Recent(sess, Cleared)
          BY <2>2 DEF SessionInv
        <5> QED BY <1>0, <3>1, <4>2, <5>1 DEF Kept, Turn
      <4> QED BY <4>1, <4>2
    <3> HIDE DEF s, c
    <3>3. /\ sk \in Messages(0..turn) /\ sk.content = "skill" /\ sk.role = "system"
          /\ IsSystem(sk)
      BY <1>0 DEF Messages, Message, Contents, IsSystem
    <3>4. sk.content # "summary" /\ sk.role # "tool"
      BY <3>3
    <3> HIDE DEF sk
    <3>5. /\ SessionOK(u, 0..turn) /\ Recent(u, c)
          /\ (~Turn.skill /\ Headed(sess) => Headed(u))
      BY <1>0, <3>1, <3>2, <3>3, <3>4, AddKeeps
    <3> HIDE DEF u
    <3>6. Turn.prompt \in Contents \ {"summary"}
      <4>1. Turn \in Turns
        BY SetupFacts DEF Turn, TypeOK
      <4> QED BY <4>1 DEF Turns, Contents
    <3>7. /\ SessionOK(v, 0..turn) /\ Recent(v, c) /\ (Headed(u) => Headed(v))
      BY <3>1, <3>5, <3>6, SayKeeps
    <3>8. sess' = v
      BY <2>2 DEF Opening, Turn, u, s, sk
    <3> HIDE DEF v
    <3>9. setup.identity /\ NoSkills => Headed(sess) /\ ~Turn.skill
      BY <2>2 DEF SessionInv, NoSkills, Turn, TypeOK
    <3>10. NoSkills' = NoSkills /\ setup'.identity = setup.identity /\ Cleared' = c
      BY <2>2 DEF NoSkills, Cleared, LastClear, c
    <3>11. sess' \in Seq(Messages(0..turn')) /\ SummaryFirst(sess') /\ Chained(sess')
      BY <2>2, <3>7, <3>8 DEF SessionOK
    <3> QED BY <2>2, <3>5, <3>7, <3>8, <3>9, <3>10, <3>11 DEF SessionNext, SessionInv
  <2> QED BY <1>3, <2>1, <2>2 DEF BeginTurn
<1>4. CASE CompletionFails
  BY <1>1, <1>4 DEF CompletionFails
<1>5. CASE RetryEmpty
  BY <1>5, SessionSame DEF RetryEmpty
<1>6. CASE RefuseText
  <2>1. CASE Fail
    BY <1>1, <2>1
  <2>2. CASE /\ pc = "call" /\ UNCHANGED <<setup, pc, turn>>
             /\ sess' = Add(Say(sess, "assistant", "text"),
                            Message("user", turn, "nudge"), setup.threshold)
    <3> DEFINE s == Say(sess, "assistant", "text")
    <3>1. "text" \in Contents \ {"summary"} /\ "nudge" \in Contents \ {"summary"}
      BY DEF Contents
    <3>2. Carries(sess, s)
      BY <3>1, Said
    <3> HIDE DEF s
    <3>3. sess' = Add(s, Message("user", turn, "nudge"), setup.threshold)
      BY <2>2 DEF s
    <3>4. SessionOK(s, 0..turn)
      BY <3>2 DEF Carries
    <3>5. /\ SessionOK(sess', 0..turn) /\ (Headed(s) => Headed(sess'))
          /\ \A n \in Nat : Recent(s, n) /\ turn >= n => Recent(sess', n)
      BY <3>1, <3>3, <3>4, SayKeeps
    <3>6. Carries(sess, sess')
      BY <3>2, <3>5 DEF Carries
    <3> QED BY <2>2, <3>6, SessionCarried
  <2> QED BY <1>6, <2>1, <2>2 DEF RefuseText
<1>7. CASE AcceptText
  <2>1. CASE Fail
    BY <1>1, <2>1
  <2>2. CASE /\ pc = "call" /\ UNCHANGED setup
             /\ \E empty \in BOOLEAN :
                  LET said == Say(sess, "assistant", "text")
                  IN  sess' = IF Reflects /\ ~(empty /\ ~banked)
                              THEN CompactLatestHidePage(said, setup.threshold) ELSE said
             /\ \/ pc' = "done" /\ turn' = turn
                \/ pc' = "turn" /\ turn' = turn + 1
    <3> DEFINE s == Say(sess, "assistant", "text")
               t == CompactLatestHidePage(s, setup.threshold)
    <3>1. "text" \in Contents \ {"summary"}
      BY DEF Contents
    <3>2. Carries(sess, s)
      BY <3>1, Said
    <3> HIDE DEF s
    <3>3. /\ SessionOK(t, 0..turn) /\ (Headed(s) => Headed(t))
          /\ \A n \in Nat : Recent(s, n) => Recent(t, n)
      BY <1>0, <3>2, CompactKeeps DEF Carries
    <3>4. Carries(sess, t)
      BY <3>2, <3>3 DEF Carries
    <3>5. sess' \in {s, t}
      BY <2>2 DEF s
    <3> HIDE DEF t
    <3>6. Carries(sess, sess')
      BY <3>2, <3>4, <3>5
    <3> QED BY <2>2, <3>6, SessionCarried
  <2>3. \/ Fail
        \/ /\ pc = "call" /\ UNCHANGED setup
           /\ \E empty \in BOOLEAN :
                LET said == Say(sess, "assistant", "text")
                IN  sess' = IF Reflects /\ ~(empty /\ ~banked)
                            THEN CompactLatestHidePage(said, setup.threshold) ELSE said
           /\ \/ pc' = "done" /\ turn' = turn
              \/ pc' = "turn" /\ turn' = turn + 1
    <3> HIDE DEF Say, Reflects, CompactLatestHidePage, Fail, SessionOK
    <3> QED BY ONLY <1>7 DEF AcceptText
  <2> QED BY <2>1, <2>2, <2>3
<1>8. CASE RequestTools
  <2>1. CASE Fail
    BY <1>1, <2>1
  <2>2. CASE \E batch \in Batches :
               /\ pc = "call" /\ todo' = batch /\ pc' = "exec" /\ UNCHANGED <<setup, turn>>
               /\ sess' \in {Say(sess, "assistant", "navigate"),
                             Say(sess, "assistant", "calls")}
    <3>1. "calls" \in Contents \ {"summary"} /\ "navigate" \in Contents \ {"summary"}
      BY DEF Contents
    <3>2. Carries(sess, sess') /\ Asked(sess')
      BY <2>2, <3>1, Said
    <3>3. todo' # <<>>
      BY <2>2 DEF Batches
    <3> QED BY <2>2, <3>2, <3>3, SessionCarried
  <2> QED BY <1>8, <2>1, <2>2 DEF RequestTools
<1>9. CASE RefuseCall
  BY <1>9, EndCallCarries DEF RefuseCall
<1>10. CASE CallEndsRun
  BY <1>1, <1>10 DEF CallEndsRun
<1>11. ASSUME NEW arg \in Args, ReplayCall(arg) PROVE SessionNext
  BY <1>11, EndCallCarries DEF ReplayCall
<1>12. ASSUME NEW arg \in Args, ExecuteCall(arg) PROVE SessionNext
  BY <1>12, EndCallCarries DEF ExecuteCall
<1>13. ASSUME NEW arg \in Args, BufferCall(arg) PROVE SessionNext
  BY <1>1, <1>13, EndCallCarries DEF BufferCall
<1>14. ASSUME NEW id \in 0..Len(hides), NEW page \in 0..MaxPages, NavigateCall(id, page)
       PROVE  SessionNext
  <2>1. CASE Fail
    BY <1>1, <2>1
  <2>2. CASE pc = "exec" /\ EndCall("page", TRUE, scope) /\ UNCHANGED <<setup, turn>>
    BY <2>2, EndCallCarries
  <2> QED BY <1>14, <2>1, <2>2 DEF NavigateCall
<1>15. CASE Ended
  <2>1. UNCHANGED <<setup, turn, sess, pc, todo>>
    BY <1>15 DEF Ended, vars, loop
  <2> QED BY <2>1, SessionSame DEF SessionInv
<1> QED
  BY <1>2, <1>3, <1>4, <1>5, <1>6, <1>7, <1>8, <1>9, <1>10, <1>11, <1>12, <1>13, <1>14, <1>15
  DEF Next, Step, HandleCall

-----------------------------------------------------------------------------
(* Every step keeps the types.                                              *)

\* How far a round and its calls have come.
LoopOK ==
  /\ pc \in {"start", "turn", "call", "exec", "done"}
  /\ round \in 1..Rounds /\ retried \in BOOLEAN
  /\ scope \subseteq Tools
  /\ todo \in Seq(Names) /\ paged \in BOOLEAN

\* The end of a call leaves the loop over the calls in order.
LEMMA EndCallLoop ==
  ASSUME TypeOK, SessionInv, pc = "exec", NEW content, NEW h \in BOOLEAN,
         NEW tools \in SUBSET Tools, EndCall(content, h, tools), UNCHANGED setup
  PROVE  LoopOK'
<1>1. todo \in Seq(Names) /\ todo # <<>> /\ round \in 1..Rounds /\ retried \in BOOLEAN
  BY DEF TypeOK, SessionInv
<1>2. Rounds' = Rounds /\ Rounds \in Nat \ {0}
  BY SetupFacts DEF Rounds, NeedsPaging
<1>3. todo' \in Seq(Names) /\ paged' \in BOOLEAN
  BY <1>1 DEF EndCall
<1>4. CASE Len(todo) = 1
  <2>1. /\ round # Rounds /\ round' = round + 1 /\ retried' = FALSE /\ pc' = "call"
        /\ scope' \subseteq Tools
    BY <1>4 DEF EndCall, LastRound, NextRound
  <2>2. round' \in 1..Rounds'
    BY <1>1, <1>2, <2>1
  <2> QED BY <1>3, <2>1, <2>2 DEF LoopOK
<1>5. CASE Len(todo) # 1
  <2>1. UNCHANGED <<pc, round, retried>> /\ scope' = tools
    BY <1>5 DEF EndCall
  <2> QED BY <1>1, <1>2, <1>3, <2>1 DEF LoopOK
<1> QED BY <1>4, <1>5

\* What a step that leaves the hides and the run's record alone has to show.
LEMMA TypeRest ==
  ASSUME TypeOK, LoopOK', sess' \in Seq(Messages(0..turn')), setup' = setup,
         turn' \in DOMAIN setup.turns, met' \in BOOLEAN, banked' \in BOOLEAN,
         UNCHANGED <<hides, buffer, shown>>, completed' \in [Keys -> Nat],
         acted' \subseteq DOMAIN setup.turns, answered' \subseteq Keys,
         routed' \subseteq setup.routes,
         outcome' \in {"none", "success", "cached", "error"}
  PROVE  TypeOK'
  BY DEF TypeOK, LoopOK

\* A turn has tools of the registry.
LEMMA ScopeIsOfTools ==
  ASSUME TypeOK, NEW n \in DOMAIN setup.turns
  PROVE  ScopeOf(n) \subseteq Tools
<1>1. setup.base \subseteq Plain \cup Buffered
  BY SetupFacts DEF SetupOK
<1>2. setup.turns[n].tools \subseteq Plain \cup Buffered
  <2>1. setup.turns[n] \in Turns
    BY SetupFacts
  <2> QED BY <2>1 DEF Turns
<1> QED BY <1>1, <1>2 DEF ScopeOf, TurnScope, Tools

\* A dispatched call keeps the types of what is counted.
LEMMA DispatchTypes ==
  ASSUME TypeOK, Dispatched
  PROVE  met' \in BOOLEAN /\ acted' \subseteq DOMAIN setup.turns
  BY DEF TypeOK, Dispatched

\* The pages shown of a hide are pages it has.
LEMMA ShowPage ==
  ASSUME TypeOK, NEW h \in DOMAIN hides, NEW p \in 1..hides[h],
         shown' = [shown EXCEPT ![h] = Max({@, p})], UNCHANGED hides
  PROVE  /\ shown' \in Seq(0..MaxPages) /\ Len(shown') = Len(hides')
         /\ \A i \in DOMAIN hides' : shown'[i] <= hides'[i]
         /\ shown'[h] >= p /\ shown'[h] \in Nat
<1>1. /\ shown \in Seq(0..MaxPages) /\ Len(shown) = Len(hides)
      /\ \A i \in DOMAIN hides : shown[i] <= hides[i]
      /\ hides \in Seq(1..MaxPages) /\ MaxPages \in Nat
  BY BoundsOK DEF TypeOK
<1>2. /\ DOMAIN shown = DOMAIN hides /\ h \in 1..Len(shown)
      /\ hides[h] \in 1..MaxPages /\ shown[h] \in 0..MaxPages /\ p \in Int
      /\ DOMAIN hides = 1..Len(shown)
  BY <1>1
<1> DEFINE m == Max({shown[h], p})
<1>3. m = IF shown[h] >= p THEN shown[h] ELSE p
  BY <1>2, LargerOf
<1>4. m \in 0..MaxPages /\ m <= hides[h] /\ m >= p
  BY <1>1, <1>2, <1>3
<1>5. shown' = [shown EXCEPT ![h] = m]
  OBVIOUS
<1> HIDE DEF m
<1>6. shown' \in Seq(0..MaxPages) /\ Len(shown') = Len(shown)
  BY <1>1, <1>2, <1>4, <1>5, ExceptSeq
<1>7. shown'[h] = m /\ \A i \in 1..Len(shown) : i # h => shown'[i] = shown[i]
  BY <1>1, <1>2, <1>5
<1>8. shown'[h] >= p /\ shown'[h] \in Nat
  BY <1>1, <1>4, <1>7
<1>9. \A i \in 1..Len(shown) : shown'[i] <= hides[i]
  BY <1>1, <1>2, <1>4, <1>7
<1> QED BY <1>1, <1>2, <1>6, <1>8, <1>9

\* A run that fails keeps all types.
LEMMA FailTypes ==
  ASSUME TypeOK, Fail, sess' \in Seq(Messages(0..turn'))
  PROVE  TypeOK'
<1>1. Rounds' = Rounds
  BY DEF Fail, Rounds, NeedsPaging
<1>2. LoopOK'
  BY <1>1 DEF LoopOK, TypeOK, Fail, turnState
<1>3. UNCHANGED <<setup, turn, met, banked, hides, buffer, shown, completed, acted,
                  answered, routed>>
  BY DEF Fail, turnState, hideState, history
<1> QED BY <1>2, <1>3, TypeRest DEF TypeOK, Fail

\* A success is counted for its call alone.
LEMMA Counted ==
  ASSUME TypeOK, NEW k, completed' = [completed EXCEPT ![k] = @ + 1]
  PROVE  /\ completed' \in [Keys -> Nat]
         /\ \A j \in Keys : completed'[j] = IF j = k THEN completed[j] + 1 ELSE completed[j]
<1>1. completed \in [Keys -> Nat]
  BY DEF TypeOK
<1>2. completed' = [j \in Keys |-> IF j = k THEN completed[j] + 1 ELSE completed[j]]
  BY <1>1
<1>3. \A j \in Keys : completed'[j] = IF j = k THEN completed[j] + 1 ELSE completed[j]
  BY <1>2
<1>4. \A j \in Keys : completed'[j] \in Nat
  BY <1>1, <1>3
<1>5. completed' = [j \in Keys |-> completed'[j]]
  BY <1>2
<1>6. completed' \in [Keys -> Nat]
  BY <1>4, <1>5
<1> QED BY <1>3, <1>6

\* Every step keeps the types.
LEMMA TypeStep ==
  ASSUME TypeOK, SessionInv, Next, sess' \in Seq(Messages(0..turn'))
  PROVE  TypeOK'
<1>0. UNCHANGED setup => Rounds' = Rounds
  BY DEF Rounds, NeedsPaging
<1>1. CASE Fail
  BY <1>1, FailTypes
<1>2. CASE Start
  <2>1. CASE /\ UNCHANGED <<setup, turn, round, retried, turnState, todo, paged, hideState,
                            completed, history, routed>>
             /\ pc' \in {"turn", "done"} /\ outcome' \in {outcome, "cached"}
    <3>1. UNCHANGED <<scope, met, banked, hides, buffer, shown, acted, answered>>
      BY <2>1 DEF turnState, hideState, history
    <3>2. LoopOK'
      BY <1>0, <2>1, <3>1 DEF LoopOK, TypeOK
    <3> QED BY <2>1, <3>1, <3>2, TypeRest DEF TypeOK
  <2> QED BY <1>1, <1>2, <2>1 DEF Start
<1>3. CASE BeginTurn
  <2>1. CASE Fail
    BY <1>1, <2>1
  <2>2. CASE ~Fail
    <3>1. /\ scope' = ScopeOf(turn) /\ met' = RequirementMet(turn) /\ banked' = FALSE
          /\ buffer' = (buffer \/ Turn.tools \cap Buffered # {})
          /\ shown' = (IF Turn.prompt = "page" /\ hides # <<>>
                       THEN [shown EXCEPT ![1] = Max({@, 1})] ELSE shown)
          /\ pc' = "call" /\ round' = 1 /\ retried' = FALSE
          /\ UNCHANGED <<setup, turn, todo, paged, hides, completed, acted, answered,
                         routed, outcome>>
      BY <1>3, <2>2 DEF BeginTurn, history
    <3>2. LoopOK'
      <4>1. scope' \subseteq Tools
        BY <3>1, ScopeIsOfTools DEF TypeOK
      <4>2. round' \in 1..Rounds'
        BY <1>0, <3>1, SetupFacts
      <4> QED BY <3>1, <4>1, <4>2 DEF LoopOK, TypeOK
    <3>3. met' \in BOOLEAN /\ banked' \in BOOLEAN /\ buffer' \in BOOLEAN
      BY <3>1 DEF RequirementMet, TypeOK
    <3>4. /\ shown' \in Seq(0..MaxPages) /\ Len(shown') = Len(hides')
          /\ \A h \in DOMAIN hides' : shown'[h] <= hides'[h]
      <4>1. CASE Turn.prompt = "page" /\ hides # <<>>
        <5>1. 1 \in DOMAIN hides /\ 1 \in 1..hides[1]
          BY <4>1, BoundsOK DEF TypeOK
        <5> QED BY <3>1, <4>1, <5>1, ShowPage
      <4>2. CASE ~(Turn.prompt = "page" /\ hides # <<>>)
        BY <3>1, <4>2 DEF TypeOK
      <4> QED BY <4>1, <4>2
    <3> QED BY <3>1, <3>2, <3>3, <3>4 DEF TypeOK, LoopOK
  <2> QED BY <2>1, <2>2
<1>4. CASE CompletionFails
  BY <1>1, <1>4 DEF CompletionFails
<1>5. CASE RetryEmpty
  <2>1. UNCHANGED <<setup, pc, turn, round, scope, met, banked, todo, paged, hides, buffer,
                    shown, completed, acted, answered, routed, outcome>>
    BY <1>5 DEF RetryEmpty, turnState, hideState, history
  <2>2. LoopOK'
    BY <1>0, <1>5, <2>1 DEF LoopOK, TypeOK, RetryEmpty
  <2> QED BY <2>1, <2>2, TypeRest DEF TypeOK
<1>6. CASE RefuseText
  <2>1. CASE Fail
    BY <1>1, <2>1
  <2>2. CASE ~Fail
    <3>1. /\ round # Rounds /\ round' = round + 1 /\ retried' = FALSE
          /\ UNCHANGED <<setup, pc, turn, scope, met, banked, todo, paged, hides, buffer,
                         shown, completed, acted, answered, routed, outcome>>
      BY <1>6, <2>2 DEF RefuseText, LastRound, NextRound, turnState, hideState, history
    <3>2. round' \in 1..Rounds'
      BY <1>0, <3>1, SetupFacts DEF TypeOK
    <3>3. LoopOK'
      BY <3>1, <3>2 DEF LoopOK, TypeOK
    <3> QED BY <3>1, <3>3, TypeRest DEF TypeOK
  <2> QED BY <2>1, <2>2
<1>7. CASE AcceptText
  <2>1. CASE Fail
    BY <1>1, <2>1
  <2>2. CASE ~Fail
    <3>1. /\ UNCHANGED <<setup, round, retried, scope, met, banked, todo, paged, hides,
                         buffer, shown, completed, acted, answered>>
          /\ IF LastTurn
             THEN pc' = "done" /\ outcome' = "success" /\ RouteOutput /\ UNCHANGED turn
             ELSE pc' = "turn" /\ turn' = turn + 1 /\ UNCHANGED <<outcome, routed>>
      BY <1>7, <2>2 DEF AcceptText, turnState, hideState, history
    <3>2. turn' \in DOMAIN setup.turns
      <4>1. turn \in 1..Len(setup.turns)
        BY SetupFacts DEF TypeOK
      <4> QED BY <3>1, <4>1, SetupFacts DEF LastTurn
    <3>3. routed' \subseteq setup.routes /\ pc' \in {"turn", "done"}
          /\ outcome' \in {"none", "success", "cached", "error"}
      BY <3>1 DEF RouteOutput, TypeOK
    <3>4. LoopOK'
      BY <1>0, <3>1, <3>3 DEF LoopOK, TypeOK
    <3> QED BY <3>1, <3>2, <3>3, <3>4, TypeRest DEF TypeOK
  <2> QED BY <2>1, <2>2
<1>8. CASE RequestTools
  <2>1. CASE Fail
    BY <1>1, <2>1
  <2>2. CASE ~Fail
    <3>1. PICK batch \in Batches, text \in BOOLEAN :
            /\ todo' = batch /\ pc' = "exec" /\ paged' = FALSE
            /\ banked' = (banked \/ (text /\ {batch[i] : i \in DOMAIN batch}
                                             \cap scope \cap HideTools = {}))
            /\ UNCHANGED <<setup, turn, round, retried, scope, met, hides, buffer, shown,
                           completed, acted, answered, routed, outcome>>
      BY <1>8, <2>2 DEF RequestTools, hideState, history
    <3>2. todo' \in Seq(Names)
      <4>1. PICK n \in 1..MaxBatch : batch \in [1..n -> Names]
        BY DEF Batches
      <4> QED BY <3>1, <4>1, BoundsOK
    <3>3. banked' \in BOOLEAN
      BY <3>1 DEF TypeOK
    <3>4. LoopOK'
      BY <1>0, <3>1, <3>2 DEF LoopOK, TypeOK
    <3> QED BY <3>1, <3>3, <3>4, TypeRest DEF TypeOK
  <2> QED BY <2>1, <2>2
<1>9. CASE RefuseCall
  <2>1. /\ pc = "exec" /\ EndCall("result", paged, scope)
        /\ UNCHANGED <<setup, turn, met, banked, hides, buffer, shown, completed, acted,
                       answered, routed, outcome>>
    BY <1>9 DEF RefuseCall, hideState, history
  <2>2. LoopOK'
    BY <2>1, EndCallLoop DEF TypeOK
  <2> QED BY <2>1, <2>2, TypeRest DEF TypeOK
<1>10. CASE CallEndsRun
  BY <1>1, <1>10 DEF CallEndsRun
<1>11. ASSUME NEW arg \in Args, ReplayCall(arg) PROVE TypeOK'
  <2>1. /\ pc = "exec" /\ EndCall("result", paged, scope) /\ Dispatched
        /\ answered' = answered \cup {<<Call, arg>>} /\ Call \in scope \ HideTools
        /\ UNCHANGED <<setup, turn, banked, hides, buffer, shown, completed, routed, outcome>>
    BY <1>11 DEF ReplayCall, hideState
  <2>2. LoopOK'
    BY <2>1, EndCallLoop DEF TypeOK
  <2>3. <<Call, arg>> \in Keys
    BY <2>1 DEF Keys, TypeOK, Tools
  <2> QED BY <2>1, <2>2, <2>3, TypeRest, DispatchTypes DEF TypeOK
<1>12. ASSUME NEW arg \in Args, ExecuteCall(arg) PROVE TypeOK'
  <2>1. /\ pc = "exec" /\ EndCall("result", paged, scope) /\ Dispatched
        /\ \/ completed' = [completed EXCEPT ![<<Call, arg>>] = @ + 1]
           \/ UNCHANGED completed
        /\ UNCHANGED <<setup, turn, banked, hides, buffer, shown, answered, routed, outcome>>
    BY <1>12 DEF ExecuteCall, hideState
  <2>2. LoopOK'
    BY <2>1, EndCallLoop DEF TypeOK
  <2>3. completed' \in [Keys -> Nat]
    <3>1. CASE completed' = [completed EXCEPT ![<<Call, arg>>] = @ + 1]
      BY <3>1, Counted
    <3>2. CASE UNCHANGED completed
      BY <3>2 DEF TypeOK
    <3> QED BY <2>1, <3>1, <3>2
  <2> QED BY <2>1, <2>2, <2>3, TypeRest, DispatchTypes DEF TypeOK
<1>13. ASSUME NEW arg \in Args, BufferCall(arg) PROVE TypeOK'
  <2>1. CASE Fail
    BY <1>1, <2>1
  <2>2. CASE ~Fail
    <3>1. PICK n \in 1..MaxPages :
            /\ pc = "exec" /\ Dispatched
            /\ completed' = [completed EXCEPT ![<<Call, arg>>] = @ + 1]
            /\ hides' = Append(hides, n) /\ shown' = Append(shown, 1)
            /\ EndCall("page", paged, scope \cup (IF n > 1 THEN HideTools ELSE {}))
            /\ UNCHANGED <<setup, turn, banked, buffer, answered, routed, outcome>>
      BY <1>13, <2>2 DEF BufferCall
    <3>2. LoopOK'
      <4>1. scope \cup (IF n > 1 THEN HideTools ELSE {}) \in SUBSET Tools
        BY DEF TypeOK, Tools
      <4> QED BY <3>1, <4>1, EndCallLoop DEF TypeOK
    <3>3. completed' \in [Keys -> Nat]
      <4>1. completed' = [completed EXCEPT ![<<Call, arg>>] = @ + 1]
        BY <3>1
      <4> QED BY <4>1, Counted
    <3>4. /\ hides' \in Seq(1..MaxPages) /\ shown' \in Seq(0..MaxPages)
          /\ Len(shown') = Len(hides')
          /\ \A h \in DOMAIN hides' : shown'[h] <= hides'[h]
      <4>1. /\ hides \in Seq(1..MaxPages) /\ shown \in Seq(0..MaxPages)
            /\ Len(shown) = Len(hides) /\ n \in 1..MaxPages /\ 1 \in 0..MaxPages
            /\ \A h \in 1..Len(hides) : shown[h] <= hides[h]
        <5>1. /\ hides \in Seq(1..MaxPages) /\ shown \in Seq(0..MaxPages)
              /\ Len(shown) = Len(hides) /\ \A h \in DOMAIN hides : shown[h] <= hides[h]
          BY DEF TypeOK
        <5>2. n \in 1..MaxPages /\ 1 \in 0..MaxPages
          BY BoundsOK
        <5> QED BY <5>1, <5>2
      <4>2. /\ hides' \in Seq(1..MaxPages) /\ shown' \in Seq(0..MaxPages)
            /\ Len(hides') = Len(hides) + 1 /\ Len(shown') = Len(hides) + 1
            /\ DOMAIN hides' = 1..Len(hides) + 1
            /\ \A h \in 1..Len(hides) : hides'[h] = hides[h] /\ shown'[h] = shown[h]
            /\ hides'[Len(hides) + 1] = n /\ shown'[Len(hides) + 1] = 1
        BY <3>1, <4>1
      <4>3. \A h \in 1..Len(hides) + 1 : h = Len(hides) + 1 \/ h \in 1..Len(hides)
        BY <4>1
      <4> QED BY <4>1, <4>2, <4>3
    <3> QED BY <3>1, <3>2, <3>3, <3>4, DispatchTypes DEF TypeOK, LoopOK
  <2> QED BY <2>1, <2>2
<1>14. ASSUME NEW id \in 0..Len(hides), NEW page \in 0..MaxPages, NavigateCall(id, page)
       PROVE  TypeOK'
  <2>1. CASE Fail
    BY <1>1, <2>1
  <2>2. CASE ~Fail
    <3> DEFINE h == Resolved(id)
               p == PageWanted(h, page)
    <3>1. /\ pc = "exec" /\ h # 0 /\ page >= 1 /\ p <= hides[h]
          /\ shown' = [shown EXCEPT ![h] = Max({@, p})]
          /\ EndCall("page", TRUE, scope)
          /\ UNCHANGED <<setup, turn, met, banked, hides, buffer, completed, acted, answered,
                         routed, outcome>>
      BY <1>14, <2>2 DEF NavigateCall, history
    <3>2. h \in DOMAIN hides
      BY <3>1 DEF Resolved, TypeOK
    <3> HIDE DEF h
    <3>3. shown[h] \in Nat /\ hides[h] \in Nat /\ page \in Nat
      BY <3>2, BoundsOK DEF TypeOK
    <3>4. p \in Nat /\ p >= 1
      BY <3>1, <3>3 DEF PageWanted
    <3> HIDE DEF p
    <3>5. p \in 1..hides[h]
      BY <3>1, <3>3, <3>4
    <3>6. /\ shown' \in Seq(0..MaxPages) /\ Len(shown') = Len(hides')
          /\ \A i \in DOMAIN hides' : shown'[i] <= hides'[i]
      BY <3>1, <3>2, <3>5, ShowPage
    <3>7. LoopOK'
      BY <3>1, EndCallLoop DEF TypeOK
    <3> QED BY <3>1, <3>6, <3>7 DEF TypeOK, LoopOK
  <2> QED BY <2>1, <2>2
<1>15. CASE Ended
  <2>1. UNCHANGED <<setup, pc, turn, round, retried, scope, met, banked, todo, paged, hides,
                    buffer, shown, completed, acted, answered, routed, outcome>>
    BY <1>15 DEF Ended, vars, loop, turnState, hideState, history
  <2>2. LoopOK'
    BY <1>0, <2>1 DEF LoopOK, TypeOK
  <2> QED BY <2>1, <2>2, TypeRest DEF TypeOK
<1> QED
  BY <1>2, <1>3, <1>4, <1>5, <1>6, <1>7, <1>8, <1>9, <1>10, <1>11, <1>12, <1>13, <1>14, <1>15
  DEF Next, Step, HandleCall

-----------------------------------------------------------------------------
(* Required tools.                                                          *)

\* A step that ends no turn and lets none end without its tool.
LEMMA ActsSame ==
  ASSUME TypeOK, ActsInv, UNCHANGED <<setup, turn>>, acted \subseteq acted',
         pc' \in {"call", "exec"} /\ met' /\ Required(turn) => turn \in acted',
         outcome' = "success" => outcome = "success"
  PROVE  ActsInv'
<1>1. \A i \in 1..turn' - 1 : Required(i)' => i \in acted'
  BY DEF ActsInv, Required
<1>2. RequiredActs'
  BY DEF ActsInv, RequiredActs
<1>3. Required(turn)' <=> Required(turn)
  BY DEF Required
<1> QED BY <1>1, <1>2, <1>3 DEF ActsInv

\* A dispatched call of a required tool meets the requirement of its turn.
LEMMA DispatchActs ==
  ASSUME TypeOK, ActsInv, pc = "exec", Dispatched, UNCHANGED <<setup, turn, outcome>>
  PROVE  ActsInv'
<1>1. acted \subseteq acted'
  BY DEF Dispatched
<1>2. met' /\ Required(turn) => turn \in acted'
  BY DEF Dispatched, ActsInv
<1> QED BY <1>1, <1>2, ActsSame

\* Every step keeps what is known of required tools.
LEMMA ActsStep ==
  ASSUME TypeOK, ActsInv, Next
  PROVE  ActsInv'
<1>1. CASE Fail
  <2>1. UNCHANGED <<setup, turn, acted>> /\ pc' = "done" /\ outcome' = "error"
    BY <1>1 DEF Fail, history
  <2> QED BY <2>1, ActsSame
<1>2. CASE Start
  <2>1. CASE /\ UNCHANGED <<setup, turn, acted>> /\ pc' \in {"turn", "done"}
             /\ outcome' \in {outcome, "cached"}
    BY <2>1, ActsSame
  <2> QED BY <1>1, <1>2, <2>1 DEF Start, history
<1>3. CASE BeginTurn
  <2>1. CASE /\ met' = RequirementMet(turn) /\ UNCHANGED <<setup, turn, acted, outcome>>
    <3>1. met' => ~Required(turn)
      BY <2>1 DEF RequirementMet, Required
    <3> QED BY <2>1, <3>1, ActsSame
  <2> QED BY <1>1, <1>3, <2>1 DEF BeginTurn, history
<1>4. CASE CompletionFails
  BY <1>1, <1>4 DEF CompletionFails
<1>5. CASE RetryEmpty
  <2>1. UNCHANGED <<setup, turn, acted, outcome, met, pc>>
    BY <1>5 DEF RetryEmpty, turnState, history
  <2> QED BY <2>1, ActsSame DEF ActsInv
<1>6. CASE RefuseText
  <2>1. CASE UNCHANGED <<setup, turn, acted, outcome, met, pc>>
    BY <2>1, ActsSame DEF ActsInv
  <2> QED BY <1>1, <1>6, <2>1 DEF RefuseText, turnState, history
<1>7. CASE AcceptText
  <2>1. CASE Fail
    BY <1>1, <2>1
  <2>2. CASE ~Fail
    <3>1. /\ pc = "call" /\ met /\ UNCHANGED <<setup, acted>>
          /\ IF LastTurn THEN pc' = "done" /\ outcome' = "success" /\ turn' = turn
             ELSE pc' = "turn" /\ turn' = turn + 1 /\ UNCHANGED outcome
      BY <1>7, <2>2 DEF AcceptText, history
    <3>2. \A i \in 1..turn : Required(i) => i \in acted
      <4> TAKE i \in 1..turn
      <4>1. i = turn \/ i \in 1..turn - 1
        BY SetupFacts
      <4> QED BY <3>1, <4>1 DEF ActsInv
    <3>3. CASE LastTurn
      <4>1. DOMAIN setup.turns = 1..turn
        BY <3>3, SetupFacts DEF LastTurn
      <4>2. RequiredActs'
        BY <3>1, <3>2, <4>1 DEF RequiredActs, Required
      <4>3. \A i \in 1..turn' - 1 : Required(i)' => i \in acted'
        BY <3>1, <3>3 DEF ActsInv, Required
      <4> QED BY <3>1, <3>3, <4>2, <4>3 DEF ActsInv
    <3>4. CASE ~LastTurn
      <4>1. turn' - 1 = turn
        BY <3>1, <3>4, SetupFacts
      <4>2. \A i \in 1..turn' - 1 : Required(i)' => i \in acted'
        BY <3>1, <3>2, <4>1 DEF Required
      <4>3. RequiredActs'
        BY <3>1, <3>4 DEF ActsInv, RequiredActs
      <4> QED BY <3>1, <3>4, <4>2, <4>3 DEF ActsInv
    <3> QED BY <3>3, <3>4
  <2> QED BY <2>1, <2>2
<1>8. CASE RequestTools
  <2>1. CASE pc = "call" /\ UNCHANGED <<setup, turn, acted, outcome, met>>
    BY <2>1, ActsSame DEF ActsInv
  <2> QED BY <1>1, <1>8, <2>1 DEF RequestTools, history
<1>9. CASE RefuseCall
  <2>1. pc = "exec" /\ UNCHANGED <<setup, turn, acted, outcome, met>>
    BY <1>9 DEF RefuseCall, history
  <2> QED BY <2>1, ActsSame DEF ActsInv
<1>10. CASE CallEndsRun
  BY <1>1, <1>10 DEF CallEndsRun
<1>11. ASSUME NEW arg \in Args, ReplayCall(arg) PROVE ActsInv'
  BY <1>11, DispatchActs DEF ReplayCall
<1>12. ASSUME NEW arg \in Args, ExecuteCall(arg) PROVE ActsInv'
  BY <1>12, DispatchActs DEF ExecuteCall
<1>13. ASSUME NEW arg \in Args, BufferCall(arg) PROVE ActsInv'
  BY <1>1, <1>13, DispatchActs DEF BufferCall
<1>14. ASSUME NEW id \in 0..Len(hides), NEW page \in 0..MaxPages, NavigateCall(id, page)
       PROVE  ActsInv'
  <2>1. CASE pc = "exec" /\ UNCHANGED <<setup, turn, acted, outcome, met>>
    BY <2>1, ActsSame DEF ActsInv
  <2> QED BY <1>1, <1>14, <2>1 DEF NavigateCall, history
<1>15. CASE Ended
  <2>1. UNCHANGED <<setup, turn, acted, outcome, met, pc>>
    BY <1>15 DEF Ended, vars, loop, turnState, history
  <2> QED BY <2>1, ActsSame DEF ActsInv
<1> QED
  BY <1>2, <1>3, <1>4, <1>5, <1>6, <1>7, <1>8, <1>9, <1>10, <1>11, <1>12, <1>13, <1>14, <1>15
  DEF Next, Step, HandleCall

-----------------------------------------------------------------------------
(* Repeated calls.                                                          *)

\* A step that neither counts nor answers a call.
LEMMA SucceedsSame ==
  ASSUME WithinRepeats, UNCHANGED <<completed, answered>>
  PROVE  WithinRepeats'
  BY DEF WithinRepeats

\* The limit of a call is a number.
LEMMA KeyLimits == \A k \in Keys : EffectiveMax(k[1]) \in Int
  BY RepeatsOK DEF EffectiveMax, Keys

\* A call is counted only when it was permitted.
LEMMA SucceedsCounted ==
  ASSUME TypeOK, WithinRepeats, NEW k \in Keys, Permitted(k), UNCHANGED answered,
         completed' = [completed EXCEPT ![k] = @ + 1]
  PROVE  WithinRepeats'
<1>1. \A j \in Keys : /\ completed[j] \in Nat
                      /\ completed'[j] = IF j = k THEN completed[j] + 1 ELSE completed[j]
  BY Counted DEF TypeOK
<1>2. EffectiveMax(k[1]) \in Int
  BY KeyLimits
<1>3. EffectiveMax(k[1]) < 0 \/ completed[k] < EffectiveMax(k[1])
  BY DEF Permitted
<1>4. k \notin answered
  BY <1>1, <1>2, <1>3 DEF WithinRepeats
<1>5. EffectiveMax(k[1]) >= 0 => completed'[k] <= EffectiveMax(k[1])
  BY <1>1, <1>2, <1>3
<1> SUFFICES ASSUME NEW j \in Keys
             PROVE  /\ EffectiveMax(j[1]) >= 0 => completed'[j] <= EffectiveMax(j[1])
                    /\ j \in answered => /\ EffectiveMax(j[1]) >= 0
                                         /\ completed'[j] = EffectiveMax(j[1])
  BY DEF WithinRepeats
<1>6. CASE j = k
  BY <1>4, <1>5, <1>6
<1>7. CASE j # k
  <2>1. completed'[j] = completed[j]
    BY <1>1, <1>7
  <2> QED BY <2>1 DEF WithinRepeats
<1> QED BY <1>6, <1>7

\* No step executes a call more often than its limit.
LEMMA SucceedsStep ==
  ASSUME TypeOK, WithinRepeats, Next
  PROVE  WithinRepeats'
<1>1. CASE Fail
  BY <1>1, SucceedsSame DEF Fail, history
<1>2. CASE Start
  BY <1>1, <1>2, SucceedsSame DEF Start, history
<1>3. CASE BeginTurn
  BY <1>1, <1>3, SucceedsSame DEF BeginTurn, history
<1>4. CASE CompletionFails
  BY <1>1, <1>4 DEF CompletionFails
<1>5. CASE RetryEmpty
  BY <1>5, SucceedsSame DEF RetryEmpty, history
<1>6. CASE RefuseText
  BY <1>1, <1>6, SucceedsSame DEF RefuseText, history
<1>7. CASE AcceptText
  BY <1>1, <1>7, SucceedsSame DEF AcceptText, history
<1>8. CASE RequestTools
  BY <1>1, <1>8, SucceedsSame DEF RequestTools, history
<1>9. CASE RefuseCall
  BY <1>9, SucceedsSame DEF RefuseCall, history
<1>10. CASE CallEndsRun
  BY <1>1, <1>10 DEF CallEndsRun
<1>11. ASSUME NEW arg \in Args, ReplayCall(arg) PROVE WithinRepeats'
  <2> DEFINE k == <<Call, arg>>
  <2>1. /\ Call \in scope \ HideTools /\ ~Permitted(k) /\ UNCHANGED completed
        /\ answered' = answered \cup {k}
    BY <1>11 DEF ReplayCall
  <2>2. k \in Keys
    BY <2>1 DEF Keys, TypeOK, Tools
  <2> HIDE DEF k
  <2>3. completed[k] \in Nat /\ EffectiveMax(k[1]) \in Int
    BY <2>2, KeyLimits DEF TypeOK
  <2>4. EffectiveMax(k[1]) >= 0 /\ completed[k] >= EffectiveMax(k[1])
    BY <2>1, <2>3 DEF Permitted
  <2>5. completed[k] = EffectiveMax(k[1])
    BY <2>2, <2>3, <2>4 DEF WithinRepeats
  <2> QED BY <2>1, <2>4, <2>5 DEF WithinRepeats
<1>12. ASSUME NEW arg \in Args, ExecuteCall(arg) PROVE WithinRepeats'
  <2> DEFINE k == <<Call, arg>>
  <2>1. /\ k \in Keys /\ Permitted(k) /\ UNCHANGED answered
        /\ completed' = [completed EXCEPT ![k] = @ + 1] \/ UNCHANGED completed
    BY <1>12 DEF ExecuteCall, Keys
  <2> HIDE DEF k
  <2> QED BY <2>1, SucceedsCounted, SucceedsSame
<1>13. ASSUME NEW arg \in Args, BufferCall(arg) PROVE WithinRepeats'
  <2> DEFINE k == <<Call, arg>>
  <2>1. CASE Fail
    BY <1>1, <2>1
  <2>2. CASE ~Fail
    <3>1. /\ k \in Keys /\ Permitted(k) /\ UNCHANGED answered
          /\ completed' = [completed EXCEPT ![k] = @ + 1]
      BY <1>13, <2>2 DEF BufferCall, Keys
    <3> HIDE DEF k
    <3> QED BY <3>1, SucceedsCounted
  <2> QED BY <2>1, <2>2
<1>14. ASSUME NEW id \in 0..Len(hides), NEW page \in 0..MaxPages, NavigateCall(id, page)
       PROVE  WithinRepeats'
  BY <1>1, <1>14, SucceedsSame DEF NavigateCall, history
<1>15. CASE Ended
  BY <1>15, SucceedsSame DEF Ended, vars, history
<1> QED
  BY <1>2, <1>3, <1>4, <1>5, <1>6, <1>7, <1>8, <1>9, <1>10, <1>11, <1>12, <1>13, <1>14, <1>15
  DEF Next, Step, HandleCall

-----------------------------------------------------------------------------
(* What holds of every run.                                                 *)

\* A run that has not begun.
LEMMA InductiveInit ==
  ASSUME Init
  PROVE  Inductive
<1>1. setup \in Setups /\ SetupOK(setup)
  BY SetupsOK DEF Init
<1>2. /\ setup.turns \in Seq(Turns) /\ setup.turns # <<>>
      /\ setup.rounds \in Nat \ {0} /\ setup.preload \in 0..MaxPages
  BY <1>1 DEF SetupOK
<1>3. 1 \in DOMAIN setup.turns /\ Rounds \in Nat \ {0}
  BY <1>2 DEF Rounds
<1>4. /\ hides \in Seq(1..MaxPages) /\ shown \in Seq(0..MaxPages)
      /\ Len(shown) = Len(hides) /\ \A h \in DOMAIN hides : shown[h] <= hides[h]
  <2>1. CASE setup.preload = 0
    <3>1. hides = <<>> /\ shown = [h \in 1..0 |-> 0]
      BY <2>1 DEF Init
    <3>2. shown = <<>>
      BY <3>1
    <3> QED BY <3>1, <3>2
  <2>2. CASE setup.preload # 0
    <3> DEFINE n == setup.preload
    <3>1. n \in 1..MaxPages /\ 0 \in 0..MaxPages
      BY <1>2, <2>2, BoundsOK
    <3>2. hides = <<n>>
      BY <2>2 DEF Init
    <3>3. shown = [h \in 1..1 |-> 0]
      BY <3>2 DEF Init
    <3>4. shown = <<0>>
      BY <3>3
    <3> HIDE DEF n
    <3> QED BY <3>1, <3>2, <3>4
  <2> QED BY <2>1, <2>2
<1>5. TypeOK
  <2>1. /\ pc = "start" /\ turn = 1 /\ round = 1 /\ retried = FALSE /\ sess = <<>>
        /\ scope = {} /\ met = FALSE /\ banked = FALSE /\ todo = <<>> /\ paged = FALSE
        /\ buffer \in BOOLEAN /\ completed = [k \in Keys |-> 0] /\ acted = {}
        /\ answered = {} /\ routed = {} /\ outcome = "none"
    BY DEF Init
  <2>2. completed \in [Keys -> Nat]
    BY <2>1
  <2>3. round \in 1..Rounds /\ turn \in DOMAIN setup.turns
    BY <1>3, <2>1
  <2>4. sess \in Seq(Messages(0..turn)) /\ todo \in Seq(Names)
    BY <2>1
  <2>5. /\ scope \subseteq Tools /\ acted \subseteq DOMAIN setup.turns
        /\ answered \subseteq Keys /\ routed \subseteq setup.routes
    BY <2>1
  <2> QED BY ONLY <1>1, <1>4, <2>1, <2>2, <2>3, <2>4, <2>5 DEF TypeOK
<1>6. ActsInv
  BY DEF Init, ActsInv, RequiredActs
<1>7. WithinRepeats
  BY DEF Init, WithinRepeats
<1>8. SessionInv
  BY DEF Init, SessionInv, SummaryFirst, Chained, Recent
<1> QED BY <1>5, <1>6, <1>7, <1>8 DEF Inductive

\* Every step preserves the inductive invariant.
LEMMA InductiveStep ==
  ASSUME Inductive, [Next]_vars
  PROVE  Inductive'
<1>1. CASE Next
  <2>1. SessionNext
    BY <1>1, SessionStep DEF Inductive
  <2>2. TypeOK'
    BY <1>1, <2>1, TypeStep DEF Inductive, SessionNext
  <2>3. ActsInv' /\ WithinRepeats'
    BY <1>1, ActsStep, SucceedsStep DEF Inductive
  <2> QED BY <2>1, <2>2, <2>3 DEF Inductive, SessionNext
<1>2. CASE UNCHANGED vars
  <2>2. /\ UNCHANGED <<setup, pc, turn, round, retried, sess, scope, met, banked, todo, paged,
                       hides, buffer, shown, completed, acted, answered, routed, outcome>>
    BY <1>2 DEF vars, loop, turnState, hideState, history
  <2>3. Rounds' = Rounds /\ Cleared' = Cleared /\ NoSkills' = NoSkills
    BY <2>2 DEF Rounds, NeedsPaging, Cleared, LastClear, NoSkills
  <2>4. TypeOK'
    BY <2>2, <2>3 DEF Inductive, TypeOK
  <2>5. ActsInv' /\ WithinRepeats'
    BY <2>2, ActsSame, SucceedsSame DEF Inductive, ActsInv
  <2>6. SessionInv'
    BY <2>2, <2>3 DEF Inductive, SessionInv
  <2> QED BY <2>4, <2>5, <2>6 DEF Inductive
<1> QED BY <1>1, <1>2

\* The inductive invariant holds of every run.
THEOREM AgentInductive == Spec => []Inductive
<1>1. Init => Inductive
  BY InductiveInit
<1>2. Inductive /\ [Next]_vars => Inductive'
  BY InductiveStep
<1> QED BY <1>1, <1>2, PTL DEF Spec

\* Every variable of a run keeps its type, for any agents, tools and models.
THEOREM AgentTypeOK == Spec => []TypeOK
<1>1. Inductive => TypeOK
  BY DEF Inductive
<1> QED BY <1>1, AgentInductive, PTL

\* A run that reports success has dispatched a required tool in every turn
\* that requires one (runner.go:574-580).
THEOREM RequiredToolsAct == Spec => []RequiredActs
<1>1. Inductive => RequiredActs
  BY DEF Inductive, ActsInv
<1> QED BY <1>1, AgentInductive, PTL

\* No call succeeds more often than its max_repeats, and one that is answered
\* without being executed has succeeded so often (runner.go:372-384).
THEOREM CallsWithinRepeats == Spec => []WithinRepeats
<1>1. Inductive => WithinRepeats
  BY DEF Inductive
<1> QED BY <1>1, AgentInductive, PTL

\* From a turn with clear: true on, nothing of an earlier turn is in a request,
\* and the agent's prompt stays first (runner.go:389-394).
THEOREM ClearedTurnsAreIsolated == Spec => []ClearIsolates
<1>1. ASSUME Inductive PROVE ClearIsolates
  <2> SUFFICES ASSUME pc = "call"
               PROVE  /\ \A i \in DOMAIN sess :
                           IsSystem(sess[i]) \/ sess[i].turn >= LastClear(turn)
                      /\ setup.identity /\ NoSkills => Head(sess).content = "identity"
    BY DEF ClearIsolates, NoSkills
  <2>1. Recent(sess, LastClear(turn)) /\ (setup.identity /\ NoSkills => Headed(sess))
    BY <1>1 DEF Inductive, SessionInv, Cleared
  <2>2. Headed(sess) => Head(sess).content = "identity"
    BY <1>1 DEF Headed, Inductive, TypeOK
  <2> QED BY <2>1, <2>2 DEF Recent
<1> QED BY <1>1, AgentInductive, PTL

\* While nothing has been summarized, results follow their calls in every
\* request.
THEOREM ResultsStayWithCalls == Spec => []ResultsFollowCalls
<1>1. ASSUME Inductive PROVE ResultsFollowCalls
  <2>1. Chained(sess)
    BY <1>1 DEF Inductive, SessionInv
  <2> QED BY <2>1 DEF ResultsFollowCalls, Chained, Unsummarized, Follows
<1> QED BY <1>1, AgentInductive, PTL

\* hide_next shows a later page of some hide, or the run fails.
LEMMA PagesGoOn ==
  ASSUME Inductive, Next, pc = "exec", Call = "hide_next", Call \in scope, outcome' = "none"
  PROVE  \E h \in DOMAIN hides : shown'[h] > shown[h]
<1>1. ~Fail
  BY DEF Fail
<1>2. Call \notin Plain \cup Buffered /\ Call \in HideTools
  BY ToolsOK DEF HideTools
<1>3. PICK id \in 0..Len(hides), page \in 0..MaxPages : NavigateCall(id, page)
  <2>1. ~Start /\ ~BeginTurn /\ ~CompletionFails /\ ~RetryEmpty /\ ~RefuseText
    BY DEF Start, BeginTurn, CompletionFails, RetryEmpty, RefuseText
  <2>2. ~AcceptText /\ ~RequestTools /\ ~Ended
    BY DEF AcceptText, RequestTools, Ended
  <2>3. ~RefuseCall /\ ~CallEndsRun
    BY <1>1 DEF RefuseCall, CallEndsRun
  <2>4. \A arg \in Args : ~ReplayCall(arg) /\ ~ExecuteCall(arg) /\ ~BufferCall(arg)
    BY <1>2 DEF ReplayCall, ExecuteCall, BufferCall
  <2> QED BY <2>1, <2>2, <2>3, <2>4 DEF Next, Step, HandleCall
<1> DEFINE h == Resolved(id)
           p == PageWanted(h, page)
<1>4. /\ h # 0 /\ page >= 1 /\ p <= hides[h]
      /\ shown' = [shown EXCEPT ![h] = Max({@, p})] /\ UNCHANGED hides
  BY <1>1, <1>3 DEF NavigateCall
<1>5. h \in DOMAIN hides /\ TypeOK
  BY <1>4 DEF Resolved, Inductive, TypeOK
<1> HIDE DEF h
<1>6. shown[h] \in Nat /\ hides[h] \in Nat
  BY <1>5, BoundsOK DEF TypeOK
<1>7. p = (IF shown[h] > 0 THEN shown[h] + 1 ELSE page + 1)
  BY DEF PageWanted
<1> HIDE DEF p
<1>8. p \in 1..hides[h] /\ p > shown[h]
  BY <1>4, <1>6, <1>7
<1>9. shown'[h] >= p /\ shown'[h] \in Nat
  BY <1>4, <1>5, <1>8, ShowPage
<1> QED BY <1>5, <1>6, <1>8, <1>9

\* hide_next delivers a page the model has not had, or the run fails
\* (runner.go:1058-1062).
THEOREM NextPagesAreNew == Spec => NextPageIsNew
<1>1. Inductive /\ [Next]_vars
        => [pc = "exec" /\ Call = "hide_next" /\ Call \in scope /\ outcome' = "none"
              => \E h \in DOMAIN hides : shown'[h] > shown[h]]_vars
  BY PagesGoOn
<1> QED BY <1>1, AgentInductive, PTL DEF Spec, NextPageIsNew


-----------------------------------------------------------------------------
(* The settings.

   The file says what is meant of the settings, of the key, and of the blocks
   that are compared whole, and it can be read; a flag for the key has one
   value, no variable holds a list without items, and neither the pass store
   nor the environment has a name that is empty.                             *)
ConfigWritten(w) ==
  LET in    == w.config
      lines == FileAt(in)
      notify == NotifyBackends(lines) IN
  /\ YamlSets(lines) =
       [k \in {k \in (TextSettings \cup ParsedSettings \cup ListSettings) \cap DOMAIN w.file :
                 Effective(k, w.file[k])} |-> w.file[k]]
  /\ LLMAPIKeyBlock(lines) = w.ref
  /\ [i \in DOMAIN notify |-> notify[i].set] = w.backends
  /\ ToolRateLimits(lines) = w.limits
  /\ ConfigPath(in) \notin in.unreadable
  /\ in.keyFlag = <<>> \/ in.keyFlag = <<in.keyFlag[1]>>
  /\ ~in.blankList
  /\ "" \notin DOMAIN in.store \cup DOMAIN in.vars

\* With sets one key.
LEMMA WithAt ==
  ASSUME NEW f, NEW k, NEW v
  PROVE  /\ DOMAIN With(f, k, v) = {k} \cup DOMAIN f
         /\ With(f, k, v)[k] = v
         /\ \A j \in DOMAIN f : j # k => With(f, k, v)[j] = f[j]
BY DEF With

\* The key of the LLM is no setting, the lists are lists, and the path of the
\* file is not read from the file.
LEMMA SettingNames ==
  /\ "llm_api_key" \notin Settings
  /\ "config_file" \in Settings
  /\ "config_file" \notin TextSettings \cup ParsedSettings \cup ListSettings
  /\ ListSettings \cap (TextSettings \cup ParsedSettings \cup TextOutsideYaml \cup ParsedOutsideYaml) = {}
  /\ ParsedOutsideYaml \cap (TextSettings \cup ParsedSettings) = {}
  /\ TextSettings \cup ParsedSettings \cup ListSettings \subseteq Settings
<1>1. "llm_api_key" \notin Settings
  BY DEF Settings, TextSettings, ParsedSettings, ListSettings, TextOutsideYaml, ParsedOutsideYaml
<1>2. "config_file" \in TextOutsideYaml /\ "config_file" \notin TextSettings \cup ParsedSettings \cup ListSettings
  BY DEF TextSettings, ParsedSettings, ListSettings, TextOutsideYaml
<1>3. ListSettings \cap (TextSettings \cup ParsedSettings \cup TextOutsideYaml \cup ParsedOutsideYaml) = {}
  BY DEF TextSettings, ParsedSettings, ListSettings, TextOutsideYaml, ParsedOutsideYaml
<1>4. ParsedOutsideYaml \cap (TextSettings \cup ParsedSettings) = {}
  BY DEF TextSettings, ParsedSettings, ParsedOutsideYaml
<1> QED BY <1>1, <1>2, <1>3, <1>4 DEF Settings

\* A variable wins over what is below it when it is effective.
LEMMA EnvIsEffective ==
  ASSUME NEW env, NEW k, NEW else
  PROVE  EnvOr(env, k, else) = IF Effective(k, env[k]) THEN env[k] ELSE else
BY DEF EnvOr, Effective

\* A setting is attributed to the environment when its variable is effective.
LEMMA MarkIsEffective ==
  ASSUME NEW in, ~in.blankList, NEW k \in Settings
  PROVE  k \in EnvMarks(in) <=> Effective(k, in.env[k])
BY SettingNames DEF EnvMarks, Effective, Settings

\* What Load leaves in a setting is the value of its highest layer, ...
LEMMA ValuesLayered ==
  ASSUME NEW w, ConfigWritten(w), NEW k \in Settings
  PROVE  LoadConfig(w.config).values[k] = MeantValue(w, k)
<1> DEFINE in   == w.config
           yaml == YamlSets(FileAt(in))
           base == [j \in Settings |-> EnvOr(in.env, j, Default(j))]
           file == yaml ++ With(base, "config_file", ConfigPath(in))
           env  == [j \in Settings |-> AfterFile(in, j, file[j])]
<1>1. LoadConfig(in).values = in.flags ++ env
  BY DEF LoadConfig, ApplyFlags
<1>2. DOMAIN env = Settings /\ env[k] = AfterFile(in, k, file[k])
  OBVIOUS
<1> HIDE DEF env
<1>3. CASE k \in DOMAIN in.flags
  <2>1. LoadConfig(in).values[k] = in.flags[k]
    BY <1>1, <1>3 DEF ++
  <2> QED BY <1>3, <2>1 DEF MeantValue, LayerOf
<1>4. CASE k \notin DOMAIN in.flags
  <2>1. LoadConfig(in).values[k] = AfterFile(in, k, file[k])
    BY <1>1, <1>2, <1>4 DEF ++
  <2>2. DOMAIN base = Settings /\ base[k] = EnvOr(in.env, k, Default(k))
    OBVIOUS
  <2>3. DOMAIN yaml = {j \in (TextSettings \cup ParsedSettings \cup ListSettings) \cap DOMAIN w.file :
                         Effective(j, w.file[j])}
        /\ \A j \in DOMAIN yaml : yaml[j] = w.file[j]
    BY DEF ConfigWritten
  <2> HIDE DEF base, yaml, env
  <2>4. CASE k = "config_file"
    <3>1. file[k] = ConfigPath(in)
      BY <2>3, <2>4, SettingNames DEF ++, With
    <3>2. ConfigPath(in) = EnvOr(in.env, k, Default(k))
      BY <1>4, <2>4 DEF ConfigPath, At
    <3> QED BY <1>4, <2>1, <2>4, <3>1, <3>2, EnvIsEffective, SettingNames
            DEF AfterFile, MeantValue, LayerOf
  <2>5. CASE k # "config_file"
    <3>1. With(base, "config_file", ConfigPath(in))[k] = base[k]
          /\ k \in DOMAIN With(base, "config_file", ConfigPath(in))
      BY <2>2, <2>5 DEF With
    <3>2. file[k] = IF k \in DOMAIN yaml THEN yaml[k] ELSE base[k]
      BY <3>1 DEF ++
    <3>3. AfterFile(in, k, file[k]) = IF Effective(k, in.env[k]) THEN in.env[k]
                                      ELSE IF k \in DOMAIN yaml THEN w.file[k] ELSE Default(k)
      BY <2>2, <2>3, <2>5, <3>2, EnvIsEffective DEF AfterFile
    <3> QED BY <1>4, <2>1, <2>3, <3>3 DEF MeantValue, LayerOf
  <2> QED BY <2>4, <2>5
<1> QED BY <1>3, <1>4

\* ... which is the one it is attributed to.
LEMMA SourcesLayered ==
  ASSUME NEW w, ConfigWritten(w), NEW k \in Settings
  PROVE  At(LoadConfig(w.config).sources, k, "default") = LayerOf(w, k)
<1> DEFINE in    == w.config
           yaml  == YamlSets(FileAt(in))
           flag  == [j \in DOMAIN in.flags |-> "flag"]
           key1  == [j \in IF in.keyFlag # <<>> THEN {"llm_api_key"} ELSE {} |-> "flag"]
           key2  == [j \in IF in.key = "" /\ LLMAPIKeyBlock(FileAt(in)) # NoRef
                           THEN {"llm_api_key"} ELSE {} |-> "yaml"]
           marks == [j \in EnvMarks(in) |-> "env"]
           set   == [j \in DOMAIN yaml |-> "yaml"]
           src   == flag ++ key1 ++ key2 ++ marks ++ set
<1>1. LoadConfig(in).sources = src
  BY DEF LoadConfig, Sources
<1>2. k # "llm_api_key"
  BY SettingNames
<1>3. DOMAIN yaml = {j \in (TextSettings \cup ParsedSettings \cup ListSettings) \cap DOMAIN w.file :
                       Effective(j, w.file[j])}
  BY DEF ConfigWritten
<1>4. k \in EnvMarks(in) <=> Effective(k, in.env[k])
  BY MarkIsEffective DEF ConfigWritten
<1>5. /\ DOMAIN flag = DOMAIN in.flags /\ (k \in DOMAIN flag => flag[k] = "flag")
      /\ k \notin DOMAIN key1 /\ k \notin DOMAIN key2
      /\ DOMAIN marks = EnvMarks(in) /\ (k \in DOMAIN marks => marks[k] = "env")
      /\ DOMAIN set = DOMAIN yaml /\ (k \in DOMAIN set => set[k] = "yaml")
  BY <1>2
<1> HIDE DEF flag, key1, key2, marks, set
<1>6. At(src, k, "default") = IF k \in DOMAIN flag THEN flag[k]
                              ELSE IF k \in DOMAIN marks THEN marks[k]
                              ELSE IF k \in DOMAIN set THEN set[k] ELSE "default"
  BY <1>5 DEF At, ++
<1> HIDE DEF src
<1> QED BY <1>1, <1>3, <1>4, <1>5, <1>6 DEF LayerOf

\* The key is that of the first source that has one.
LEMMA KeyLayered ==
  ASSUME NEW w, ConfigWritten(w)
  PROVE  /\ LoadConfig(w.config).key = MeantKey(w)
         /\ LoadConfig(w.config).ok = (KeyWanted(w) => MeantKey(w) # "")
<1> DEFINE in == w.config
           ref == KeyRef(in, FileAt(in))
           found == Resolve(ref, in.store, in.vars)
<1>1. /\ LoadConfig(in).key = found.key
      /\ LoadConfig(in).ok = (found.ok /\ TRUE)
  BY DEF LoadConfig, ConfigWritten
<1>2. PICK v, p, e : w.ref = Ref(v, p, e)
  <2>1. \E x, y, z : LLMAPIKeyBlock(FileAt(in)) = Ref(x, y, z)
    BY DEF LLMAPIKeyBlock, NoRef
  <2>2. LLMAPIKeyBlock(FileAt(in)) = w.ref
    BY DEF ConfigWritten
  <2> QED BY <2>1, <2>2
<1>3. w.ref.value = v /\ w.ref.pass = p /\ w.ref.env = e
  BY <1>2 DEF Ref
<1>4. w.ref = NoRef <=> v = "" /\ p = "" /\ e = ""
  <2> DEFINE r == w.ref
  <2>1. r = Ref(v, p, e)
    BY <1>2
  <2> HIDE DEF r
  <2>2. r = NoRef <=> v = "" /\ p = "" /\ e = ""
    BY <2>1 DEF Ref, NoRef
  <2> QED BY <2>2 DEF r
<1>5. At(in.store, "", "") = "" /\ At(in.vars, "", "") = ""
  BY DEF ConfigWritten, At
<1>6. CASE in.keyFlag # <<>>
  <2>1. PICK f : in.keyFlag = <<f>>
    BY <1>6 DEF ConfigWritten
  <2>2. in.keyFlag[1] = f /\ (in.keyFlag # <<"">> <=> f # "")
    BY <2>1
  <2>3. ref = Ref(f, "", "")
    BY <1>6, <2>2 DEF KeyRef
  <2> HIDE DEF ref
  <2>4. ref.value = f /\ (ref = NoRef <=> f = "")
    BY <2>3 DEF Ref, NoRef
  <2>5. found = [ok |-> TRUE, key |-> f]
    BY <2>4 DEF Resolve
  <2>6. MeantKey(w) = f /\ (KeyWanted(w) <=> f # "")
    BY <1>6, <2>2 DEF MeantKey, KeyWanted
  <2> HIDE DEF found
  <2> QED BY <1>1, <2>5, <2>6
<1>7. CASE in.keyFlag = <<>>
  <2> DEFINE val == IF in.key # "" THEN in.key ELSE v
  <2>1. ref = Ref(val, p, e)
    BY <1>3, <1>7 DEF KeyRef, ConfigWritten
  <2>2. KeyWanted(w) <=> in.key # "" \/ w.ref # NoRef
    BY <1>7 DEF KeyWanted
  <2>3. MeantKey(w) = IF val # "" THEN val
                      ELSE IF At(in.store, p, "") # "" THEN in.store[p]
                      ELSE At(in.vars, e, "")
    BY <1>3, <1>7 DEF MeantKey
  <2>4. At(in.store, p, "") # "" => in.store[p] = At(in.store, p, "")
    BY DEF At
  <2>5. At(in.vars, e, "") # "" => in.vars[e] = At(in.vars, e, "")
    BY DEF At
  <2> HIDE DEF ref
  <2>6. ref.value = val /\ ref.pass = p /\ ref.env = e
    BY <2>1 DEF Ref
  <2>7. ref = NoRef <=> val = "" /\ p = "" /\ e = ""
    BY <2>1 DEF Ref, NoRef
  <2>8. val # "" <=> in.key # "" \/ v # ""
    OBVIOUS
  <2> HIDE DEF val
  <2>9. found.key = MeantKey(w) /\ found.ok = (KeyWanted(w) => MeantKey(w) # "")
    <3>1. CASE val # ""
      <4>1. found = [ok |-> TRUE, key |-> val]
        BY <2>6, <3>1 DEF Resolve
      <4> HIDE DEF found
      <4> QED BY <2>3, <3>1, <4>1
    <3>2. CASE val = "" /\ p = "" /\ e = ""
      <4>1. found = [ok |-> TRUE, key |-> ""]
        BY <2>6, <2>7, <3>2 DEF Resolve
      <4>2. MeantKey(w) = "" /\ ~KeyWanted(w)
        BY <1>4, <1>5, <2>2, <2>3, <2>8, <3>2
      <4> HIDE DEF found
      <4> QED BY <4>1, <4>2
    <3>3. CASE val = "" /\ ~(p = "" /\ e = "")
      <4>1. KeyWanted(w)
        BY <1>4, <2>2, <3>3
      <4>2. CASE At(in.store, p, "") # ""
        <5>1. found = [ok |-> TRUE, key |-> in.store[p]]
          BY <2>6, <2>7, <3>3, <4>2 DEF Resolve
        <5> HIDE DEF found
        <5> QED BY <2>3, <2>4, <3>3, <4>2, <5>1
      <4>3. CASE At(in.store, p, "") = "" /\ At(in.vars, e, "") # ""
        <5>1. found = [ok |-> TRUE, key |-> in.vars[e]]
          BY <2>6, <2>7, <3>3, <4>3 DEF Resolve
        <5> HIDE DEF found
        <5> QED BY <2>3, <2>5, <3>3, <4>3, <5>1
      <4>4. CASE At(in.store, p, "") = "" /\ At(in.vars, e, "") = ""
        <5>1. found = [ok |-> FALSE, key |-> ""]
          BY <2>6, <2>7, <3>3, <4>4 DEF Resolve
        <5> HIDE DEF found
        <5> QED BY <2>3, <3>3, <4>1, <4>4, <5>1
      <4> QED BY <4>2, <4>3, <4>4
    <3> QED BY <3>1, <3>2, <3>3
  <2> HIDE DEF found
  <2> QED BY <1>1, <2>9
<1> QED BY <1>6, <1>7

\* The configuration is read once.
LEMMA ConfigStays ==
  ASSUME config # <<>> => config = LoadConfig(input.config), [StartupNext]_startupVars
  PROVE  (config # <<>> => config = LoadConfig(input.config))' /\ input' = input
BY DEF StartupNext, startupVars, ReadConfig, ReadAgents, ReadTools, Validate, Serve, Prepare

\* So the configuration, as it was read, is layered.
LEMMA LayersHold ==
  ASSUME ConfigWritten(input), config # <<>> => config = LoadConfig(input.config)
  PROVE  ConfigLayered
<1> SUFFICES ASSUME config # <<>>
             PROVE  /\ config.ok = (KeyWanted(input) => MeantKey(input) # "")
                    /\ \A k \in Settings :
                         /\ config.values[k] = MeantValue(input, k)
                         /\ At(config.sources, k, "default") = LayerOf(input, k)
                    /\ config.key = MeantKey(input)
                    /\ [i \in DOMAIN config.notify |-> config.notify[i].set] = input.backends
                    /\ config.limits = input.limits
  BY DEF ConfigLayered
<1>1. config = LoadConfig(input.config)
  OBVIOUS
<1>2. /\ config.notify = NotifyBackends(FileAt(input.config))
      /\ config.limits = ToolRateLimits(FileAt(input.config))
  BY <1>1 DEF LoadConfig
<1>3. /\ [i \in DOMAIN config.notify |-> config.notify[i].set] = input.backends
      /\ config.limits = input.limits
  BY <1>2 DEF ConfigWritten
<1> QED BY <1>1, <1>3, KeyLayered, ValuesLayered, SourcesLayered

(* Where the file says what is meant, every setting has the value of the
   highest layer that gives one that parses, and is attributed to it; the key
   of the LLM is that of its first source, and Load fails only without one
   (config.go:29-149).                                                       *)
THEOREM SettingsAreLayered == StartupSpec /\ ConfigWritten(input) => []ConfigLayered
<1> DEFINE Loaded == config # <<>> => config = LoadConfig(input.config)
<1>1. StartupInit => Loaded
  BY DEF StartupInit
<1>2. Loaded /\ ConfigWritten(input) /\ [StartupNext]_startupVars => (Loaded /\ ConfigWritten(input))'
  BY ConfigStays
<1>3. Loaded /\ ConfigWritten(input) => ConfigLayered
  BY LayersHold
<1> HIDE DEF Loaded
<1> QED BY <1>1, <1>2, <1>3, PTL DEF StartupSpec

-----------------------------------------------------------------------------
(* The folds of the loaders.

   FoldLeft goes over the sets of indices, by the largest.  What the folds that
   are argued about do with the next element:                                *)
Folded(fold, ctx, acc, x) ==
  CASE fold = "turn"       -> ReadDecl(acc, x)
    [] fold = "agents"     -> AddDef(acc, LoadFile(x))
    [] fold = "claims"     -> Claim(ctx.defs, ctx.agent, acc, x)
    [] fold = "lifecycles" -> ClaimAll(ctx, acc, ParseLifecycle(x))
    [] fold = "items"      -> ToItems(x.dash /\ x.ind = ctx, acc, x)

\* The function that FoldLeft goes through, on the numbers up to n.
Folds(f, fold, ctx, base, seq, n) ==
  f = [s \in SUBSET (1..n) |->
         IF s = {} THEN base ELSE Folded(fold, ctx, f[s \ {Max(s)}], seq[Max(s)])]
FoldOf(fold, ctx, base, seq, n) == CHOOSE f : Folds(f, fold, ctx, base, seq, n)

\* Without its largest number a set of numbers up to n is one up to n - 1.
LEMMA TopOut ==
  ASSUME NEW n \in Nat, NEW s \in SUBSET (1..n), s # {}
  PROVE  /\ Max(s) \in s /\ Max(s) \in 1..n /\ s \ {Max(s)} \in SUBSET (1..n)
         /\ n > 0 /\ s \ {Max(s)} \in SUBSET (1..n - 1)
<1>1. s \in SUBSET (0..n)
  OBVIOUS
<1>2. Max(s) \in s /\ \A x \in s : x <= Max(s)
  BY <1>1, MaxIsLargest
<1>3. Max(s) \in 1..n
  BY <1>2
<1>4. ASSUME NEW x \in s \ {Max(s)} PROVE x \in 1..n - 1
  <2> DEFINE m == Max(s)
  <2>1. x \in 1..n /\ m \in 1..n /\ x <= m /\ x # m
    BY <1>2, <1>3
  <2> HIDE DEF m
  <2> QED BY <2>1
<1>5. n > 0
  <2> DEFINE m == Max(s)
  <2>1. m \in 1..n
    BY <1>3
  <2> HIDE DEF m
  <2> QED BY <2>1
<1>6. s \ {Max(s)} \in SUBSET (1..n) /\ s \ {Max(s)} \in SUBSET (1..n - 1)
  BY <1>4
<1> QED BY <1>2, <1>3, <1>5, <1>6

\* It exists: the least n without one could be given one.
LEMMA FoldExists ==
  ASSUME NEW fold, NEW ctx, NEW base, NEW seq, NEW n \in Nat
  PROVE  \E f : Folds(f, fold, ctx, base, seq, n)
<1> DEFINE Bad == {m \in Nat : ~\E f : Folds(f, fold, ctx, base, seq, m)}
<1>1. ASSUME Bad # {} PROVE FALSE
  <2>1. PICK m \in Bad : \A k \in Bad : m <= k
    BY <1>1, LeastNat
  <2>2. m \in Nat /\ m # 0
    <3>1. \A s \in SUBSET (1..0) : s = {}
      OBVIOUS
    <3>2. Folds([s \in SUBSET (1..0) |-> base], fold, ctx, base, seq, 0)
      BY <3>1 DEF Folds
    <3> QED BY <2>1, <3>2
  <2>3. m - 1 \in Nat /\ ~(m <= m - 1)
    BY <2>2
  <2>4. PICK f : Folds(f, fold, ctx, base, seq, m - 1)
    BY <2>1, <2>3
  <2> DEFINE g == [s \in SUBSET (1..m) |->
                     IF s = {} THEN base ELSE Folded(fold, ctx, f[s \ {Max(s)}], seq[Max(s)])]
  <2>5. ASSUME NEW s \in SUBSET (1..m), s # {} PROVE g[s \ {Max(s)}] = f[s \ {Max(s)}]
    <3> DEFINE t == s \ {Max(s)}
    <3>1. t \in SUBSET (1..m) /\ t \in SUBSET (1..m - 1)
      BY <2>2, <2>5, TopOut
    <3> HIDE DEF t
    <3>2. g[t] = IF t = {} THEN base ELSE Folded(fold, ctx, f[t \ {Max(t)}], seq[Max(t)])
      BY <3>1
    <3>3. f[t] = IF t = {} THEN base ELSE Folded(fold, ctx, f[t \ {Max(t)}], seq[Max(t)])
      BY <2>4, <3>1 DEF Folds
    <3> QED BY <3>2, <3>3 DEF t
  <2>6. Folds(g, fold, ctx, base, seq, m)
    BY <2>5 DEF Folds
  <2> QED BY <2>1, <2>6
<1> QED BY <1>1

\* What holds of the empty set and is kept by the next number holds of 1..n.
LEMMA ByLargest ==
  ASSUME NEW n \in Nat, NEW T, {} \in T,
         \A s \in SUBSET (1..n) : s # {} /\ s \ {Max(s)} \in T => s \in T
  PROVE  1..n \in T
<1> DEFINE Bad == {m \in 0..n : ~(SUBSET (1..m) \subseteq T)}
<1>1. ASSUME Bad # {} PROVE FALSE
  <2>0. Bad \in SUBSET Nat
    OBVIOUS
  <2>1. PICK m \in Bad : \A k \in Bad : m <= k
    BY <1>1, <2>0, LeastNat
  <2>2. m \in 0..n /\ m # 0
    <3>1. \A s \in SUBSET (1..0) : s = {}
      OBVIOUS
    <3> QED BY <2>1, <3>1
  <2>3. m - 1 \in 0..n /\ ~(m <= m - 1)
    BY <2>2
  <2>4. SUBSET (1..m - 1) \subseteq T
    BY <2>1, <2>3
  <2>5. ASSUME NEW s \in SUBSET (1..m), s # {} PROVE s \in T
    <3>1. s \ {Max(s)} \in SUBSET (1..m - 1)
      BY <2>2, <2>5, TopOut
    <3>2. s \in SUBSET (1..n)
      BY <2>2
    <3> QED BY <2>4, <2>5, <3>1, <3>2
  <2> QED BY <2>1, <2>5
<1>2. n \in 0..n /\ 1..n \in SUBSET (1..n)
  OBVIOUS
<1> QED BY <1>1, <1>2

\* What f has for a set follows from what it has without the largest number.
Stepwise(f, fold, ctx, base, seq, n) ==
  /\ f[{}] = base
  /\ \A s \in SUBSET (1..n) : s # {} =>
       /\ f[s] = Folded(fold, ctx, f[s \ {Max(s)}], seq[Max(s)])
       /\ s \ {Max(s)} \in SUBSET (1..n) /\ Max(s) \in 1..n

\* What f has for a set is what the fold makes of the set without its largest
\* number, and of the element there.
LEMMA FoldSteps ==
  ASSUME NEW fold, NEW ctx, NEW base, NEW seq, NEW n \in Nat
  PROVE  Stepwise(FoldOf(fold, ctx, base, seq, n), fold, ctx, base, seq, n)
<1> DEFINE f == FoldOf(fold, ctx, base, seq, n)
<1>1. Folds(f, fold, ctx, base, seq, n)
  BY FoldExists DEF FoldOf
<1>2. {} \in SUBSET (1..n)
  OBVIOUS
<1> HIDE DEF f
<1>3. Stepwise(f, fold, ctx, base, seq, n)
  BY <1>1, <1>2, TopOut DEF Folds, Stepwise
<1> QED BY <1>3 DEF f

-----------------------------------------------------------------------------
\* A sequence, of whatever.
IsList(s) == s \in Seq(Range(s))

\* The places of a list, ...
LEMMA ListDomain ==
  ASSUME NEW s, IsList(s)
  PROVE  Len(s) \in Nat /\ DOMAIN s = 1..Len(s)
BY DEF IsList

\* ... and what is a list by its places.
LEMMA MadeList ==
  ASSUME NEW n \in Nat, NEW s, DOMAIN s = 1..n, s = [i \in DOMAIN s |-> s[i]]
  PROVE  IsList(s) /\ Len(s) = n
<1>1. s \in [1..n -> Range(s)]
  BY DEF Range
<1> QED BY <1>1 DEF IsList

\* A declaration names no tool, or the tools of a list.
GoodDecl(d) ==
  /\ "require_tool" \in DOMAIN d
  /\ d["require_tool"] = <<>> \/ \E x : d["require_tool"] = <<x>> /\ IsList(x)

\* A declaration line changes one key of the header, whatever it was.
LEMMA DeclRead ==
  ASSUME NEW t, "decl" \in DOMAIN t, GoodDecl(t.decl), NEW l, IsList(l.items)
  PROVE  "decl" \in DOMAIN ReadDecl(t, l) /\ GoodDecl(ReadDecl(t, l).decl)
<1>1. CASE t.done
  BY <1>1 DEF ReadDecl
<1>2. CASE ~t.done /\ l.key \in {"", "blank"}
  <2>1. ReadDecl(t, l) = [t EXCEPT !.done = TRUE]
    BY <1>2 DEF ReadDecl
  <2> QED BY <2>1
<1>3. CASE ~t.done /\ l.key \notin {"", "blank"} /\ l.key \notin TurnKeys
  <2>1. ReadDecl(t, l) = [t EXCEPT !.done = TRUE, !.bad = TRUE]
    BY <1>3 DEF ReadDecl
  <2> QED BY <2>1
<1>4. CASE ~t.done /\ l.key \notin {"", "blank"} /\ l.key \in TurnKeys
  <2> DEFINE d == t.decl
             e == [d EXCEPT ![l.key] = <<l.items>>]
  <2>1. ReadDecl(t, l) = [t EXCEPT !.decl[l.key] = <<l.items>>]
    BY <1>4 DEF ReadDecl
  <2>2. "decl" \in DOMAIN ReadDecl(t, l) /\ ReadDecl(t, l).decl = e
    BY <2>1
  <2>3. GoodDecl(e)
    <3>1. GoodDecl(d)
      OBVIOUS
    <3> HIDE DEF d
    <3> QED BY <3>1 DEF GoodDecl
  <2> HIDE DEF e
  <2> QED BY <2>2, <2>3
<1> QED BY <1>1, <1>2, <1>3, <1>4

\* The header of a turn declares what its lines say, in any order.
LEMMA TurnDeclares ==
  ASSUME NEW section, IsList(section), \A i \in DOMAIN section : IsList(section[i].items)
  PROVE  GoodDecl(ParseTurn(section).decl)
<1> DEFINE base == [decl |-> Nothing, done |-> FALSE, bad |-> FALSE]
           n == Len(section)
           f == FoldOf("turn", "", base, section, n)
           Good(t) == "decl" \in DOMAIN t /\ GoodDecl(t.decl)
           T == {s \in SUBSET (1..n) : Good(f[s])}
<1>1. n \in Nat /\ DOMAIN section = 1..n
  BY ListDomain
<1>2. ParseTurn(section) = f[1..n]
  <2>1. ParseTurn(section) =
          (CHOOSE g : g = [s \in SUBSET DOMAIN section |->
             IF s = {} THEN base ELSE ReadDecl(g[s \ {Max(s)}], section[Max(s)])])[DOMAIN section]
    BY DEF ParseTurn, FoldLeft, MapThenFoldSet
  <2> QED BY <1>1, <2>1 DEF FoldOf, Folds, Folded
<1>3. Good(base)
  BY DEF GoodDecl, Nothing, TurnKeys
<1>5. Stepwise(f, "turn", "", base, section, n)
  BY <1>1, FoldSteps
<1> HIDE DEF f, base
<1>6. {} \in T
  BY <1>3, <1>5 DEF Stepwise
<1>7. ASSUME NEW s \in SUBSET (1..n), s # {}, s \ {Max(s)} \in T PROVE s \in T
  <2>1. f[s] = ReadDecl(f[s \ {Max(s)}], section[Max(s)])
    BY <1>5, <1>7 DEF Folded, Stepwise
  <2>2. IsList(section[Max(s)].items)
    BY <1>1, <1>5, <1>7 DEF Stepwise
  <2>3. Good(f[s \ {Max(s)}])
    BY <1>7
  <2>4. Good(f[s])
    BY <2>1, <2>2, <2>3, DeclRead
  <2> QED BY <2>4
<1>8. 1..n \in T
  <2> HIDE DEF T, n
  <2> QED BY <1>1, <1>6, <1>7, ByLargest
<1> QED BY <1>2, <1>8

-----------------------------------------------------------------------------
\* The declarations of an agent's turns; no other field of it matters here.
GoodAgent(a) ==
  /\ "scopes" \in DOMAIN a
  /\ IsList(a.scopes)
  /\ \A i \in DOMAIN a.scopes : GoodDecl(a.scopes[i])

\* The turns of a file are sections, these are lines, and a declaration has a
\* list of items.
FileWritten(file) ==
  /\ IsList(file.turns)
  /\ \A i \in DOMAIN file.turns :
       /\ IsList(file.turns[i])
       /\ \A j \in DOMAIN file.turns[i] : IsList(file.turns[i][j].items)

\* So does every turn of a file.
LEMMA FileDeclares ==
  ASSUME NEW file, FileWritten(file)
  PROVE  GoodAgent(LoadFile(file))
<1> DEFINE turns == [i \in DOMAIN file.turns |-> ParseTurn(file.turns[i])]
           sc == [i \in DOMAIN turns |-> turns[i].decl]
           a == LoadFile(file)
<1>1. "scopes" \in DOMAIN a /\ a.scopes = sc
  BY DEF LoadFile
<1>2. Len(file.turns) \in Nat /\ DOMAIN file.turns = 1..Len(file.turns)
  BY ListDomain DEF FileWritten
<1>3. DOMAIN sc = 1..Len(file.turns) /\ sc = [i \in DOMAIN sc |-> sc[i]]
  BY <1>2
<1>4. ASSUME NEW i \in DOMAIN sc PROVE GoodDecl(sc[i])
  <2>1. sc[i] = ParseTurn(file.turns[i]).decl /\ i \in DOMAIN file.turns
    BY <1>4
  <2> HIDE DEF sc
  <2> QED BY <2>1, TurnDeclares DEF FileWritten
<1> HIDE DEF sc, a
<1>5. IsList(sc)
  BY <1>2, <1>3, MadeList
<1>6. GoodAgent(a)
  BY <1>1, <1>4, <1>5 DEF GoodAgent
<1> QED BY <1>6 DEF a

\* A table of agents.
GoodTable(t) == \A k \in DOMAIN t : GoodAgent(t[k])

\* An agent more leaves a table a table.
LEMMA TableWith ==
  ASSUME NEW t, GoodTable(t), NEW k, NEW a, GoodAgent(a)
  PROVE  GoodTable(With(t, k, a))
BY WithAt DEF GoodTable, With

\* A file adds its agent or an error, ...
LEMMA DefAdded ==
  ASSUME NEW d, "defs" \in DOMAIN d, GoodTable(d.defs), NEW a, GoodAgent(a)
  PROVE  "defs" \in DOMAIN AddDef(d, a) /\ GoodTable(AddDef(d, a).defs)
<1>1. CASE a.ok /\ a.name \notin DOMAIN d.defs \cup {""}
  <2>1. AddDef(d, a) = [d EXCEPT !.defs = With(d.defs, a.name, a)]
    BY <1>1 DEF AddDef
  <2>2. "defs" \in DOMAIN AddDef(d, a) /\ AddDef(d, a).defs = With(d.defs, a.name, a)
    BY <2>1
  <2> QED BY <2>2, TableWith
<1>2. CASE ~(a.ok /\ a.name \notin DOMAIN d.defs \cup {""})
  <2>1. AddDef(d, a) = [d EXCEPT !.ok = FALSE]
    BY <1>2 DEF AddDef
  <2> QED BY <2>1
<1> QED BY <1>1, <1>2

\* ... and so do all files.
LEMMA DefsDeclare ==
  ASSUME NEW files, IsList(files), \A i \in DOMAIN files : FileWritten(files[i])
  PROVE  GoodTable(AgentDefs(files).defs)
<1> DEFINE base == [defs |-> <<>>, ok |-> TRUE]
           n == Len(files)
           f == FoldOf("agents", "", base, files, n)
           Good(d) == "defs" \in DOMAIN d /\ GoodTable(d.defs)
           T == {s \in SUBSET (1..n) : Good(f[s])}
<1>1. n \in Nat /\ DOMAIN files = 1..n
  BY ListDomain
<1>2. AgentDefs(files) = f[1..n]
  <2>1. AgentDefs(files) =
          (CHOOSE g : g = [s \in SUBSET DOMAIN files |->
             IF s = {} THEN base ELSE AddDef(g[s \ {Max(s)}], LoadFile(files[Max(s)]))])[DOMAIN files]
    BY DEF AgentDefs, FoldLeft, MapThenFoldSet
  <2> QED BY <1>1, <2>1 DEF FoldOf, Folds, Folded
<1>3. Good(base)
  BY DEF GoodTable
<1>4. Stepwise(f, "agents", "", base, files, n)
  BY <1>1, FoldSteps
<1> HIDE DEF f, base
<1>5. {} \in T
  BY <1>3, <1>4 DEF Stepwise
<1>6. ASSUME NEW s \in SUBSET (1..n), s # {}, s \ {Max(s)} \in T PROVE s \in T
  <2>1. f[s] = AddDef(f[s \ {Max(s)}], LoadFile(files[Max(s)]))
    BY <1>4, <1>6 DEF Folded, Stepwise
  <2>2. GoodAgent(LoadFile(files[Max(s)]))
    BY <1>1, <1>4, <1>6, FileDeclares DEF Stepwise
  <2>3. Good(f[s \ {Max(s)}])
    BY <1>6
  <2>4. Good(f[s])
    BY <2>1, <2>2, <2>3, DefAdded
  <2> QED BY <2>4
<1>7. 1..n \in T
  <2> HIDE DEF T, n
  <2> QED BY <1>1, <1>5, <1>6, ByLargest
<1> QED BY <1>2, <1>7

\* A job keeps the declarations of its agent, or drops them all.
LEMMA RecordApplied ==
  ASSUME NEW a, GoodAgent(a), NEW rec, NEW name
  PROVE  GoodAgent([ApplyLifecycle(a, rec) EXCEPT !.name = name])
<1> DEFINE b == [ApplyLifecycle(a, rec) EXCEPT !.name = name]
<1>1. DOMAIN b = DOMAIN a /\ (b.scopes = <<>> \/ b.scopes = a.scopes)
  BY DEF ApplyLifecycle, GoodAgent
<1> HIDE DEF b
<1>2. IsList(<<>>) /\ DOMAIN <<>> = {}
  BY DEF IsList
<1>3. GoodAgent(b)
  BY <1>1, <1>2 DEF GoodAgent
<1> QED BY <1>3 DEF b

\* A record adds its job or an error, ...
LEMMA ClaimKeeps ==
  ASSUME NEW defs, GoodTable(defs), NEW agent, NEW rec,
         NEW j, "jobs" \in DOMAIN j, GoodTable(j.jobs)
  PROVE  "jobs" \in DOMAIN Claim(defs, agent, j, rec) /\ GoodTable(Claim(defs, agent, j, rec).jobs)
<1> DEFINE name == rec.set["name"]
           job  == [ApplyLifecycle(defs[agent], rec) EXCEPT !.name = name]
<1>1. CASE agent \notin DOMAIN defs
  <2>1. Claim(defs, agent, j, rec) = [j EXCEPT !.ok = FALSE]
    BY <1>1 DEF Claim
  <2> QED BY <2>1
<1>2. CASE agent \in DOMAIN defs /\ name \in DOMAIN j.jobs
  <2>1. Claim(defs, agent, j, rec) = [j EXCEPT !.ok = FALSE, !.claimed = @ \cup {agent}]
    BY <1>2 DEF Claim
  <2> QED BY <2>1
<1>3. CASE agent \in DOMAIN defs /\ name \notin DOMAIN j.jobs
  <2>1. GoodAgent(job)
    BY <1>3, RecordApplied DEF GoodTable
  <2>2. Claim(defs, agent, j, rec) =
          [j EXCEPT !.claimed = @ \cup {agent}, !.jobs = With(@, name, job)]
    BY <1>3 DEF Claim
  <2> HIDE DEF job, name
  <2>3. "jobs" \in DOMAIN Claim(defs, agent, j, rec)
        /\ Claim(defs, agent, j, rec).jobs = With(j.jobs, name, job)
    BY <2>2
  <2> QED BY <2>1, <2>3, TableWith
<1> QED BY <1>1, <1>2, <1>3

\* The lifecycle was read: its records are a list unless there was an error.
Read(file) == file.made.ok => IsList(file.made.recs)

\* ... so do the records of a file, ...
LEMMA ClaimsKeep ==
  ASSUME NEW defs, GoodTable(defs), NEW file, Read(file),
         NEW j, "jobs" \in DOMAIN j, GoodTable(j.jobs)
  PROVE  "jobs" \in DOMAIN ClaimAll(defs, j, file) /\ GoodTable(ClaimAll(defs, j, file).jobs)
<1>1. CASE ~file.made.ok
  <2>1. ClaimAll(defs, j, file) = [j EXCEPT !.ok = FALSE]
    BY <1>1 DEF ClaimAll
  <2> QED BY <2>1
<1>2. CASE file.made.ok
  <2> DEFINE recs == file.made.recs
             ctx == [defs |-> defs, agent |-> file.agent]
             n == Len(recs)
             f == FoldOf("claims", ctx, j, recs, n)
             Good(k) == "jobs" \in DOMAIN k /\ GoodTable(k.jobs)
             T == {s \in SUBSET (1..n) : Good(f[s])}
  <2>1. n \in Nat /\ DOMAIN recs = 1..n
    BY <1>2, ListDomain DEF Read
  <2>2. ClaimAll(defs, j, file) = f[1..n]
    <3>1. ClaimAll(defs, j, file) =
            (CHOOSE g : g = [s \in SUBSET DOMAIN recs |->
               IF s = {} THEN j ELSE Claim(defs, file.agent, g[s \ {Max(s)}], recs[Max(s)])])[DOMAIN recs]
      BY <1>2 DEF ClaimAll, FoldLeft, MapThenFoldSet
    <3> QED BY <2>1, <3>1 DEF FoldOf, Folds, Folded
  <2>3. Stepwise(f, "claims", ctx, j, recs, n)
    BY <2>1, FoldSteps
  <2> HIDE DEF f
  <2>4. {} \in T
    BY <2>3 DEF Stepwise
  <2>5. ASSUME NEW s \in SUBSET (1..n), s # {}, s \ {Max(s)} \in T PROVE s \in T
    <3>1. f[s] = Claim(defs, file.agent, f[s \ {Max(s)}], recs[Max(s)])
      BY <2>3, <2>5 DEF Folded, Stepwise
    <3>2. Good(f[s \ {Max(s)}])
      BY <2>5
    <3>3. Good(f[s])
      BY <3>1, <3>2, ClaimKeeps
    <3> QED BY <3>3
  <2>6. 1..n \in T
    <3> HIDE DEF T, n
    <3> QED BY <2>1, <2>4, <2>5, ByLargest
  <2> QED BY <2>2, <2>6
<1> QED BY <1>1, <1>2

\* ... and those of all files.
LEMMA LifecyclesKeep ==
  ASSUME NEW defs, GoodTable(defs), NEW docs, IsList(docs),
         \A i \in DOMAIN docs : Read(ParseLifecycle(docs[i]))
  PROVE  GoodTable(LifecycleJobs(defs, docs).jobs)
<1> DEFINE base == [jobs |-> <<>>, claimed |-> {}, ok |-> TRUE]
           n == Len(docs)
           f == FoldOf("lifecycles", defs, base, docs, n)
           Good(d) == "jobs" \in DOMAIN d /\ GoodTable(d.jobs)
           T == {s \in SUBSET (1..n) : Good(f[s])}
<1>1. n \in Nat /\ DOMAIN docs = 1..n
  BY ListDomain
<1>2. LifecycleJobs(defs, docs) = f[1..n]
  <2>1. LifecycleJobs(defs, docs) =
          (CHOOSE g : g = [s \in SUBSET DOMAIN docs |->
             IF s = {} THEN base
             ELSE ClaimAll(defs, g[s \ {Max(s)}], ParseLifecycle(docs[Max(s)]))])[DOMAIN docs]
    BY DEF LifecycleJobs, FoldLeft, MapThenFoldSet
  <2> QED BY <1>1, <2>1 DEF FoldOf, Folds, Folded
<1>3. Good(base)
  BY DEF GoodTable
<1>4. Stepwise(f, "lifecycles", defs, base, docs, n)
  BY <1>1, FoldSteps
<1> HIDE DEF f, base
<1>5. {} \in T
  BY <1>3, <1>4 DEF Stepwise
<1>6. ASSUME NEW s \in SUBSET (1..n), s # {}, s \ {Max(s)} \in T PROVE s \in T
  <2>1. f[s] = ClaimAll(defs, f[s \ {Max(s)}], ParseLifecycle(docs[Max(s)]))
    BY <1>4, <1>6 DEF Folded, Stepwise
  <2>2. Read(ParseLifecycle(docs[Max(s)]))
    BY <1>1, <1>4, <1>6 DEF Stepwise
  <2>3. Good(f[s \ {Max(s)}])
    BY <1>6
  <2>4. Good(f[s])
    BY <2>1, <2>2, <2>3, ClaimsKeep
  <2> QED BY <2>4
<1>7. 1..n \in T
  <2> HIDE DEF T, n
  <2> QED BY <1>1, <1>5, <1>6, ByLargest
<1> QED BY <1>2, <1>7

-----------------------------------------------------------------------------
(* The records of a lifecycle.                                              *)

\* The rest of a list is one, ...
LEMMA PartIsList ==
  ASSUME NEW s, IsList(s), NEW i \in Nat, i > 0
  PROVE  IsList(SubSeq(s, i, Len(s)))
<1> DEFINE t == SubSeq(s, i, Len(s))
<1>1. t \in Seq(Range(s)) /\ Len(s) \in Nat
  BY DEF IsList
<1> HIDE DEF t
<1>2. IsList(t)
  <2>1. DOMAIN t = 1..Len(t) /\ Len(t) \in Nat /\ t = [j \in DOMAIN t |-> t[j]]
    BY <1>1
  <2> QED BY <2>1, MadeList
<1> QED BY <1>2 DEF t

\* ... and so are the lines that are kept of it, ...
LEMMA SelectIsList ==
  ASSUME NEW s, IsList(s), NEW S
  PROVE  IsList(Select(s, S))
<1> DEFINE t == Select(s, S)
<1>1. t \in Seq(Range(s))
  BY SelectPicks DEF IsList
<1> HIDE DEF t
<1>2. DOMAIN t = 1..Len(t) /\ Len(t) \in Nat /\ t = [j \in DOMAIN t |-> t[j]]
  BY <1>1
<1>3. IsList(t)
  BY <1>2, MadeList
<1> QED BY <1>3 DEF t

\* A line that goes to the items before it.
LEMMA ItemGrows ==
  ASSUME NEW W, NEW acc \in Seq(Seq(W)), acc # <<>>, NEW l \in W
  PROVE  [acc EXCEPT ![Len(acc)] = Append(@, l)] \in Seq(Seq(W))
<1>1. Len(acc) \in DOMAIN acc /\ acc[Len(acc)] \in Seq(W)
  OBVIOUS
<1>2. Append(acc[Len(acc)], l) \in Seq(W)
  BY <1>1
<1> QED BY <1>1, <1>2

\* ... and the items it is split into.
LEMMA ItemsAreList ==
  ASSUME NEW lines, IsList(lines), NEW level
  PROVE  IsList(ItemsAt(lines, level))
<1> DEFINE n == Len(lines)
           Bare(l) == [l EXCEPT !.dash = FALSE, !.ind = 0]
           W == Range(lines) \cup {Bare(l) : l \in Range(lines)}
           f == FoldOf("items", level, <<>>, lines, n)
           T == {s \in SUBSET (1..n) : f[s] \in Seq(Seq(W))}
           items == ItemsAt(lines, level)
<1>1. n \in Nat /\ DOMAIN lines = 1..n
  BY ListDomain
<1>2. items = f[1..n]
  <2>1. items =
          (CHOOSE g : g = [s \in SUBSET DOMAIN lines |->
             IF s = {} THEN <<>>
             ELSE ToItems(lines[Max(s)].dash /\ lines[Max(s)].ind = level,
                          g[s \ {Max(s)}], lines[Max(s)])])[DOMAIN lines]
    BY DEF ItemsAt, Items, FoldLeft, MapThenFoldSet
  <2> QED BY <1>1, <2>1 DEF FoldOf, Folds, Folded
<1>3. Stepwise(f, "items", level, <<>>, lines, n)
  BY <1>1, FoldSteps
<1> HIDE DEF f, items
<1>4. {} \in T
  <2>1. <<>> \in Seq(Seq(W))
    OBVIOUS
  <2> QED BY <1>3, <2>1 DEF Stepwise
<1>5. ASSUME NEW s \in SUBSET (1..n), s # {}, s \ {Max(s)} \in T PROVE s \in T
  <2> DEFINE l == lines[Max(s)]
             acc == f[s \ {Max(s)}]
  <2>1. l \in Range(lines)
    BY <1>1, <1>3, <1>5 DEF Stepwise, Range
  <2>2. l \in W /\ Bare(l) \in W
    BY <2>1
  <2>3. acc \in Seq(Seq(W))
    BY <1>5
  <2>4. f[s] = IF l.dash /\ l.ind = level THEN Append(acc, <<Bare(l)>>)
               ELSE IF acc = <<>> THEN acc
               ELSE [acc EXCEPT ![Len(acc)] = Append(@, l)]
    BY <1>3, <1>5 DEF Folded, Stepwise, ToItems
  <2> HIDE DEF l, acc, W, Bare
  <2>5. Append(acc, <<Bare(l)>>) \in Seq(Seq(W))
    <3>1. <<Bare(l)>> \in Seq(W)
      BY <2>2
    <3> QED BY <2>3, <3>1
  <2>6. acc # <<>> => [acc EXCEPT ![Len(acc)] = Append(@, l)] \in Seq(Seq(W))
    BY <2>2, <2>3, ItemGrows
  <2>7. f[s] \in Seq(Seq(W))
    BY <2>3, <2>4, <2>5, <2>6
  <2> QED BY <2>7
<1>6. 1..n \in T
  <2> HIDE DEF T, n
  <2> QED BY <1>1, <1>4, <1>5, ByLargest
<1>7. items \in Seq(Seq(W))
  BY <1>2, <1>6
<1> HIDE DEF W
<1>8. DOMAIN items = 1..Len(items) /\ Len(items) \in Nat /\ items = [j \in DOMAIN items |-> items[j]]
  BY <1>7
<1>9. IsList(items)
  BY <1>8, MadeList
<1> QED BY <1>9 DEF items

\* The mappings of a list are numbered from 1.
LEMMA MappingsAreList ==
  ASSUME NEW lines, IsList(lines)
  PROVE  \E k \in Nat : DOMAIN Mappings(lines) = 1..k
<1> DEFINE first == FirstIndex(lines, LAMBDA l : l.dash)
           level == lines[first].ind
           kept  == Keep(lines, LAMBDA l : l.ind > level \/ (l.dash /\ l.ind = level))
           parts == ItemsAt(kept, level)
<1>1. IsList(kept)
  BY SelectIsList DEF Keep
<1> HIDE DEF kept, level
<1>2. IsList(parts)
  BY <1>1, ItemsAreList
<1>3. Len(parts) \in Nat /\ DOMAIN parts = 1..Len(parts)
  BY <1>2, ListDomain
<1>4. CASE first = 0
  <2>1. Mappings(lines) = <<>>
    BY <1>4 DEF Mappings
  <2>2. DOMAIN Mappings(lines) = 1..0
    BY <2>1
  <2> QED BY <2>2
<1>5. CASE first # 0
  <2>1. DOMAIN Mappings(lines) = DOMAIN parts
    BY <1>5 DEF Mappings, kept, level
  <2> HIDE DEF parts
  <2> QED BY <1>3, <2>1
<1> QED BY <1>4, <1>5

\* The instances of a list form: as many as there are mappings after the heading.
LEMMA SplitIsList ==
  ASSUME NEW lines, IsList(lines)
  PROVE  \E k \in Nat : DOMAIN SplitInstances(lines) = 1..k
<1> DEFINE hits == {i \in DOMAIN lines : IsHeading(lines[i], "instances")}
           at   == FirstIndex(lines, LAMBDA l : IsHeading(l, "instances"))
           rest == SubSeq(lines, at + 1, Len(lines))
           kept == Keep(rest, LAMBDA l : ~IsHeading(l, "instances"))
<1>1. at \in Nat
  <2>1. hits \in SUBSET Nat
    BY ListDomain
  <2>2. at = IF hits = {} THEN 0 ELSE CHOOSE i \in hits : \A j \in hits : i <= j
    BY DEF FirstIndex
  <2> HIDE DEF hits, at
  <2>3. CASE hits # {}
    BY <2>1, <2>2, <2>3, LeastNat
  <2>4. CASE hits = {}
    BY <2>2, <2>4
  <2> QED BY <2>3, <2>4
<1>2. IsList(rest)
  <2> HIDE DEF at
  <2>1. at + 1 \in Nat /\ at + 1 > 0
    BY <1>1
  <2> QED BY <2>1, PartIsList
<1>3. SplitInstances(lines) = Mappings(kept)
  BY DEF SplitInstances
<1> HIDE DEF rest
<1>4. IsList(kept)
  BY <1>2, SelectIsList DEF Keep
<1> HIDE DEF kept
<1> QED BY <1>3, <1>4, MappingsAreList

\* The records of the instances that are not disabled are numbered from 1.
LEMMA InstancesAreList ==
  ASSUME NEW disabled, NEW insts, NEW k \in Nat, DOMAIN insts = 1..k,
         InstanceRecords(disabled, insts).ok
  PROVE  IsList(InstanceRecords(disabled, insts).recs)
<1> DEFINE kept == {i \in DOMAIN insts : ~Disabled(insts[i].doc) /\ ~Contains(disabled, NameOf(insts[i]))}
           c == Cardinality(kept)
           recs == [n \in 1..c |->
                      insts[CHOOSE i \in kept : Cardinality({j \in kept : j <= i}) = n].rec]
<1>1. InstanceRecords(disabled, insts) \in {Failed, [ok |-> TRUE, recs |-> recs]}
  BY DEF InstanceRecords
<1>2. InstanceRecords(disabled, insts) # Failed
  BY DEF Failed
<1>3. InstanceRecords(disabled, insts).recs = recs
  <2>1. InstanceRecords(disabled, insts) = [ok |-> TRUE, recs |-> recs]
    BY <1>1, <1>2
  <2> HIDE DEF recs
  <2> QED BY <2>1
<1>4. c \in Nat
  <2>1. IsFiniteSet(1..k)
    BY FS_Interval
  <2>2. kept \in SUBSET (1..k)
    OBVIOUS
  <2> HIDE DEF kept
  <2>3. IsFiniteSet(kept)
    BY <2>1, <2>2, FS_Subset
  <2> QED BY <2>3, FS_CardinalityType
<1> HIDE DEF c
<1>5. DOMAIN recs = 1..c /\ recs = [i \in DOMAIN recs |-> recs[i]]
  OBVIOUS
<1> HIDE DEF recs
<1> QED BY <1>3, <1>4, <1>5, MadeList

\* So are those of a lifecycle in each of its forms.
LEMMA LifecycleRead ==
  ASSUME NEW lines, IsList(lines)
  PROVE  Read(ParseLifecycle(lines))
<1> DEFINE topLines == ExtractTopLevel(lines)
           top == ParseBlock(topLines)
           made == Records(top, topLines, lines)
<1>1. ParseLifecycle(lines).made = made
  BY DEF ParseLifecycle
<1> HIDE DEF topLines, top
<1>2. SUFFICES ASSUME made.ok PROVE IsList(made.recs)
  BY <1>1 DEF Read
<1>3. made # Failed
  BY <1>2 DEF Failed
<1>4. IsList(<<>>)
  BY DEF IsList
<1>5. CASE IsListForm(lines)
  <2> DEFINE blocks == SplitInstances(lines)
             base == Defaults(top, topLines)
             insts == [i \in DOMAIN blocks |-> ParseInstance(base, ParseBlock(blocks[i]), blocks[i])]
             disabled == At(top.lists, "disable", <<>>)
  <2>1. made = InstanceRecords(disabled, insts)
    BY <1>3, <1>5 DEF Records, ParseListForm
  <2>2. PICK k \in Nat : DOMAIN blocks = 1..k
    BY SplitIsList
  <2>3. DOMAIN insts = 1..k
    BY <2>2
  <2> HIDE DEF insts, disabled
  <2> QED BY <1>2, <2>1, <2>2, <2>3, InstancesAreList
<1>6. CASE ~IsListForm(lines) /\ Disabled(top)
  <2>1. made = [ok |-> TRUE, recs |-> <<>>]
    BY <1>3, <1>6 DEF Records
  <2> HIDE DEF made
  <2> QED BY <1>4, <2>1
<1>7. CASE ~IsListForm(lines) /\ ~Disabled(top)
  <2>1. \E rec : made = [ok |-> TRUE, recs |-> <<rec>>]
    BY <1>3, <1>7 DEF Records, ParseFlatForm
  <2>2. PICK rec : made = [ok |-> TRUE, recs |-> <<rec>>]
    BY <2>1
  <2>3. IsList(<<rec>>)
    <3>1. DOMAIN <<rec>> = 1..1 /\ <<rec>> = [i \in DOMAIN <<rec>> |-> <<rec>>[i]]
      OBVIOUS
    <3> QED BY <3>1, MadeList
  <2> HIDE DEF made
  <2> QED BY <2>2, <2>3
<1> QED BY <1>5, <1>6, <1>7

-----------------------------------------------------------------------------
(* The jobs, and what a run makes of them.                                   *)

\* The lines of the agents and of the lifecycles are lists of lines.
Documents(w) ==
  /\ IsList(w.agents)
  /\ \A i \in DOMAIN w.agents : FileWritten(w.agents[i])
  /\ IsList(w.lifecycles)
  /\ \A i \in DOMAIN w.lifecycles : IsList(w.lifecycles[i])

\* What LoadDir makes of written files is a table.
LEMMA JobsDeclare ==
  ASSUME NEW w, Documents(w)
  PROVE  GoodTable(LoadDir(w.agents, w.lifecycles).jobs)
<1> DEFINE defs == AgentDefs(w.agents).defs
           made == LifecycleJobs(defs, w.lifecycles)
           free == (DOMAIN defs) \ made.claimed
           rest == [n \in free |-> defs[n]]
           all  == made.jobs ++ rest
           valid == {n \in DOMAIN all : Valid(all[n])}
<1>1. GoodTable(defs)
  BY DefsDeclare DEF Documents
<1>2. GoodTable(made.jobs)
  <2>1. \A i \in DOMAIN w.lifecycles : Read(ParseLifecycle(w.lifecycles[i]))
    BY LifecycleRead DEF Documents
  <2> HIDE DEF defs
  <2> QED BY <1>1, <2>1, LifecyclesKeep DEF Documents
<1>3. LoadDir(w.agents, w.lifecycles).jobs = Pick(all, valid)
  BY DEF LoadDir, Jobs
<1> HIDE DEF made, defs
<1>4. GoodTable(rest)
  BY <1>1 DEF GoodTable
<1> HIDE DEF rest
<1>5. GoodTable(all)
  BY <1>2, <1>4 DEF GoodTable, ++
<1> HIDE DEF all
<1>6. GoodTable(Pick(all, valid))
  BY <1>5 DEF GoodTable, Pick
<1> QED BY <1>3, <1>6

\* The configuration adds nothing to what the turns declare.
LEMMA ResolvedDeclares ==
  ASSUME NEW cfg, NEW a, GoodAgent(a)
  PROVE  GoodAgent(ResolveAgent(cfg, a))
<1> DEFINE b == ResolveAgent(cfg, a)
<1>1. "scopes" \in DOMAIN b /\ b.scopes = a.scopes
  BY DEF ResolveAgent, GoodAgent
<1> HIDE DEF b
<1>2. GoodAgent(b)
  BY <1>1 DEF GoodAgent
<1> QED BY <1>2 DEF b

\* A turn that reaches every tool it requires reaches one of them.
LEMMA AcceptedStarts ==
  ASSUME NEW a, GoodAgent(a), ScopesAccepted(a)
  PROVE  Starts(a)
<1>1. ASSUME NEW i \in 1..Len(UserPrompts(a)) PROVE Satisfiable(a, i)
  <2> DEFINE x == TurnRequireFor(a, i)
             T == ToolsIn(RunScope(a, i))
  <2>1. SUFFICES ASSUME x # <<>> PROVE Range(x) \cap T # {}
    BY DEF Satisfiable
  <2>2. Len(a.scopes) \in Nat /\ DOMAIN a.scopes = 1..Len(a.scopes)
    BY ListDomain DEF GoodAgent
  <2>3. i \in 1..Len(a.scopes) /\ a.scopes[i]["require_tool"] # <<>>
        /\ x = a.scopes[i]["require_tool"][1]
    BY <2>1, <2>2 DEF TurnRequireFor
  <2>4. GoodDecl(a.scopes[i])
    BY <2>2, <2>3 DEF GoodAgent
  <2>5. IsList(x)
    BY <2>3, <2>4 DEF GoodDecl
  <2>6. Range(x) \subseteq T
    <3>1. ReachedIn(a, i) = T
      BY DEF ReachedIn, RunScope, BaseScope
    <3>2. Range(x) \subseteq ReachedIn(a, i)
      BY <2>3 DEF ScopesAccepted, RequiredReached, MaxTurnDecls
    <3> QED BY <3>1, <3>2
  <2> HIDE DEF x, T
  <2>7. x[1] \in Range(x)
    BY <2>1, <2>5 DEF IsList, Range
  <2> QED BY <2>6, <2>7
<1>2. CheckScopes(a)
  <2>1. \A s \in ScopesOf(a) : Resolves(s)
    BY DEF ScopesAccepted, ScopesResolve
  <2>2. Resolves(BaseScope(a))
    BY <2>1 DEF ScopesOf
  <2>3. ASSUME NEW i \in 1..MaxTurnDecls(a), Declared(a, i) PROVE Resolves(TurnScopeFor(a, i))
    <3>1. TurnScopeFor(a, i) \in ScopesOf(a)
      BY <2>3 DEF ScopesOf
    <3> QED BY <2>1, <3>1
  <2> QED BY <2>2, <2>3 DEF CheckScopes
<1> QED BY <1>1, <1>2 DEF Starts

-----------------------------------------------------------------------------
(* What is known when validate has accepted and when a run was prepared.     *)
AgentOf(n) == ResolveAgent(config.values, loaded.jobs[n])

InOrder ==
  /\ phase \in {"start", "configured", "agents", "tools", "serving", "exited"}
  /\ phase \in {"start", "configured", "agents"} => verdict = "none"
  /\ phase # "serving" => prepared = <<>>
JobsDeclared == phase \in {"agents", "tools", "serving"} => GoodTable(loaded.jobs)
AcceptedAll ==
  verdict = "ok" /\ HasToolDir =>
    registry.ok /\ \A n \in DOMAIN loaded.jobs : ScopesAccepted(AgentOf(n))
PreparedRuns ==
  \A n \in DOMAIN prepared : n \in DOMAIN loaded.jobs /\ (Starts(AgentOf(n)) => prepared[n].starts)
StartInv == InOrder /\ JobsDeclared /\ AcceptedAll /\ PreparedRuns

\* What was read stays as it is once the tools are read.
LEMMA ReadStays ==
  ASSUME UNCHANGED <<config, loaded, registry>>
  PROVE  /\ HasToolDir' = HasToolDir
         /\ \A n : ScopesAccepted(AgentOf(n))' = ScopesAccepted(AgentOf(n))
         /\ \A n : Starts(AgentOf(n))' = Starts(AgentOf(n))
<1>1. HasToolDir' = HasToolDir
  BY DEF HasToolDir
<1>2. Reg' = Reg
  BY DEF Reg
<1>3. ASSUME NEW n PROVE ScopesAccepted(AgentOf(n))' = ScopesAccepted(AgentOf(n))
  <2>1. AgentOf(n)' = AgentOf(n)
    BY DEF AgentOf
  <2> QED BY <1>2, <2>1 DEF ScopesAccepted, ScopesResolve, RequiredReached, ReachedIn, Resolves, ToolsIn
<1>4. ASSUME NEW n PROVE Starts(AgentOf(n))' = Starts(AgentOf(n))
  <2>1. AgentOf(n)' = AgentOf(n)
    BY DEF AgentOf
  <2> QED BY <1>2, <2>1 DEF Starts, CheckScopes, Satisfiable, Resolves, ToolsIn
<1> QED BY <1>1, <1>3, <1>4

\* Every step of the start keeps the invariant.
LEMMA StartInvHolds ==
  StartupSpec /\ Documents(input) => [](StartInv /\ Documents(input))
<1>1. ASSUME StartupInit PROVE StartInv
  <2>1. InOrder /\ JobsDeclared
    BY <1>1 DEF StartupInit, InOrder, JobsDeclared
  <2>2. AcceptedAll /\ PreparedRuns
    BY <1>1 DEF StartupInit, AcceptedAll, PreparedRuns
  <2> QED BY <2>1, <2>2 DEF StartInv
<1>2. ASSUME StartInv, Documents(input), [StartupNext]_startupVars PROVE StartInv' /\ Documents(input)'
  <2> USE DEF StartInv
  <2>1. Documents(input)'
    BY <1>2 DEF StartupNext, startupVars, ReadConfig, ReadAgents, ReadTools, Validate, Serve, Prepare
  <2>2. InOrder'
    BY <1>2 DEF InOrder, StartupNext, startupVars, ReadConfig, ReadAgents, ReadTools, Validate, Serve, Prepare
  <2>3. CASE ReadConfig
    <3>1. verdict' # "ok" /\ prepared' = <<>> /\ phase' \notin {"agents", "tools", "serving"}
      BY <1>2, <2>3 DEF ReadConfig, InOrder
    <3>2. JobsDeclared' /\ AcceptedAll' /\ PreparedRuns'
      BY <3>1 DEF JobsDeclared, AcceptedAll, PreparedRuns
    <3> QED BY <2>1, <2>2, <3>2
  <2>4. CASE ReadAgents
    <3>1. verdict' # "ok" /\ prepared' = <<>>
      BY <1>2, <2>4 DEF ReadAgents, InOrder
    <3>2. GoodTable(loaded.jobs)'
      BY <1>2, <2>4, JobsDeclare DEF ReadAgents
    <3>3. JobsDeclared' /\ AcceptedAll' /\ PreparedRuns'
      BY <3>1, <3>2 DEF JobsDeclared, AcceptedAll, PreparedRuns
    <3> QED BY <2>1, <2>2, <3>3
  <2>5. CASE ReadTools
    <3>1. verdict' # "ok" /\ prepared' = <<>>
      BY <1>2, <2>5 DEF ReadTools, InOrder
    <3>2. JobsDeclared'
      BY <1>2, <2>5 DEF ReadTools, JobsDeclared
    <3>3. AcceptedAll' /\ PreparedRuns'
      BY <3>1 DEF AcceptedAll, PreparedRuns
    <3> QED BY <2>1, <2>2, <3>2, <3>3
  <2>6. CASE Validate
    <3>1. UNCHANGED <<config, loaded, registry>> /\ prepared' = <<>>
      BY <1>2, <2>6 DEF Validate, InOrder
    <3>2. JobsDeclared' /\ PreparedRuns'
      BY <1>2, <2>6, <3>1 DEF Validate, JobsDeclared, PreparedRuns
    <3>3. verdict' = "ok" /\ HasToolDir =>
            registry.ok /\ \A n \in DOMAIN loaded.jobs : ScopesAccepted(AgentOf(n))
      BY <2>6 DEF Validate, AgentOf
    <3>4. AcceptedAll'
      BY <3>1, <3>3, ReadStays DEF AcceptedAll
    <3> QED BY <2>1, <2>2, <3>2, <3>4
  <2>7. CASE Serve
    <3>1. UNCHANGED <<config, loaded, registry, verdict>> /\ prepared' = <<>>
      BY <1>2, <2>7 DEF Serve, InOrder
    <3>2. JobsDeclared' /\ PreparedRuns'
      BY <1>2, <2>7, <3>1 DEF Serve, JobsDeclared, PreparedRuns
    <3>3. AcceptedAll'
      BY <1>2, <3>1, ReadStays DEF AcceptedAll
    <3> QED BY <2>1, <2>2, <3>2, <3>3
  <2>8. ASSUME NEW n \in DOMAIN At(loaded, "jobs", <<>>), Prepare(n) PROVE StartInv'
    <3> DEFINE run == [agent |-> AgentOf(n), starts |-> Starts(AgentOf(n)),
                       budget |-> TokenBudget(config.values, AgentOf(n))]
    <3>1. UNCHANGED <<config, loaded, registry, verdict, phase>> /\ n \in DOMAIN loaded.jobs
      BY <2>8 DEF Prepare
    <3>2. JobsDeclared'
      BY <1>2, <3>1 DEF JobsDeclared
    <3>3. AcceptedAll'
      BY <1>2, <3>1, ReadStays DEF AcceptedAll
    <3>4. prepared' = With(prepared, n, run)
      BY <2>8 DEF Prepare, AgentOf
    <3>5. Starts(AgentOf(n)) => run.starts
      OBVIOUS
    <3> HIDE DEF run
    <3>6. ASSUME NEW m \in DOMAIN prepared'
          PROVE  m \in DOMAIN loaded.jobs /\ (Starts(AgentOf(m)) => prepared'[m].starts)
      <4>0. prepared' = [x \in {n} \cup DOMAIN prepared |-> IF x = n THEN run ELSE prepared[x]]
        BY <3>4 DEF With
      <4>1. CASE m = n
        <5>1. prepared'[m] = run
          BY <4>0, <4>1
        <5> QED BY <3>1, <3>5, <4>1, <5>1
      <4>2. CASE m # n
        <5>1. m \in DOMAIN prepared /\ prepared'[m] = prepared[m]
          BY <3>6, <4>0, <4>2
        <5> QED BY <1>2, <5>1 DEF PreparedRuns
      <4> QED BY <4>1, <4>2
    <3>7. PreparedRuns'
      BY <3>1, <3>6, ReadStays DEF PreparedRuns
    <3> QED BY <2>2, <3>2, <3>3, <3>7
  <2>9. CASE UNCHANGED startupVars
    <3>1. UNCHANGED <<config, loaded, registry, verdict, phase, prepared>>
      BY <2>9 DEF startupVars
    <3>2. JobsDeclared' /\ AcceptedAll' /\ PreparedRuns'
      BY <1>2, <3>1, ReadStays DEF JobsDeclared, AcceptedAll, PreparedRuns
    <3> QED BY <2>1, <2>2, <3>2
  <2> QED BY <1>2, <2>1, <2>3, <2>4, <2>5, <2>6, <2>7, <2>8, <2>9 DEF StartupNext
<1> QED BY <1>1, <1>2, PTL DEF StartupSpec

\* A run that was prepared is one of a job that validate looked at.
LEMMA AcceptedRunsStart == StartInv => ValidateAgreesWithRun
<1> SUFFICES ASSUME StartInv, verdict = "ok", HasToolDir
             PROVE  registry.ok /\ \A n \in DOMAIN prepared : prepared[n].starts
  BY DEF ValidateAgreesWithRun
<1>1. registry.ok /\ \A n \in DOMAIN loaded.jobs : ScopesAccepted(AgentOf(n))
  BY DEF StartInv, AcceptedAll
<1>2. ASSUME NEW n \in DOMAIN prepared PROVE prepared[n].starts
  <2>1. n \in DOMAIN loaded.jobs /\ (Starts(AgentOf(n)) => prepared[n].starts)
    BY <1>2 DEF StartInv, PreparedRuns
  <2>2. phase = "serving"
    BY <1>2 DEF StartInv, InOrder
  <2>3. GoodAgent(loaded.jobs[n])
    BY <2>1, <2>2 DEF StartInv, JobsDeclared, GoodTable
  <2>4. GoodAgent(AgentOf(n))
    BY <2>3, ResolvedDeclares DEF AgentOf
  <2>5. Starts(AgentOf(n))
    <3> DEFINE a == AgentOf(n)
    <3>1. GoodAgent(a) /\ ScopesAccepted(a)
      BY <1>1, <2>1, <2>4
    <3> QED BY <3>1, AcceptedStarts
  <2> QED BY <2>1, <2>5
<1> QED BY <1>1, <1>2

(* What validate accepts, serve starts, for every configuration, every set of
   agents and lifecycles whose lines are lists, and every tool directory: no
   run of an accepted job is refused (cmd_validate.go:323).                  *)
THEOREM ValidatedStarts == StartupSpec /\ Documents(input) => []ValidateAgreesWithRun
BY StartInvHolds, AcceptedRunsStart, PTL

-----------------------------------------------------------------------------
(* The jobs.

   The hypothesis: the readers return what each part of an intent says.  The
   scalars of a job that are compared, ...                                   *)
JobKeys == {"schedule", "queue_input", "queue_max_attempts", "model", "temperature", "timeout",
            "max_tokens", "completion_reserve", "enabled", "prompt"}

\* ... with values of which none means "not set" to the code.
Meaningful(k, v) ==
  /\ k \in {"schedule", "queue_input", "model", "prompt"} => v # ""
  /\ k \in {"queue_max_attempts", "timeout", "max_tokens", "completion_reserve"} => Positive(v)
  /\ k = "temperature" => v \notin OutOfRange

Same(f, g, k) == (k \in DOMAIN f <=> k \in DOMAIN g) /\ (k \in DOMAIN g => f[k] = g[k])
ScalarsRead(vals, p) ==
  \A k \in JobKeys :
    /\ (k = "enabled" /\ Shadowed(<<p>>, k)) \/ Same(vals, p.set, k)
    /\ k \in DOMAIN vals => Meaningful(k, vals[k])

\* Each block is read as it is meant; a cache and hooks that are written say
\* something.
BlocksRead(lines, blocks) ==
  /\ CacheBlock(lines).ok /\ CacheBlock(lines).set = At(blocks, "cache", <<>>)
  /\ HooksBlock(lines) = At(blocks, "hooks", <<>>)
  /\ ParametersBlock(lines) = At(blocks, "parameters", <<>>)
  /\ RoutesOf([output |-> OutputRoutes(lines)]) = At(blocks, "output", <<>>)
  /\ \A b \in {"cache", "hooks", "parameters", "output"} :
       HasNestedBlock(lines, b) <=> b \in DOMAIN blocks
  /\ "cache" \in DOMAIN blocks => GivesCache(blocks["cache"])
  /\ "hooks" \in DOMAIN blocks => GivesHook(blocks["hooks"])

\* A part of a lifecycle, of the lines that doc was parsed from.
PartRead(doc, lines, p) ==
  /\ ~FieldsFail(doc) /\ ScalarsRead(doc.vals, p)
  /\ At(doc.lists, "skills", <<>>) = p.skills /\ IsList(p.skills)
  /\ At(doc.lists, "prompts", <<>>) = p.prompts
  /\ BlocksRead(lines, p.blocks)

\* The front matter, in which no key enabled means that it is.
FrontRead(file, agent) ==
  LET fm == ParseFrontMatter(file.front)
  IN  /\ file.closed /\ file.turns = <<>> /\ ~FrontMatterFails(fm)
      /\ "name" \in DOMAIN fm.vals /\ fm.vals["name"] = agent.name /\ agent.name # ""
      /\ DOMAIN agent.set \subseteq TextKeys \cup ParsedKeys
      /\ \A k \in TextKeys \cup ParsedKeys : k # "enabled" => Same(fm.vals, agent.set, k)
      /\ "enabled" \in DOMAIN fm.vals /\ fm.vals["enabled"] = At(agent.set, "enabled", "true")
      /\ \A k \in DOMAIN agent.set : Meaningful(k, agent.set[k])
      /\ "skills" \in DOMAIN fm.lists /\ fm.lists["skills"] = agent.skills

\* An instance has a name, and a schedule of its own or from the top level.
InstanceRead(doc, lines, inst, top) ==
  /\ PartRead(doc, lines, inst)
  /\ "name" \in DOMAIN doc.vals /\ doc.vals["name"] = inst.name /\ inst.name # ""
  /\ Disabled(doc) = inst.off
  /\ inst.off \/ "schedule" \in DOMAIN inst.set \cup DOMAIN top.set
On(w) == {i \in DOMAIN w.insts : ~w.insts[i].off /\ ~Contains(w.off, w.insts[i].name)}
ListRead(w, top, blocks) ==
  /\ At(top.lists, "disable", <<>>) = w.off
  /\ IsList(blocks) /\ DOMAIN w.insts = DOMAIN blocks
  /\ \A i \in DOMAIN blocks : InstanceRead(ParseBlock(blocks[i]), blocks[i], w.insts[i], w.top)
  /\ On(w) # {} /\ \A i, j \in On(w) : w.insts[i].name = w.insts[j].name => i = j

LifecycleWritten(w, lines) ==
  LET top == ParseBlock(ExtractTopLevel(lines))
  IN  /\ "agent" \in DOMAIN top.vals /\ top.vals["agent"] = w.agent.name
      /\ PartRead(top, ExtractTopLevel(lines), w.top)
      /\ IF w.form = "list" THEN IsListForm(lines) /\ ListRead(w, top, SplitInstances(lines))
         ELSE /\ ~IsListForm(lines) /\ ~Disabled(top)
              /\ "name" \notin DOMAIN top.vals /\ "schedule" \in DOMAIN w.top.set

\* One agent, and a lifecycle of one of the forms unless there is none.
IntentWritten(i) ==
  i.intent.form # "other" =>
    /\ i.intent.form \in {"none", "flat", "list"}
    /\ i.agents = <<i.agents[1]>> /\ FrontRead(i.agents[1], i.intent.agent)
    /\ IF i.intent.form = "none" THEN i.lifecycles = <<>>
       ELSE i.lifecycles = <<i.lifecycles[1]>> /\ LifecycleWritten(i.intent, i.lifecycles[1])

-----------------------------------------------------------------------------
\* What a lookup finds.
LEMMA AtKey ==
  ASSUME NEW f, NEW k, NEW zero
  PROVE  At(f, k, zero) = IF k \in DOMAIN f THEN f[k] ELSE zero
BY DEF At

\* f over g has a key of either, and for it what f has or else g.
LEMMA OverKeys ==
  ASSUME NEW f, NEW g, NEW k
  PROVE  /\ k \in DOMAIN (f ++ g) <=> k \in DOMAIN f \/ k \in DOMAIN g
         /\ k \in DOMAIN f => (f ++ g)[k] = f[k]
         /\ k \notin DOMAIN f /\ k \in DOMAIN g => (f ++ g)[k] = g[k]
BY DEF ++

\* What is picked of a function is what it has of the keys.
LEMMA PickKeys ==
  ASSUME NEW f, NEW keys, NEW k
  PROVE  /\ k \in DOMAIN Pick(f, keys) <=> k \in DOMAIN f /\ k \in keys
         /\ k \in DOMAIN f /\ k \in keys => Pick(f, keys)[k] = f[k]
BY DEF Pick

\* What two functions have of a key that they agree about is the same over
\* others that agree about it.
LEMMA SameOver ==
  ASSUME NEW f, NEW g, NEW u, NEW v, NEW k, Same(f, g, k), Same(u, v, k)
  PROVE  Same(f ++ u, g ++ v, k)
<1>1. /\ k \in DOMAIN (f ++ u) <=> k \in DOMAIN f \/ k \in DOMAIN u
      /\ k \in DOMAIN f => (f ++ u)[k] = f[k]
      /\ k \notin DOMAIN f /\ k \in DOMAIN u => (f ++ u)[k] = u[k]
  BY OverKeys
<1>2. /\ k \in DOMAIN (g ++ v) <=> k \in DOMAIN g \/ k \in DOMAIN v
      /\ k \in DOMAIN g => (g ++ v)[k] = g[k]
      /\ k \notin DOMAIN g /\ k \in DOMAIN v => (g ++ v)[k] = v[k]
  BY OverKeys
<1> QED BY <1>1, <1>2 DEF Same

\* What f and g, and g and h, have the same of a key, f and h do.
LEMMA SameChain ==
  ASSUME NEW f, NEW g, NEW h, NEW k, Same(f, g, k), Same(g, h, k)
  PROVE  Same(f, h, k)
BY DEF Same

\* applyLifecycleFields: what the document says goes over what the record has.
LEMMA FieldsApplied ==
  ASSUME NEW doc, NEW rec, "set" \in DOMAIN rec, NEW k \in JobKeys \cup {"name"},
         k \in DOMAIN doc.vals => Meaningful(k, doc.vals[k])
  PROVE  Same(ApplyFields(doc, rec).set, doc.vals ++ rec.set, k)
<1> DEFINE vals == doc.vals
           keys == FieldKeys(vals)
           made == ApplyFields(doc, rec)
<1>1. made.set = Pick(vals, keys) ++ rec.set
  BY DEF ApplyFields
<1>2. k \in DOMAIN vals => k \in keys
  <2>1. CASE k = "queue_max_attempts"
    <3>1. k \in QueueKeys
      BY <2>1 DEF QueueKeys
    <3>2. k \in DOMAIN vals => Positive(vals[k])
      BY <2>1, Zenon DEF Meaningful
    <3>3. k \in DOMAIN vals => Positive(At(vals, k, ""))
      BY <3>2, Zenon DEF At
    <3> QED BY <3>1, <3>3, Zenon DEF FieldKeys
  <2>2. CASE k # "queue_max_attempts"
    <3>1. k \in TextKeys \cup ParsedKeys \cup {"name", "prompt"}
      BY <2>2, SMT DEF JobKeys, TextKeys, ParsedKeys, NumberKeys
    <3> QED BY <3>1, Zenon DEF FieldKeys
  <2> QED BY <2>1, <2>2
<1> HIDE DEF keys, made
<1>3. Same(Pick(vals, keys), vals, k)
  BY <1>2, PickKeys DEF Same
<1>4. Same(rec.set, rec.set, k)
  BY DEF Same
<1>5. Same(Pick(vals, keys) ++ rec.set, vals ++ rec.set, k)
  BY <1>3, <1>4, SameOver
<1> QED BY <1>1, <1>5 DEF made

\* The nearest of at most three parts.
LEMMA NearestOfThree ==
  ASSUME NEW T \in SUBSET (1..3), T # {}
  PROVE  (CHOOSE i \in T : \A j \in T : i <= j)
           = IF 1 \in T THEN 1 ELSE IF 2 \in T THEN 2 ELSE 3
<1> DEFINE m == IF 1 \in T THEN 1 ELSE IF 2 \in T THEN 2 ELSE 3
<1>1. \A i \in T : i = 1 \/ i = 2 \/ i = 3
  OBVIOUS
<1>2. m \in T /\ \A j \in T : m <= j
  <2>1. CASE 1 \in T
    BY <1>1, <2>1
  <2>2. CASE 1 \notin T /\ 2 \in T
    BY <1>1, <2>2
  <2>3. CASE 1 \notin T /\ 2 \notin T
    <3>1. 3 \in T /\ \A j \in T : j = 3
      BY <1>1, <2>3
    <3> QED BY <2>3, <3>1
  <2> QED BY <2>1, <2>2, <2>3
<1>3. ASSUME NEW i \in T, \A j \in T : i <= j PROVE i = m
  <2>1. i <= m /\ m <= i /\ i \in 1..3 /\ m \in 1..3
    BY <1>2, <1>3
  <2> HIDE DEF m
  <2> QED BY <2>1
<1> HIDE DEF m
<1>4. (CHOOSE i \in T : \A j \in T : i <= j) = m
  <2> DEFINE c == CHOOSE i \in T : \A j \in T : i <= j
  <2>1. c \in T /\ \A j \in T : c <= j
    BY <1>2
  <2> HIDE DEF c
  <2>2. c = m
    BY <2>1, <1>3
  <2> QED BY <2>2 DEF c
<1> QED BY <1>4 DEF m

\* What parts mean is what the first has, over the second, over the third.
LEMMA MeantOfThree ==
  ASSUME NEW p, NEW q, NEW r, NEW k, NEW default
  PROVE  /\ MeantScalar(<<p, q, r>>, k, default) = At(p.set ++ (q.set ++ r.set), k, default)
         /\ MeantBlock(<<p, q, r>>, k) = At(p.blocks ++ (q.blocks ++ r.blocks), k, <<>>)
<1> DEFINE parts == <<p, q, r>>
           Set   == {i \in DOMAIN parts : k \in DOMAIN parts[i].set}
           Block == {i \in DOMAIN parts : k \in DOMAIN parts[i].blocks}
           First(T) == CHOOSE i \in T : \A j \in T : i <= j
<1>1. MeantScalar(parts, k, default) = IF Set = {} THEN default ELSE parts[First(Set)].set[k]
  BY DEF MeantScalar, Nearest
<1>2. MeantBlock(parts, k) = IF Block = {} THEN <<>> ELSE parts[First(Block)].blocks[k]
  BY DEF MeantBlock, Nearest
<1>3. DOMAIN parts = 1..3 /\ parts[1] = p /\ parts[2] = q /\ parts[3] = r
  OBVIOUS
<1> HIDE DEF parts
<1>4. /\ Set \in SUBSET (1..3) /\ Block \in SUBSET (1..3)
      /\ 1 \in Set <=> k \in DOMAIN p.set
      /\ 2 \in Set <=> k \in DOMAIN q.set
      /\ 3 \in Set <=> k \in DOMAIN r.set
      /\ 1 \in Block <=> k \in DOMAIN p.blocks
      /\ 2 \in Block <=> k \in DOMAIN q.blocks
      /\ 3 \in Block <=> k \in DOMAIN r.blocks
  BY <1>3
<1> HIDE DEF Set, Block
<1>5. Set # {} => First(Set) = IF 1 \in Set THEN 1 ELSE IF 2 \in Set THEN 2 ELSE 3
  BY <1>4, NearestOfThree
<1>6. Block # {} => First(Block) = IF 1 \in Block THEN 1 ELSE IF 2 \in Block THEN 2 ELSE 3
  BY <1>4, NearestOfThree
<1>7. /\ Set = {} <=> 1 \notin Set /\ 2 \notin Set /\ 3 \notin Set
      /\ Block = {} <=> 1 \notin Block /\ 2 \notin Block /\ 3 \notin Block
  BY <1>4
<1> HIDE DEF First
<1>8. MeantScalar(parts, k, default) = At(p.set ++ (q.set ++ r.set), k, default)
  BY <1>1, <1>3, <1>4, <1>5, <1>7, OverKeys DEF At
<1>9. MeantBlock(parts, k) = At(p.blocks ++ (q.blocks ++ r.blocks), k, <<>>)
  BY <1>2, <1>3, <1>4, <1>6, <1>7, OverKeys DEF At
<1> QED BY <1>8, <1>9 DEF parts

\* So of the top level and the front matter, ...
LEMMA MeantOfTwo ==
  ASSUME NEW q, NEW r, NEW k, NEW default
  PROVE  /\ MeantScalar(<<q, r>>, k, default) = At(q.set ++ r.set, k, default)
         /\ MeantBlock(<<q, r>>, k) = At(q.blocks ++ r.blocks, k, <<>>)
<1> DEFINE parts == <<q, r>>
           Set   == {i \in DOMAIN parts : k \in DOMAIN parts[i].set}
           Block == {i \in DOMAIN parts : k \in DOMAIN parts[i].blocks}
           First(T) == CHOOSE i \in T : \A j \in T : i <= j
<1>1. MeantScalar(parts, k, default) = IF Set = {} THEN default ELSE parts[First(Set)].set[k]
  BY DEF MeantScalar, Nearest
<1>2. MeantBlock(parts, k) = IF Block = {} THEN <<>> ELSE parts[First(Block)].blocks[k]
  BY DEF MeantBlock, Nearest
<1>3. DOMAIN parts = 1..2 /\ parts[1] = q /\ parts[2] = r
  OBVIOUS
<1> HIDE DEF parts
<1>4. /\ Set \in SUBSET (1..3) /\ Block \in SUBSET (1..3)
      /\ 1 \in Set <=> k \in DOMAIN q.set
      /\ 2 \in Set <=> k \in DOMAIN r.set
      /\ 1 \in Block <=> k \in DOMAIN q.blocks
      /\ 2 \in Block <=> k \in DOMAIN r.blocks
      /\ 3 \notin Set /\ 3 \notin Block
  BY <1>3
<1> HIDE DEF Set, Block
<1>5. Set # {} => First(Set) = IF 1 \in Set THEN 1 ELSE IF 2 \in Set THEN 2 ELSE 3
  BY <1>4, NearestOfThree
<1>6. Block # {} => First(Block) = IF 1 \in Block THEN 1 ELSE IF 2 \in Block THEN 2 ELSE 3
  BY <1>4, NearestOfThree
<1>7. /\ Set = {} <=> 1 \notin Set /\ 2 \notin Set
      /\ Block = {} <=> 1 \notin Block /\ 2 \notin Block
  BY <1>4
<1> HIDE DEF First
<1>8. MeantScalar(parts, k, default) = At(q.set ++ r.set, k, default)
  BY <1>1, <1>3, <1>4, <1>5, <1>7, OverKeys DEF At
<1>9. MeantBlock(parts, k) = At(q.blocks ++ r.blocks, k, <<>>)
  BY <1>2, <1>3, <1>4, <1>6, <1>7, OverKeys DEF At
<1> QED BY <1>8, <1>9 DEF parts

\* ... and of the front matter alone.
LEMMA MeantOfOne ==
  ASSUME NEW r, NEW k, NEW default
  PROVE  /\ MeantScalar(<<r>>, k, default) = At(r.set, k, default)
         /\ MeantBlock(<<r>>, k) = At(r.blocks, k, <<>>)
<1>1. ASSUME NEW T \in SUBSET {1}, T # {}
      PROVE  (CHOOSE i \in T : \A j \in T : i <= j) = 1
  <2>1. T = {1}
    BY <1>1
  <2> QED BY <2>1
<1> DEFINE Set   == {i \in DOMAIN <<r>> : k \in DOMAIN <<r>>[i].set}
           Block == {i \in DOMAIN <<r>> : k \in DOMAIN <<r>>[i].blocks}
<1>2. /\ Set \in SUBSET {1} /\ (Set # {} <=> k \in DOMAIN r.set)
      /\ Block \in SUBSET {1} /\ (Block # {} <=> k \in DOMAIN r.blocks)
  OBVIOUS
<1>3. MeantScalar(<<r>>, k, default)
        = IF Set = {} THEN default ELSE <<r>>[CHOOSE i \in Set : \A j \in Set : i <= j].set[k]
  BY DEF MeantScalar, Nearest
<1>4. MeantBlock(<<r>>, k)
        = IF Block = {} THEN <<>> ELSE <<r>>[CHOOSE i \in Block : \A j \in Block : i <= j].blocks[k]
  BY DEF MeantBlock, Nearest
<1> HIDE DEF Set, Block
<1>5. MeantScalar(<<r>>, k, default) = IF Set = {} THEN default ELSE <<r>>[1].set[k]
  BY <1>1, <1>2, <1>3
<1>6. MeantBlock(<<r>>, k) = IF Block = {} THEN <<>> ELSE <<r>>[1].blocks[k]
  BY <1>1, <1>2, <1>4
<1>7. MeantScalar(<<r>>, k, default) = At(r.set, k, default)
  BY <1>2, <1>5 DEF At
<1>8. MeantBlock(<<r>>, k) = At(r.blocks, k, <<>>)
  BY <1>2, <1>6 DEF At
<1> QED BY <1>7, <1>8

\* The prompts of the nearest part with any.
LEMMA MeantPromptsOf ==
  ASSUME NEW parts, NEW n \in 1..3, DOMAIN parts = 1..n
  PROVE  /\ parts[1].prompts # <<>> => MeantPrompts(parts) = parts[1].prompts
         /\ n > 1 /\ parts[1].prompts = <<>> /\ parts[2].prompts # <<>> =>
              MeantPrompts(parts) = parts[2].prompts
         /\ n > 2 /\ parts[1].prompts = <<>> /\ parts[2].prompts = <<>> /\ parts[3].prompts # <<>> =>
              MeantPrompts(parts) = parts[3].prompts
         /\ (\A i \in 1..n : parts[i].prompts = <<>>) => MeantPrompts(parts) = <<>>
<1> DEFINE T == {i \in DOMAIN parts : parts[i].prompts # <<>>}
           c == CHOOSE i \in T : \A j \in T : i <= j
<1>1. MeantPrompts(parts) = IF T = {} THEN <<>> ELSE parts[c].prompts
  BY DEF MeantPrompts
<1>2. /\ T \in SUBSET (1..3)
      /\ 1 \in T <=> parts[1].prompts # <<>>
      /\ n > 1 => (2 \in T <=> parts[2].prompts # <<>>)
      /\ n > 2 => (3 \in T <=> parts[3].prompts # <<>>)
      /\ (\A i \in 1..n : parts[i].prompts = <<>>) => T = {}
  OBVIOUS
<1> HIDE DEF T
<1>3. T # {} => c = IF 1 \in T THEN 1 ELSE IF 2 \in T THEN 2 ELSE 3
  BY <1>2, NearestOfThree
<1> HIDE DEF c
<1> QED BY <1>1, <1>2, <1>3

\* One list after another.
Joined(s, t) == s \o t

\* The skills of the top level and of the instance, or else those of the agent.
LEMMA ListsOfThree ==
  ASSUME NEW p, NEW q, NEW r
  PROVE  /\ MeantSkills(<<p, q, r>>) = OrElse(Joined(q.skills, p.skills), r.skills)
         /\ MeantPrompts(<<p, q, r>>) = OrElse(p.prompts, OrElse(q.prompts, r.prompts))
<1> DEFINE parts == <<p, q, r>>
<1>1. MeantSkills(parts) = OrElse(Joined(q.skills, p.skills), r.skills)
  BY DEF MeantSkills, OrElse, Joined
<1>2. DOMAIN parts = 1..3 /\ parts[1] = p /\ parts[2] = q /\ parts[3] = r
  OBVIOUS
<1> HIDE DEF parts
<1>3. MeantPrompts(parts) = OrElse(p.prompts, OrElse(q.prompts, r.prompts))
  BY <1>2, MeantPromptsOf DEF OrElse
<1> QED BY <1>1, <1>3 DEF parts

\* The lists of the flat form, ...
LEMMA ListsOfTwo ==
  ASSUME NEW q, NEW r
  PROVE  /\ MeantSkills(<<q, r>>) = OrElse(q.skills, r.skills)
         /\ MeantPrompts(<<q, r>>) = OrElse(q.prompts, r.prompts)
<1> DEFINE parts == <<q, r>>
<1>1. MeantSkills(parts) = OrElse(q.skills, r.skills)
  BY DEF MeantSkills, OrElse
<1>2. DOMAIN parts = 1..2 /\ parts[1] = q /\ parts[2] = r
  OBVIOUS
<1> HIDE DEF parts
<1>3. MeantPrompts(parts) = OrElse(q.prompts, r.prompts)
  BY <1>2, MeantPromptsOf DEF OrElse
<1> QED BY <1>1, <1>3 DEF parts

\* ... and of no lifecycle.
LEMMA ListsOfOne ==
  ASSUME NEW r
  PROVE  MeantSkills(<<r>>) = r.skills /\ MeantPrompts(<<r>>) = r.prompts
<1> DEFINE parts == <<r>>
<1>1. MeantSkills(parts) = r.skills
  BY DEF MeantSkills
<1>2. DOMAIN parts = 1..1 /\ parts[1] = r
  OBVIOUS
<1> HIDE DEF parts
<1>3. MeantPrompts(parts) = r.prompts
  BY <1>2, MeantPromptsOf
<1> QED BY <1>1, <1>3 DEF parts

-----------------------------------------------------------------------------
(* The records. *)

\* One part over another, as one part.
Over(p, q) == [set |-> p.set ++ q.set, skills |-> Joined(q.skills, p.skills),
               prompts |-> OrElse(p.prompts, q.prompts), blocks |-> p.blocks ++ q.blocks]

\* The keys that are compared: enabled only if no nested key hides it.
Compared(parts) == {k \in JobKeys : k = "enabled" => ~Shadowed(parts, k)}

\* The blocks of a record, or of an agent, are those of a part.
BlocksOf(a, blocks) ==
  /\ a.cache = At(blocks, "cache", <<>>)
  /\ a.hooks = At(blocks, "hooks", <<>>)
  /\ a.params = At(blocks, "parameters", <<>>)
  /\ RoutesOf(a) = At(blocks, "output", <<>>)
BlocksSay(blocks) ==
  /\ "cache" \in DOMAIN blocks => GivesCache(blocks["cache"])
  /\ "hooks" \in DOMAIN blocks => GivesHook(blocks["hooks"])

RecordFields == {"set", "lists", "prompts", "cache", "output", "hooks", "params"}
SetOf(set, f, keys) == \A k \in keys : Same(set, f, k) /\ (k \in DOMAIN set => Meaningful(k, set[k]))
RecordOf(rec, p, keys) ==
  /\ DOMAIN rec = RecordFields
  /\ SetOf(rec.set, p.set, keys)
  /\ rec.lists["skills"] = p.skills /\ IsList(p.skills)
  /\ rec.prompts = p.prompts
  /\ BlocksOf(rec, p.blocks) /\ BlocksSay(p.blocks)

\* What is read of a part, as far as it is compared.
LEMMA PartSays ==
  ASSUME NEW doc, NEW lines, NEW p, PartRead(doc, lines, p),
         NEW keys \in SUBSET JobKeys, "enabled" \in keys => ~Shadowed(<<p>>, "enabled")
  PROVE  SetOf(doc.vals, p.set, keys)
<1>1. ASSUME NEW k \in keys
      PROVE  Same(doc.vals, p.set, k) /\ (k \in DOMAIN doc.vals => Meaningful(k, doc.vals[k]))
  BY <1>1, Zenon DEF PartRead, ScalarsRead
<1> QED BY <1>1 DEF SetOf

\* Two sets of scalars, one over the other.
LEMMA SetOver ==
  ASSUME NEW u, NEW p, NEW v, NEW q, NEW w, NEW keys, SetOf(u, p, keys), SetOf(v, q, keys),
         \A k \in keys : Same(w, u ++ v, k)
  PROVE  SetOf(w, p ++ q, keys)
<1>1. ASSUME NEW k \in keys PROVE Same(w, p ++ q, k)
  <2>1. Same(u, p, k) /\ Same(v, q, k) /\ Same(w, u ++ v, k)
    BY DEF SetOf
  <2>2. Same(u ++ v, p ++ q, k)
    BY <2>1, SameOver
  <2> QED BY <2>1, <2>2, SameChain
<1>2. ASSUME NEW k \in keys, k \in DOMAIN w PROVE Meaningful(k, w[k])
  <2>1. /\ k \in DOMAIN (u ++ v) <=> k \in DOMAIN u \/ k \in DOMAIN v
        /\ k \in DOMAIN u => (u ++ v)[k] = u[k]
        /\ k \notin DOMAIN u /\ k \in DOMAIN v => (u ++ v)[k] = v[k]
    BY OverKeys
  <2>2. w[k] = (u ++ v)[k] /\ (k \in DOMAIN u \/ k \in DOMAIN v)
    BY <1>2, <2>1 DEF Same
  <2>3. k \in DOMAIN u => Meaningful(k, u[k])
    BY DEF SetOf
  <2>4. k \in DOMAIN v => Meaningful(k, v[k])
    BY DEF SetOf
  <2>5. (w[k] = u[k] /\ k \in DOMAIN u) \/ (w[k] = v[k] /\ k \in DOMAIN v)
    BY <2>1, <2>2
  <2> QED BY <2>3, <2>4, <2>5
<1> QED BY <1>1, <1>2 DEF SetOf

\* The fields of a document over those of a record.
LEMMA FieldsOver ==
  ASSUME NEW doc, NEW p, NEW keys \in SUBSET JobKeys, SetOf(doc.vals, p.set, keys),
         NEW rec, DOMAIN rec = RecordFields,
         At(doc.lists, "skills", <<>>) = p.skills, At(doc.lists, "prompts", <<>>) = p.prompts
  PROVE  /\ DOMAIN ApplyFields(doc, rec) = RecordFields
         /\ \A k \in keys : Same(ApplyFields(doc, rec).set, doc.vals ++ rec.set, k)
         /\ ApplyFields(doc, rec).lists["skills"] = Joined(rec.lists["skills"], p.skills)
         /\ ApplyFields(doc, rec).prompts = OrElse(p.prompts, rec.prompts)
         /\ ApplyFields(doc, rec).cache = rec.cache /\ ApplyFields(doc, rec).hooks = rec.hooks
         /\ ApplyFields(doc, rec).params = rec.params /\ ApplyFields(doc, rec).output = rec.output
<1> DEFINE made == ApplyFields(doc, rec)
           lists == [k \in AddedKeys |-> rec.lists[k] \o At(doc.lists, k, <<>>)]
<1>1. made = [rec EXCEPT !.set = Pick(doc.vals, FieldKeys(doc.vals)) ++ rec.set,
                         !.lists = lists,
                         !.prompts = OrElse(At(doc.lists, "prompts", <<>>), rec.prompts)]
  BY DEF ApplyFields
<1>2. lists["skills"] = Joined(rec.lists["skills"], p.skills)
  BY DEF AddedKeys, Joined
<1>3. \A k \in keys : Same(made.set, doc.vals ++ rec.set, k)
  <2> HIDE DEF made
  <2>1. ASSUME NEW k \in keys PROVE Same(made.set, doc.vals ++ rec.set, k)
    <3>1. k \in DOMAIN doc.vals => Meaningful(k, doc.vals[k])
      BY DEF SetOf
    <3> QED BY <3>1, FieldsApplied DEF made, RecordFields
  <2> QED BY <2>1
<1> HIDE DEF lists, made
<1> SUFFICES /\ DOMAIN made = RecordFields
             /\ made.lists["skills"] = Joined(rec.lists["skills"], p.skills)
             /\ made.prompts = OrElse(p.prompts, rec.prompts)
             /\ made.cache = rec.cache /\ made.hooks = rec.hooks
             /\ made.params = rec.params /\ made.output = rec.output
  BY <1>3 DEF made
<1> QED BY <1>1, <1>2 DEF RecordFields

\* A block of a part goes over that of the record; a part without one leaves it.
LEMMA BlocksOver ==
  ASSUME NEW lines, NEW b, NEW c, BlocksRead(lines, b),
         NEW rec, DOMAIN rec = RecordFields, BlocksOf(rec, c)
  PROVE  LET made == OverrideBlocks(lines, rec)
         IN  /\ DOMAIN made = RecordFields
             /\ made.set = rec.set /\ made.lists = rec.lists /\ made.prompts = rec.prompts
             /\ BlocksOf(made, b ++ c)
<1> DEFINE made == OverrideBlocks(lines, rec)
<1>1. /\ DOMAIN made = RecordFields
      /\ made.set = rec.set /\ made.lists = rec.lists /\ made.prompts = rec.prompts
      /\ made.cache  = IF HasNestedBlock(lines, "cache") /\ CacheBlock(lines).ok
                       THEN CacheBlock(lines).set ELSE rec.cache
      /\ made.hooks  = IF HasNestedBlock(lines, "hooks") THEN HooksBlock(lines) ELSE rec.hooks
      /\ made.output = IF HasNestedBlock(lines, "output") THEN OutputRoutes(lines) ELSE rec.output
      /\ made.params = IF HasNestedBlock(lines, "parameters") THEN ParametersBlock(lines)
                       ELSE rec.params
  BY DEF OverrideBlocks, RecordFields
<1> HIDE DEF made
<1>2. \A k : At(b ++ c, k, <<>>) = IF k \in DOMAIN b THEN b[k] ELSE At(c, k, <<>>)
  BY OverKeys DEF At
<1>3. made.cache = At(b ++ c, "cache", <<>>)
  BY <1>1, <1>2, AtKey DEF BlocksRead, BlocksOf
<1>4. made.hooks = At(b ++ c, "hooks", <<>>)
  BY <1>1, <1>2, AtKey DEF BlocksRead, BlocksOf
<1>5. made.params = At(b ++ c, "parameters", <<>>)
  BY <1>1, <1>2, AtKey DEF BlocksRead, BlocksOf
<1>6. RoutesOf(made) = At(b ++ c, "output", <<>>)
  <2>1. CASE "output" \in DOMAIN b
    <3>1. made.output = OutputRoutes(lines)
      BY <1>1, <2>1 DEF BlocksRead
    <3>2. RoutesOf(made) = RoutesOf([output |-> OutputRoutes(lines)])
      BY <3>1 DEF RoutesOf
    <3> QED BY <1>2, <2>1, <3>2, AtKey DEF BlocksRead
  <2>2. CASE "output" \notin DOMAIN b
    <3>1. made.output = rec.output
      BY <1>1, <2>2 DEF BlocksRead
    <3>2. RoutesOf(made) = RoutesOf(rec)
      BY <3>1 DEF RoutesOf
    <3> QED BY <1>2, <2>2, <3>2 DEF BlocksOf
  <2> QED BY <2>1, <2>2
<1>7. BlocksOf(made, b ++ c)
  BY <1>3, <1>4, <1>5, <1>6 DEF BlocksOf
<1> QED BY <1>1, <1>7 DEF made

\* A part alone: its blocks, and none of those it has not.
LEMMA BlocksAlone ==
  ASSUME NEW lines, NEW b, BlocksRead(lines, b), NEW rec, DOMAIN rec = RecordFields
  PROVE  LET made == ApplyBlocks(lines, rec)
         IN  /\ DOMAIN made = RecordFields
             /\ made.set = rec.set /\ made.lists = rec.lists /\ made.prompts = rec.prompts
             /\ BlocksOf(made, b)
<1> DEFINE made == ApplyBlocks(lines, rec)
<1>1. /\ DOMAIN made = RecordFields
      /\ made.set = rec.set /\ made.lists = rec.lists /\ made.prompts = rec.prompts
      /\ made.cache = CacheBlock(lines).set /\ made.hooks = HooksBlock(lines)
      /\ made.output = OutputRoutes(lines) /\ made.params = ParametersBlock(lines)
  BY DEF ApplyBlocks, RecordFields
<1> HIDE DEF made
<1>2. RoutesOf(made) = RoutesOf([output |-> OutputRoutes(lines)])
  BY <1>1 DEF RoutesOf
<1>3. BlocksOf(made, b)
  BY <1>1, <1>2 DEF BlocksOf, BlocksRead
<1> QED BY <1>1, <1>3 DEF made

\* Blocks over blocks that say something do so.
LEMMA SayOver ==
  ASSUME NEW b, NEW c, BlocksSay(b), BlocksSay(c)
  PROVE  BlocksSay(b ++ c)
<1>1. \A k : /\ k \in DOMAIN (b ++ c) <=> k \in DOMAIN b \/ k \in DOMAIN c
             /\ k \in DOMAIN b => (b ++ c)[k] = b[k]
             /\ k \notin DOMAIN b /\ k \in DOMAIN c => (b ++ c)[k] = c[k]
  BY OverKeys
<1> QED BY <1>1 DEF BlocksSay

\* The record of the only part is that part, ...
LEMMA RecordAlone ==
  ASSUME NEW doc, NEW lines, NEW p, PartRead(doc, lines, p),
         NEW keys \in SUBSET JobKeys, "enabled" \in keys => ~Shadowed(<<p>>, "enabled"),
         NEW set, \A k \in keys : k \notin DOMAIN set
  PROVE  RecordOf(ApplyBlocks(lines, ApplyFields(doc, [EmptyRecord EXCEPT !.set = set])), p, keys)
<1> DEFINE base == [EmptyRecord EXCEPT !.set = set]
           mid  == ApplyFields(doc, base)
           made == ApplyBlocks(lines, mid)
<1>1. /\ DOMAIN base = RecordFields /\ base.set = set /\ base.lists["skills"] = <<>>
      /\ base.prompts = <<>>
  BY DEF EmptyRecord, RecordFields, AddedKeys
<1> HIDE DEF base
<1>2. SetOf(doc.vals, p.set, keys)
  BY PartSays
<1>3. /\ DOMAIN mid = RecordFields
      /\ \A k \in keys : Same(mid.set, doc.vals ++ set, k)
      /\ mid.lists["skills"] = Joined(<<>>, p.skills)
      /\ mid.prompts = OrElse(p.prompts, <<>>)
  <2>1. At(doc.lists, "skills", <<>>) = p.skills /\ At(doc.lists, "prompts", <<>>) = p.prompts
    BY DEF PartRead
  <2>2. /\ DOMAIN mid = RecordFields
        /\ \A k \in keys : Same(mid.set, doc.vals ++ base.set, k)
        /\ mid.lists["skills"] = Joined(base.lists["skills"], p.skills)
        /\ mid.prompts = OrElse(p.prompts, base.prompts)
        /\ mid.cache = base.cache /\ mid.hooks = base.hooks
        /\ mid.params = base.params /\ mid.output = base.output
    BY <1>1, <1>2, <2>1, FieldsOver
  <2> HIDE DEF mid
  <2> QED BY <1>1, <2>2
<1> HIDE DEF mid
<1>4. /\ DOMAIN made = RecordFields
      /\ made.set = mid.set /\ made.lists = mid.lists /\ made.prompts = mid.prompts
      /\ BlocksOf(made, p.blocks)
  <2>1. BlocksRead(lines, p.blocks)
    BY DEF PartRead
  <2> QED BY <1>3, <2>1, BlocksAlone
<1>5. BlocksSay(p.blocks)
  BY DEF PartRead, BlocksRead, BlocksSay
<1>6. SetOf(mid.set, p.set, keys)
  <2>1. ASSUME NEW k \in keys
        PROVE  Same(mid.set, p.set, k) /\ (k \in DOMAIN mid.set => Meaningful(k, mid.set[k]))
    <3>1. Same(doc.vals, p.set, k) /\ (k \in DOMAIN doc.vals => Meaningful(k, doc.vals[k]))
      BY <1>2 DEF SetOf
    <3>2. /\ k \in DOMAIN (doc.vals ++ set) <=> k \in DOMAIN doc.vals
          /\ k \in DOMAIN doc.vals => (doc.vals ++ set)[k] = doc.vals[k]
      BY OverKeys
    <3>3. Same(mid.set, doc.vals, k)
      BY <1>3, <3>2 DEF Same
    <3> QED BY <3>1, <3>3 DEF Same
  <2> QED BY <2>1 DEF SetOf
<1>7. IsList(p.skills) /\ Joined(<<>>, p.skills) = p.skills
  BY DEF PartRead, IsList, Joined
<1>8. OrElse(p.prompts, <<>>) = p.prompts
  BY DEF OrElse
<1> HIDE DEF made
<1>9. RecordOf(made, p, keys)
  BY <1>3, <1>4, <1>5, <1>6, <1>7, <1>8 DEF RecordOf
<1> QED BY <1>9 DEF made, mid, base

\* ... and that of an instance is the instance over the top level.
LEMMA RecordOver ==
  ASSUME NEW doc, NEW lines, NEW p, PartRead(doc, lines, p),
         NEW keys \in SUBSET JobKeys, "enabled" \in keys => ~Shadowed(<<p>>, "enabled"),
         NEW base, NEW q, RecordOf(base, q, keys)
  PROVE  RecordOf(OverrideBlocks(lines, ApplyFields(doc, base)), Over(p, q), keys)
<1> DEFINE mid  == ApplyFields(doc, base)
           made == OverrideBlocks(lines, mid)
<1>1. /\ DOMAIN base = RecordFields /\ SetOf(base.set, q.set, keys)
      /\ base.lists["skills"] = q.skills /\ IsList(q.skills)
      /\ base.prompts = q.prompts /\ BlocksOf(base, q.blocks) /\ BlocksSay(q.blocks)
  BY DEF RecordOf
<1>2. SetOf(doc.vals, p.set, keys)
  BY PartSays
<1>3. /\ DOMAIN mid = RecordFields
      /\ \A k \in keys : Same(mid.set, doc.vals ++ base.set, k)
      /\ mid.lists["skills"] = Joined(q.skills, p.skills)
      /\ mid.prompts = OrElse(p.prompts, q.prompts)
      /\ mid.cache = base.cache /\ mid.hooks = base.hooks
      /\ mid.params = base.params /\ mid.output = base.output
  <2>1. At(doc.lists, "skills", <<>>) = p.skills /\ At(doc.lists, "prompts", <<>>) = p.prompts
    BY DEF PartRead
  <2>2. /\ DOMAIN mid = RecordFields
        /\ \A k \in keys : Same(mid.set, doc.vals ++ base.set, k)
        /\ mid.lists["skills"] = Joined(base.lists["skills"], p.skills)
        /\ mid.prompts = OrElse(p.prompts, base.prompts)
        /\ mid.cache = base.cache /\ mid.hooks = base.hooks
        /\ mid.params = base.params /\ mid.output = base.output
    BY <1>1, <1>2, <2>1, FieldsOver
  <2> HIDE DEF mid
  <2> QED BY <1>1, <2>2
<1> HIDE DEF mid
<1>4. /\ DOMAIN made = RecordFields
      /\ made.set = mid.set /\ made.lists = mid.lists /\ made.prompts = mid.prompts
      /\ BlocksOf(made, p.blocks ++ q.blocks)
  <2>1. BlocksRead(lines, p.blocks)
    BY DEF PartRead
  <2>2. BlocksOf(mid, q.blocks)
    <3>1. RoutesOf(mid) = RoutesOf(base)
      BY <1>3 DEF RoutesOf
    <3> QED BY <1>1, <1>3, <3>1 DEF BlocksOf
  <2> QED BY <1>3, <2>1, <2>2, BlocksOver
<1>5. BlocksSay(p.blocks ++ q.blocks)
  <2>1. BlocksSay(p.blocks)
    BY DEF PartRead, BlocksRead, BlocksSay
  <2> QED BY <1>1, <2>1, SayOver
<1>6. SetOf(mid.set, p.set ++ q.set, keys)
  BY <1>1, <1>2, <1>3, SetOver
<1>7. IsList(Joined(q.skills, p.skills))
  <2>1. IsList(p.skills)
    BY DEF PartRead
  <2> DEFINE T == Range(p.skills) \cup Range(q.skills)
             s == Joined(q.skills, p.skills)
  <2>2. p.skills \in Seq(T) /\ q.skills \in Seq(T)
    BY <1>1, <2>1 DEF IsList
  <2>3. s \in Seq(T)
    BY <2>2 DEF Joined
  <2> HIDE DEF s
  <2>4. DOMAIN s = 1..Len(s) /\ Len(s) \in Nat /\ s = [i \in DOMAIN s |-> s[i]]
    BY <2>3
  <2>5. IsList(s)
    BY <2>4, MadeList
  <2> QED BY <2>5 DEF s
<1> HIDE DEF made
<1>8. RecordOf(made, Over(p, q), keys)
  BY <1>3, <1>4, <1>5, <1>6, <1>7 DEF RecordOf, Over
<1> QED BY <1>8 DEF made, mid

-----------------------------------------------------------------------------
(* The job of a record and its agent. *)

\* A lookup of a text.
TextAt(f, k) == At(f, k, "")

AgentFields == {"name", "set", "lists", "prompts", "prompt", "scopes", "cache", "hooks", "params", "output"}

\* An agent has the scalars of f, and these blocks and lists.
AgentIs(a, f, blocks, skills, prompts, keys) ==
  /\ AgentFields \subseteq DOMAIN a
  /\ "skills" \in DOMAIN a.lists /\ a.lists["skills"] = skills
  /\ a.prompts = prompts
  /\ SetOf(a.set, f, keys \ {"prompt", "enabled"})
  /\ "enabled" \in keys => "enabled" \in DOMAIN a.set /\ a.set["enabled"] = At(f, "enabled", "true")
  /\ a.prompt = TextAt(f, "prompt")
  /\ BlocksOf(a, blocks)

\* What a lifecycle has over its agent, it overrides.
LEMMA OverridesMeant ==
  ASSUME NEW set, NEW k \in JobKeys \ {"prompt"}, k \in DOMAIN set, Meaningful(k, set[k])
  PROVE  k \in Overrides(set)
<1>1. CASE k \in {"enabled", "temperature"}
  BY <1>1, Zenon DEF Overrides
<1>2. CASE k \in {"schedule", "model", "queue_input"}
  <2>1. k \in TextKeys
    BY <1>2 DEF TextKeys
  <2>2. set[k] # ""
    BY <1>2, Zenon DEF Meaningful
  <2> QED BY <2>1, <2>2, Zenon DEF Overrides
<1>3. CASE k \in {"queue_max_attempts", "timeout", "max_tokens", "completion_reserve"}
  <2>1. k \in NumberKeys \cup QueueKeys
    BY <1>3 DEF NumberKeys, QueueKeys
  <2>2. Positive(set[k])
    BY <1>3, Zenon DEF Meaningful
  <2> QED BY <2>1, <2>2, Zenon DEF Overrides
<1>4. k \in {"enabled", "temperature"} \/ k \in {"schedule", "model", "queue_input"}
      \/ k \in {"queue_max_attempts", "timeout", "max_tokens", "completion_reserve"}
  BY SMT DEF JobKeys
<1> QED BY <1>1, <1>2, <1>3, <1>4

\* A prompt of the lifecycle, or none.
LEMMA PromptApplied ==
  ASSUME NEW set, NEW f, Same(set, f, "prompt"),
         "prompt" \in DOMAIN set => Meaningful("prompt", set["prompt"]),
         NEW g, "prompt" \notin DOMAIN g
  PROVE  OrText(TextAt(set, "prompt"), TextAt(g, "prompt")) = TextAt(f ++ g, "prompt")
<1>1. /\ "prompt" \in DOMAIN (f ++ g) <=> "prompt" \in DOMAIN f
      /\ "prompt" \in DOMAIN f => (f ++ g)["prompt"] = f["prompt"]
  BY OverKeys
<1>2. CASE "prompt" \in DOMAIN f
  <2>1. "prompt" \in DOMAIN set /\ set["prompt"] = f["prompt"]
    BY <1>2, Zenon DEF Same
  <2>2. f["prompt"] # ""
    BY <2>1, Zenon DEF Meaningful
  <2>3. TextAt(set, "prompt") = f["prompt"]
    BY <2>1, Zenon DEF TextAt, At
  <2>4. TextAt(f ++ g, "prompt") = f["prompt"]
    BY <1>1, <1>2, Zenon DEF TextAt, At
  <2> QED BY <2>2, <2>3, <2>4, Zenon DEF OrText
<1>3. CASE "prompt" \notin DOMAIN f
  <2>1. "prompt" \notin DOMAIN set /\ "prompt" \notin DOMAIN (f ++ g)
    BY <1>1, <1>3, Zenon DEF Same
  <2>2. TextAt(set, "prompt") = ""
    BY <2>1, Zenon DEF TextAt, At
  <2>3. TextAt(f ++ g, "prompt") = ""
    BY <2>1, Zenon DEF TextAt, At
  <2>4. TextAt(g, "prompt") = ""
    BY Zenon DEF TextAt, At
  <2> QED BY <2>2, <2>3, <2>4, Zenon DEF OrText
<1> QED BY <1>2, <1>3

\* applyLifecycle: the record over the agent.
LEMMA LifecycleApplied ==
  ASSUME NEW keys \in SUBSET JobKeys, "prompt" \in keys,
         NEW a, NEW r, AgentIs(a, r.set, <<>>, r.skills, <<>>, keys), a.output = <<>>,
         "prompt" \notin DOMAIN r.set,
         NEW rec, NEW m, RecordOf(rec, m, keys)
  PROVE  AgentIs(ApplyLifecycle(a, rec), m.set ++ r.set, m.blocks,
                 OrElse(m.skills, r.skills), m.prompts, keys)
<1> DEFINE job == ApplyLifecycle(a, rec)
           wins == Pick(rec.set, Overrides(rec.set))
           lists == [k \in AddedKeys |-> OrElse(rec.lists[k], a.lists[k])]
<1>1. /\ DOMAIN job = DOMAIN a
      /\ job.set = wins ++ a.set
      /\ job.lists = lists
      /\ job.prompt = OrText(PromptOf(rec), a.prompt)
      /\ job.prompts = OrElse(rec.prompts, a.prompts)
      /\ job.cache = IF GivesCache(rec.cache) THEN rec.cache ELSE a.cache
      /\ job.hooks = IF GivesHook(rec.hooks) THEN rec.hooks ELSE a.hooks
      /\ job.params = OrElse(rec.params, a.params)
      /\ job.output = OrElse(rec.output, a.output)
  <2>1. AgentFields \subseteq DOMAIN a
    BY DEF AgentIs
  <2> HIDE DEF wins, lists
  <2> QED BY <2>1 DEF ApplyLifecycle, AgentFields, wins, lists
<1>2. "skills" \in DOMAIN lists /\ lists["skills"] = OrElse(m.skills, r.skills)
  BY DEF AgentIs, RecordOf, AddedKeys
<1> HIDE DEF job, wins, lists
<1>3. AgentFields \subseteq DOMAIN job
  BY <1>1 DEF AgentIs
<1>4. ASSUME NEW k \in keys, k # "prompt" PROVE Same(wins, m.set, k)
  <2>1. Same(rec.set, m.set, k) /\ (k \in DOMAIN rec.set => Meaningful(k, rec.set[k]))
    BY DEF RecordOf, SetOf
  <2>2. k \in DOMAIN rec.set => k \in Overrides(rec.set)
    BY <1>4, <2>1, OverridesMeant
  <2>3. Same(wins, rec.set, k)
    BY <2>2, PickKeys DEF wins, Same
  <2> QED BY <2>1, <2>3, SameChain
<1>5. SetOf(job.set, m.set ++ r.set, keys \ {"prompt", "enabled"})
  <2> DEFINE some == keys \ {"prompt", "enabled"}
  <2>1. SetOf(wins, m.set, some)
    <3>1. ASSUME NEW k \in some
          PROVE  Same(wins, m.set, k) /\ (k \in DOMAIN wins => Meaningful(k, wins[k]))
      <4>1. Same(wins, m.set, k)
        BY <1>4
      <4>2. Same(rec.set, m.set, k) /\ (k \in DOMAIN rec.set => Meaningful(k, rec.set[k]))
        BY DEF RecordOf, SetOf
      <4> QED BY <4>1, <4>2 DEF Same
    <3> QED BY <3>1 DEF SetOf
  <2>2. SetOf(a.set, r.set, some)
    BY DEF AgentIs
  <2>3. \A k \in some : Same(job.set, wins ++ a.set, k)
    BY <1>1 DEF Same
  <2> HIDE DEF some
  <2>4. SetOf(job.set, m.set ++ r.set, some)
    BY <2>1, <2>2, <2>3, SetOver
  <2> QED BY <2>4 DEF some
<1>6. ASSUME "enabled" \in keys
      PROVE  "enabled" \in DOMAIN job.set /\ job.set["enabled"] = At(m.set ++ r.set, "enabled", "true")
  <2>1. Same(wins, m.set, "enabled")
    BY <1>4, <1>6
  <2>2. "enabled" \in DOMAIN a.set /\ a.set["enabled"] = At(r.set, "enabled", "true")
    BY <1>6 DEF AgentIs
  <2>3. \A f, g : /\ "enabled" \in DOMAIN (f ++ g) <=> "enabled" \in DOMAIN f \/ "enabled" \in DOMAIN g
                  /\ "enabled" \in DOMAIN f => (f ++ g)["enabled"] = f["enabled"]
                  /\ "enabled" \notin DOMAIN f /\ "enabled" \in DOMAIN g =>
                       (f ++ g)["enabled"] = g["enabled"]
    BY OverKeys
  <2>4. CASE "enabled" \in DOMAIN m.set
    <3>1. job.set["enabled"] = m.set["enabled"] /\ "enabled" \in DOMAIN job.set
      BY <1>1, <2>1, <2>3, <2>4 DEF Same
    <3> QED BY <2>3, <2>4, <3>1 DEF At
  <2>5. CASE "enabled" \notin DOMAIN m.set
    <3>1. job.set["enabled"] = a.set["enabled"] /\ "enabled" \in DOMAIN job.set
      BY <1>1, <2>1, <2>2, <2>3, <2>5 DEF Same
    <3>2. At(m.set ++ r.set, "enabled", "true") = At(r.set, "enabled", "true")
      BY <2>3, <2>5 DEF At
    <3> QED BY <2>2, <3>1, <3>2
  <2> QED BY <2>4, <2>5
<1>7. job.prompt = TextAt(m.set ++ r.set, "prompt")
  <2>1. Same(rec.set, m.set, "prompt")
        /\ ("prompt" \in DOMAIN rec.set => Meaningful("prompt", rec.set["prompt"]))
    BY DEF RecordOf, SetOf
  <2>2. PromptOf(rec) = TextAt(rec.set, "prompt")
    BY Zenon DEF PromptOf, TextAt
  <2>3. a.prompt = TextAt(r.set, "prompt")
    BY DEF AgentIs
  <2> QED BY <1>1, <2>1, <2>2, <2>3, PromptApplied
<1>8. job.prompts = m.prompts
  <2>1. rec.prompts = m.prompts /\ a.prompts = <<>>
    BY DEF RecordOf, AgentIs
  <2> QED BY <1>1, <2>1 DEF OrElse
<1>9. BlocksOf(job, m.blocks)
  <2>1. BlocksOf(rec, m.blocks) /\ BlocksSay(m.blocks)
    BY DEF RecordOf
  <2>2. a.cache = <<>> /\ a.hooks = <<>> /\ a.params = <<>>
    BY DEF AgentIs, BlocksOf, At
  <2>3. job.cache = At(m.blocks, "cache", <<>>)
    BY <1>1, <2>1, <2>2 DEF BlocksOf, BlocksSay, At
  <2>4. job.hooks = At(m.blocks, "hooks", <<>>)
    BY <1>1, <2>1, <2>2 DEF BlocksOf, BlocksSay, At
  <2>5. job.params = rec.params /\ job.output = rec.output
    BY <1>1, <2>2 DEF OrElse
  <2>6. RoutesOf(job) = RoutesOf(rec)
    BY <2>5 DEF RoutesOf
  <2> QED BY <2>1, <2>3, <2>4, <2>5, <2>6 DEF BlocksOf
<1>10. AgentIs(job, m.set ++ r.set, m.blocks, OrElse(m.skills, r.skills), m.prompts, keys)
  BY <1>1, <1>2, <1>3, <1>5, <1>6, <1>7, <1>8, <1>9 DEF AgentIs
<1> QED BY <1>10 DEF job

\* The front matter alone.
LEMMA FrontIs ==
  ASSUME NEW file, NEW agent, FrontRead(file, agent)
  PROVE  LET a == LoadFile(file)
         IN  /\ a.ok /\ a.name = agent.name /\ a.output = <<>>
             /\ AgentIs(a, agent.set, <<>>, agent.skills, <<>>, JobKeys)
             /\ "prompt" \notin DOMAIN agent.set
<1> DEFINE a     == LoadFile(file)
           fm    == ParseFrontMatter(file.front)
           turns == [i \in DOMAIN file.turns |-> ParseTurn(file.turns[i])]
           ok    == file.closed /\ ~FrontMatterFails(fm) /\ \A i \in DOMAIN turns : ~turns[i].bad
           set   == Pick(fm.vals, TextKeys \cup ParsedKeys \cup {"thinking"})
           prompts == [i \in DOMAIN turns |-> <<file.path, i>>]
           scopes == [i \in DOMAIN turns |-> turns[i].decl]
           clear == [i \in DOMAIN turns |-> Clears(turns[i])]
           name  == TextAt(fm.vals, "name")
           blank == TextAt(<<>>, "prompt")
<1>1. a = [ok |-> ok, name |-> name, set |-> set, lists |-> fm.lists, prompts |-> prompts,
           scopes |-> scopes, clear |-> clear, prompt |-> blank, params |-> <<>>,
           hooks |-> <<>>, cache |-> <<>>, output |-> <<>>]
  <2>1. blank = ""
    <3>1. "prompt" \notin DOMAIN <<>>
      OBVIOUS
    <3> QED BY <3>1, Zenon DEF TextAt, At
  <2> QED BY <2>1, Zenon DEF LoadFile, TextAt
<1>2. DOMAIN turns = {} /\ prompts = <<>> /\ ok
  <2>1. file.closed /\ file.turns = <<>> /\ ~FrontMatterFails(fm)
    BY Zenon DEF FrontRead
  <2> HIDE DEF fm
  <2> QED BY <2>1
<1>3. name = agent.name
  BY Zenon DEF FrontRead, TextAt, At
<1>4. "prompt" \notin DOMAIN agent.set /\ "queue_max_attempts" \notin DOMAIN agent.set
  <2>1. DOMAIN agent.set \subseteq TextKeys \cup ParsedKeys
    BY Zenon DEF FrontRead
  <2> QED BY <2>1 DEF TextKeys, ParsedKeys, NumberKeys
<1> HIDE DEF a, turns, ok, prompts, scopes, clear, name, blank
<1>5. blank = TextAt(agent.set, "prompt")
  <2>1. "prompt" \notin DOMAIN <<>>
    OBVIOUS
  <2> QED BY <1>4, <2>1, Zenon DEF TextAt, At, blank
<1>6. "skills" \in DOMAIN fm.lists /\ fm.lists["skills"] = agent.skills
  BY Zenon DEF FrontRead
<1>7. SetOf(set, agent.set, JobKeys \ {"prompt", "enabled"})
  <2>1. ASSUME NEW k \in JobKeys \ {"prompt", "enabled"}
        PROVE  Same(set, agent.set, k) /\ (k \in DOMAIN set => Meaningful(k, set[k]))
    <3>1. \A j \in DOMAIN agent.set : Meaningful(j, agent.set[j])
      BY Zenon DEF FrontRead
    <3>2. CASE k = "queue_max_attempts"
      <4>1. k \notin DOMAIN set
        BY <3>2, PickKeys DEF TextKeys, ParsedKeys, NumberKeys
      <4> QED BY <1>4, <3>2, <4>1 DEF Same
    <3>3. CASE k # "queue_max_attempts"
      <4>1. k \in TextKeys \cup ParsedKeys
        BY <3>3 DEF JobKeys, TextKeys, ParsedKeys, NumberKeys
      <4>2. Same(fm.vals, agent.set, k)
        BY <4>1, Zenon DEF FrontRead
      <4> HIDE DEF set
      <4>3. Same(set, fm.vals, k)
        BY <4>1, PickKeys DEF Same, set
      <4>4. Same(set, agent.set, k)
        BY <4>2, <4>3, SameChain
      <4> QED BY <3>1, <4>4 DEF Same
    <3> QED BY <3>2, <3>3
  <2> HIDE DEF set
  <2> QED BY <2>1 DEF SetOf
<1>8. "enabled" \in DOMAIN set /\ set["enabled"] = At(agent.set, "enabled", "true")
  <2>1. "enabled" \in DOMAIN fm.vals /\ fm.vals["enabled"] = At(agent.set, "enabled", "true")
    BY Zenon DEF FrontRead
  <2>2. "enabled" \in TextKeys \cup ParsedKeys \cup {"thinking"}
    BY DEF ParsedKeys
  <2> QED BY <2>1, <2>2, PickKeys
<1>9. BlocksOf(a, <<>>) /\ AgentFields \subseteq DOMAIN a
  <2>1. /\ a.cache = <<>> /\ a.hooks = <<>> /\ a.params = <<>> /\ a.output = <<>>
        /\ AgentFields \subseteq DOMAIN a
    BY <1>1 DEF AgentFields
  <2>2. RoutesOf(a) = <<>>
    BY <2>1 DEF RoutesOf
  <2> QED BY <2>1, <2>2 DEF BlocksOf, At
<1> HIDE DEF set, fm
<1>10. /\ a.ok /\ a.name = agent.name /\ a.output = <<>> /\ a.set = set /\ a.lists = fm.lists
       /\ a.prompts = <<>> /\ a.prompt = blank
  BY <1>1, <1>2, <1>3
<1>11. AgentIs(a, agent.set, <<>>, agent.skills, <<>>, JobKeys)
  BY <1>5, <1>6, <1>7, <1>8, <1>9, <1>10 DEF AgentIs
<1> QED BY <1>4, <1>10, <1>11 DEF a

-----------------------------------------------------------------------------
(* The run of a job. *)

\* A text or a number that is given counts, or else the setting.
LEMMA GivenOr ==
  ASSUME NEW set, NEW f, NEW k, Same(set, f, k),
         k \in DOMAIN set => Meaningful(k, set[k]), NEW default
  PROVE  /\ k \in {"schedule", "queue_input", "model", "prompt"} =>
              OrText(TextAt(set, k), default) = At(f, k, default)
         /\ k \in {"queue_max_attempts", "timeout", "max_tokens", "completion_reserve"} =>
              /\ OrPositive(TextAt(set, k), default) = At(f, k, default)
              /\ OrNonzero(TextAt(set, k), default) = At(f, k, default)
         /\ At(set, k, default) = At(f, k, default)
         /\ TextAt(set, k) = TextAt(f, k)
<1>1. At(set, k, default) = At(f, k, default) /\ TextAt(set, k) = TextAt(f, k)
  BY Zenon DEF Same, At, TextAt
<1>2. CASE k \in DOMAIN f
  <2>1. k \in DOMAIN set /\ set[k] = f[k]
    BY <1>2, Zenon DEF Same
  <2>2. TextAt(set, k) = f[k] /\ At(f, k, default) = f[k]
    BY <1>2, <2>1, Zenon DEF TextAt, At
  <2>3. k \in {"schedule", "queue_input", "model", "prompt"} => f[k] # ""
    BY <2>1, Zenon DEF Meaningful
  <2>4. k \in {"queue_max_attempts", "timeout", "max_tokens", "completion_reserve"} => Positive(f[k])
    BY <2>1, Zenon DEF Meaningful
  <2>5. Positive(f[k]) => f[k] \notin {"", "0"}
    BY Zenon DEF Positive
  <2> QED BY <1>1, <2>2, <2>3, <2>4, <2>5, Zenon DEF OrText, OrPositive, OrNonzero
<1>3. CASE k \notin DOMAIN f
  <2>1. k \notin DOMAIN set
    BY <1>3, Zenon DEF Same
  <2>2. TextAt(set, k) = "" /\ At(f, k, default) = default
    BY <1>3, <2>1, Zenon DEF TextAt, At
  <2>3. ~Positive("")
    BY Zenon DEF Positive
  <2> QED BY <1>1, <2>2, <2>3, Zenon DEF OrText, OrPositive, OrNonzero
<1> QED BY <1>2, <1>3

\* What resolveAgent leaves in the scalars.
LEMMA ResolvedScalars ==
  ASSUME NEW cfg, NEW set
  PROVE  LET made == Defaulted(cfg, set)
         IN  /\ made["model"] = OrText(TextAt(set, "model"), cfg["model"])
             /\ made["temperature"] = At(set, "temperature", cfg["temperature"])
             /\ made["timeout"] = OrNonzero(TextAt(set, "timeout"), cfg["llm_timeout"])
             /\ {"model", "temperature", "timeout"} \subseteq DOMAIN made
             /\ \A k : k \notin {"model", "temperature", "timeout"} => Same(made, set, k)
<1> DEFINE m == OrText(TextAt(set, "model"), cfg["model"])
           t == At(set, "temperature", cfg["temperature"])
           o == OrNonzero(TextAt(set, "timeout"), cfg["llm_timeout"])
           made == Defaulted(cfg, set)
<1>1. made = With(With(With(set, "model", m), "temperature", t), "timeout", o)
  BY Zenon DEF Defaulted, TextAt
<1> HIDE DEF m, t, o, made
<1>2. /\ made["model"] = m /\ made["temperature"] = t /\ made["timeout"] = o
      /\ {"model", "temperature", "timeout"} \subseteq DOMAIN made
  BY <1>1 DEF With
<1>3. ASSUME NEW k, k \notin {"model", "temperature", "timeout"} PROVE Same(made, set, k)
  <2>1. k \in DOMAIN made <=> k \in DOMAIN set
    BY <1>1, <1>3 DEF With
  <2>2. k \in DOMAIN set => made[k] = set[k]
    BY <1>1, <1>3 DEF With
  <2> QED BY <2>1, <2>2 DEF Same
<1> QED BY <1>2, <1>3 DEF m, t, o, made

\* A run has what its parts mean: resolveAgent and resolveTokenBudget.
LEMMA RunIsMeant ==
  ASSUME NEW keys \in SUBSET JobKeys, JobKeys \ {"enabled"} \subseteq keys,
         NEW a, NEW f, NEW blocks, NEW skills, NEW prompts,
         AgentIs(a, f, blocks, skills, prompts, keys),
         NEW parts, "enabled" \in keys \/ Shadowed(parts, "enabled"),
         \A k, d : MeantScalar(parts, k, d) = At(f, k, d),
         \A b : MeantBlock(parts, b) = At(blocks, b, <<>>),
         MeantSkills(parts) = skills, MeantPrompts(parts) = prompts,
         NEW cfg, NEW job, job.agent = ResolveAgent(cfg, a), job.budget = TokenBudget(cfg, job.agent)
  PROVE  JobIs(parts, job, cfg)
<1> DEFINE b   == job.agent
           set == Defaulted(cfg, a.set)
<1>1. /\ DOMAIN b = DOMAIN a /\ b.set = set /\ b.lists["skills"] = a.lists["skills"]
      /\ b.prompts = a.prompts /\ b.prompt = a.prompt /\ b.cache = a.cache
      /\ b.hooks = a.hooks /\ b.params = a.params /\ b.output = a.output
  <2>1. AgentFields \subseteq DOMAIN a /\ "skills" \in DOMAIN a.lists
    BY DEF AgentIs
  <2> HIDE DEF set
  <2> QED BY <2>1 DEF ResolveAgent, AgentFields, set
<1> HIDE DEF b
<1>2. /\ set["model"] = OrText(TextAt(a.set, "model"), cfg["model"])
      /\ set["temperature"] = At(a.set, "temperature", cfg["temperature"])
      /\ set["timeout"] = OrNonzero(TextAt(a.set, "timeout"), cfg["llm_timeout"])
      /\ {"model", "temperature", "timeout"} \subseteq DOMAIN set
      /\ \A k : k \notin {"model", "temperature", "timeout"} => Same(set, a.set, k)
  BY ResolvedScalars
<1> HIDE DEF set
<1>3. ASSUME NEW k \in JobKeys \ {"prompt", "enabled"}
      PROVE  Same(a.set, f, k) /\ (k \in DOMAIN a.set => Meaningful(k, a.set[k]))
  <2>1. k \in keys \ {"prompt", "enabled"}
    OBVIOUS
  <2> QED BY <2>1 DEF AgentIs, SetOf
<1>4. \A k, d : Says(parts, b.set, k, d) <=> TextAt(set, k) = At(f, k, d)
  BY <1>1, Zenon DEF Says, TextAt
<1>5. \A k \in DOMAIN set : TextAt(set, k) = set[k]
  BY Zenon DEF TextAt, At
<1>6. \A k, d : At(f, k, d) = MeantScalar(parts, k, d)
  OBVIOUS
<1>7. ASSUME NEW k \in {"schedule", "queue_input", "queue_max_attempts"}
      PROVE  TextAt(set, k) = TextAt(f, k)
  <2>1. k \in JobKeys \ {"prompt", "enabled"} /\ k \notin {"model", "temperature", "timeout"}
    BY DEF JobKeys
  <2>2. Same(set, a.set, k) /\ Same(a.set, f, k)
    BY <1>2, <1>3, <2>1
  <2>3. Same(set, f, k)
    BY <2>2, SameChain
  <2> QED BY <2>3, Zenon DEF Same, TextAt, At
<1>8. \A k \in {"schedule", "queue_input", "queue_max_attempts"} : Says(parts, b.set, k, "")
  BY <1>4, <1>7, Zenon DEF TextAt
<1>9. Says(parts, b.set, "model", cfg["model"]) /\ set["model"] = At(f, "model", cfg["model"])
  <2>1. "model" \in JobKeys \ {"prompt", "enabled"}
    BY DEF JobKeys
  <2>2. OrText(TextAt(a.set, "model"), cfg["model"]) = At(f, "model", cfg["model"])
    BY <1>3, <2>1, GivenOr
  <2> QED BY <1>2, <1>4, <1>5, <2>2
<1>10. Says(parts, b.set, "temperature", cfg["temperature"])
  <2>1. "temperature" \in JobKeys \ {"prompt", "enabled"}
    BY DEF JobKeys
  <2>2. At(a.set, "temperature", cfg["temperature"]) = At(f, "temperature", cfg["temperature"])
    BY <1>3, <2>1, GivenOr
  <2> QED BY <1>2, <1>4, <1>5, <2>2
<1>11. Says(parts, b.set, "timeout", cfg["llm_timeout"])
  <2>1. "timeout" \in JobKeys \ {"prompt", "enabled"}
    BY DEF JobKeys
  <2>2. OrNonzero(TextAt(a.set, "timeout"), cfg["llm_timeout"]) = At(f, "timeout", cfg["llm_timeout"])
    BY <1>3, <2>1, GivenOr
  <2> QED BY <1>2, <1>4, <1>5, <2>2
<1>12. Shadowed(parts, "enabled") \/ Says(parts, b.set, "enabled", "true")
  <2>1. CASE "enabled" \in keys
    <3>1. "enabled" \in DOMAIN a.set /\ a.set["enabled"] = At(f, "enabled", "true")
      BY <2>1 DEF AgentIs
    <3>2. "enabled" \in DOMAIN set /\ set["enabled"] = a.set["enabled"]
      BY <1>2, <3>1 DEF Same
    <3> QED BY <1>4, <1>5, <3>1, <3>2
  <2> QED BY <2>1
<1>13. ASSUME NEW k \in {"max_tokens", "completion_reserve"}, NEW d
       PROVE  OrPositive(TextAt(set, k), d) = At(f, k, d)
  <2>1. k \in JobKeys \ {"prompt", "enabled"} /\ k \notin {"model", "temperature", "timeout"}
    BY DEF JobKeys
  <2>2. Same(set, a.set, k) /\ Same(a.set, f, k) /\ (k \in DOMAIN a.set => Meaningful(k, a.set[k]))
    BY <1>2, <1>3, <2>1
  <2>3. Same(set, f, k) /\ (k \in DOMAIN set => Meaningful(k, set[k]))
    BY <2>2 DEF Same
  <2> QED BY <2>3, GivenOr
<1>14. /\ job.budget.max_tokens = OrPositive(TextAt(set, "max_tokens"), cfg["max_tokens"])
       /\ job.budget.completion_reserve =
            OrPositive(TextAt(set, "completion_reserve"),
                       At(Reserves, set["model"], cfg["completion_reserve"]))
  <2> DEFINE mt == OrPositive(TextAt(set, "max_tokens"), cfg["max_tokens"])
             cr == OrPositive(TextAt(set, "completion_reserve"),
                              At(Reserves, set["model"], cfg["completion_reserve"]))
  <2>1. job.budget = [max_tokens |-> mt, completion_reserve |-> cr,
                      reasoning_reserve |-> cfg["reasoning_reserve"]]
    BY <1>1, Zenon DEF TokenBudget, TextAt, b
  <2> HIDE DEF mt, cr
  <2>2. job.budget.max_tokens = mt /\ job.budget.completion_reserve = cr
    BY <2>1
  <2> QED BY <2>2 DEF mt, cr
<1>15. job.budget.max_tokens = MeantScalar(parts, "max_tokens", cfg["max_tokens"])
  BY <1>6, <1>13, <1>14
<1>16. job.budget.completion_reserve =
         MeantScalar(parts, "completion_reserve",
                     At(Reserves, MeantScalar(parts, "model", cfg["model"]), cfg["completion_reserve"]))
  BY <1>6, <1>9, <1>13, <1>14
<1>17. b.prompt = MeantScalar(parts, "prompt", "")
  <2>1. b.prompt = TextAt(f, "prompt")
    BY <1>1 DEF AgentIs
  <2> QED BY <1>6, <2>1, Zenon DEF TextAt
<1>18. b.lists["skills"] = MeantSkills(parts) /\ b.prompts = MeantPrompts(parts)
  BY <1>1 DEF AgentIs
<1>19. /\ b.cache = MeantBlock(parts, "cache") /\ b.hooks = MeantBlock(parts, "hooks")
       /\ b.params = MeantBlock(parts, "parameters") /\ RoutesOf(b) = MeantBlock(parts, "output")
  <2>1. RoutesOf(b) = RoutesOf(a)
    BY <1>1 DEF RoutesOf
  <2>2. BlocksOf(a, blocks)
    BY DEF AgentIs
  <2> QED BY <1>1, <2>1, <2>2 DEF BlocksOf
<1> QED BY <1>8, <1>9, <1>10, <1>11, <1>12, <1>15, <1>16, <1>17, <1>18, <1>19, Zenon DEF JobIs, b

-----------------------------------------------------------------------------
(* The instances that are on, and what the claims make of their records. *)

RankOf(T, i) == Cardinality({j \in T : j <= i})

\* The n-th number of a set is the one with n numbers of the set up to it.
LEMMA Ranked ==
  ASSUME NEW k \in Nat, NEW T \in SUBSET (1..k)
  PROVE  /\ Cardinality(T) \in Nat
         /\ \A i \in T : RankOf(T, i) \in 1..Cardinality(T)
         /\ \A i, j \in T : RankOf(T, i) = RankOf(T, j) => i = j
         /\ \A n \in 1..Cardinality(T) : \E i \in T : RankOf(T, i) = n
<1> DEFINE c == Cardinality(T)
           U(i) == {j \in T : j <= i}
<1>1. IsFiniteSet(T) /\ c \in Nat
  <2>1. IsFiniteSet(1..k)
    BY FS_Interval
  <2>2. IsFiniteSet(T)
    BY <2>1, FS_Subset
  <2> QED BY <2>2, FS_CardinalityType
<1>2. ASSUME NEW i \in T
      PROVE  IsFiniteSet(U(i)) /\ Cardinality(U(i)) \in 1..c
  <2>1. U(i) \in SUBSET T /\ i \in U(i)
    OBVIOUS
  <2> DEFINE S == U(i)
  <2> HIDE DEF S
  <2>2. IsFiniteSet(S) /\ Cardinality(S) <= c
    BY <1>1, <2>1, FS_Subset DEF S
  <2>3. Cardinality(S) \in Nat /\ Cardinality(S) # 0
    BY <2>1, <2>2, FS_CardinalityType, FS_EmptySet DEF S
  <2> HIDE DEF c
  <2>4. Cardinality(S) \in 1..c
    BY <1>1, <2>2, <2>3
  <2> QED BY <2>2, <2>4 DEF S
<1>3. ASSUME NEW i \in T, NEW j \in T, i < j PROVE Cardinality(U(i)) # Cardinality(U(j))
  <2>0. \A x \in T : x \in Int
    OBVIOUS
  <2>3. ASSUME NEW x \in T, x <= i PROVE x <= j
    <3>1. x \in Int /\ i \in Int /\ j \in Int
      BY <2>0
    <3> QED BY <1>3, <2>3, <3>1
  <2>4. j <= j /\ ~(j <= i)
    <3>1. i \in Int /\ j \in Int
      BY <2>0
    <3> QED BY <1>3, <3>1
  <2>1. U(i) \in SUBSET U(j) /\ j \in U(j) /\ j \notin U(i)
    BY <2>3, <2>4
  <2>2. IsFiniteSet(U(j))
    BY <1>2
  <2> HIDE DEF U
  <2> QED BY <2>1, <2>2, FS_Subset
<1>4. ASSUME NEW i \in T, NEW j \in T, RankOf(T, i) = RankOf(T, j) PROVE i = j
  <2>1. Cardinality(U(i)) = Cardinality(U(j))
    BY <1>4 DEF RankOf
  <2>2. ~(i < j) /\ ~(j < i)
    <3> HIDE DEF U
    <3> QED BY <1>3, <2>1
  <2> QED BY <2>2
<1> DEFINE r == [i \in T |-> RankOf(T, i)]
<1>5. r \in Injection(T, 1..c)
  <2>1. r \in [T -> 1..c]
    BY <1>2 DEF RankOf
  <2>2. \A i, j \in T : r[i] = r[j] => i = j
    BY <1>4
  <2> HIDE DEF r
  <2> QED BY <2>1, <2>2 DEF Injection, IsInjective
<1>6. IsFiniteSet(1..c) /\ Cardinality(1..c) = c
  <2> HIDE DEF c
  <2> QED BY <1>1, FS_Interval
<1>7. r \in Surjection(T, 1..c)
  <2> HIDE DEF r
  <2> QED BY <1>5, <1>6, FS_Injection
<1>8. ASSUME NEW n \in 1..c PROVE \E i \in T : RankOf(T, i) = n
  BY <1>7 DEF Surjection
<1> QED BY <1>1, <1>2, <1>4, <1>8 DEF RankOf

\* The job that a claim adds.
NameIn(rec) == rec.set["name"]
JobOf(defs, agent, rec) == [ApplyLifecycle(defs[agent], rec) EXCEPT !.name = NameIn(rec)]

\* A claim under a name that is free.
LEMMA ClaimAdds ==
  ASSUME NEW defs, NEW agent \in DOMAIN defs, NEW rec,
         NEW j, {"jobs", "claimed"} \subseteq DOMAIN j, NameIn(rec) \notin DOMAIN j.jobs
  PROVE  /\ {"jobs", "claimed"} \subseteq DOMAIN Claim(defs, agent, j, rec)
         /\ Claim(defs, agent, j, rec).jobs = With(j.jobs, NameIn(rec), JobOf(defs, agent, rec))
         /\ Claim(defs, agent, j, rec).claimed = j.claimed \cup {agent}
<1> DEFINE name == NameIn(rec)
           job == JobOf(defs, agent, rec)
           k == Claim(defs, agent, j, rec)
<1>1. k = [j EXCEPT !.claimed = j.claimed \cup {agent}, !.jobs = With(j.jobs, name, job)]
  BY DEF Claim, NameIn, JobOf
<1> HIDE DEF name, job, k
<1>2. /\ {"jobs", "claimed"} \subseteq DOMAIN k
      /\ k.jobs = With(j.jobs, name, job) /\ k.claimed = j.claimed \cup {agent}
  BY <1>1
<1> QED BY <1>2 DEF name, job, k

\* The jobs are those of the records of a file, one each.
Distinct(recs) == \A i, k \in DOMAIN recs : NameIn(recs[i]) = NameIn(recs[k]) => i = k
Claimed(j, defs, agent, recs) ==
  /\ DOMAIN j.jobs = {NameIn(recs[i]) : i \in DOMAIN recs}
  /\ \A i \in DOMAIN recs : j.jobs[NameIn(recs[i])] = JobOf(defs, agent, recs[i])
  /\ j.claimed = IF DOMAIN recs = {} THEN {} ELSE {agent}

\* Records with names of their own become one job each.
LEMMA ClaimsMake ==
  ASSUME NEW defs, NEW file, file.made.ok, IsList(file.made.recs), file.agent \in DOMAIN defs,
         Distinct(file.made.recs),
         NEW j, {"jobs", "claimed"} \subseteq DOMAIN j, DOMAIN j.jobs = {}, j.claimed = {}
  PROVE  Claimed(ClaimAll(defs, j, file), defs, file.agent, file.made.recs)
<1> DEFINE recs == file.made.recs
           agent == file.agent
           ctx == [defs |-> defs, agent |-> agent]
           n == Len(recs)
           f == FoldOf("claims", ctx, j, recs, n)
           Name(i) == NameIn(recs[i])
           Job(i) == JobOf(defs, agent, recs[i])
           Good(k, s) == /\ {"jobs", "claimed"} \subseteq DOMAIN k
                         /\ DOMAIN k.jobs = {Name(i) : i \in s}
                         /\ \A i \in s : k.jobs[Name(i)] = Job(i)
                         /\ k.claimed = IF s = {} THEN {} ELSE {agent}
           T == {s \in SUBSET (1..n) : Good(f[s], s)}
<1>1. n \in Nat /\ DOMAIN recs = 1..n
  BY ListDomain
<1>2. ClaimAll(defs, j, file) = f[1..n]
  <2>1. ClaimAll(defs, j, file) =
          (CHOOSE g : g = [s \in SUBSET DOMAIN recs |->
             IF s = {} THEN j ELSE Claim(defs, agent, g[s \ {Max(s)}], recs[Max(s)])])[DOMAIN recs]
    BY DEF ClaimAll, FoldLeft, MapThenFoldSet
  <2> QED BY <1>1, <2>1 DEF FoldOf, Folds, Folded
<1>3. Stepwise(f, "claims", ctx, j, recs, n)
  BY <1>1, FoldSteps
<1> HIDE DEF f
<1>4. {} \in T
  BY <1>3 DEF Stepwise
<1>5. ASSUME NEW s \in SUBSET (1..n), s # {}, s \ {Max(s)} \in T PROVE s \in T
  <2> DEFINE m == Max(s)
             t == s \ {m}
             k == f[t]
  <2>1. f[s] = Claim(defs, agent, k, recs[m]) /\ t \in SUBSET (1..n) /\ m \in 1..n
    BY <1>3, <1>5 DEF Folded, Stepwise
  <2>2. m \in s /\ s = t \cup {m} /\ m \notin t
    <3>1. Max(s) \in s
      <4> HIDE DEF n, T
      <4> QED BY <1>1, <1>5, TopOut
    <3> QED BY <3>1
  <2>3. Good(k, t)
    BY <1>5
  <2> HIDE DEF m, t, k
  <2>4. \A i \in t : Name(i) # Name(m)
    BY <1>1, <2>1, <2>2 DEF Distinct
  <2>5. Name(m) \notin DOMAIN k.jobs
    BY <2>3, <2>4
  <2>6. /\ {"jobs", "claimed"} \subseteq DOMAIN f[s]
        /\ f[s].jobs = With(k.jobs, Name(m), Job(m))
        /\ f[s].claimed = k.claimed \cup {agent}
    BY <2>1, <2>3, <2>5, ClaimAdds
  <2> HIDE DEF Name, Job
  <2> DEFINE w == With(k.jobs, Name(m), Job(m))
  <2>10. /\ DOMAIN w = {Name(m)} \cup DOMAIN k.jobs /\ w[Name(m)] = Job(m)
        /\ \A x \in DOMAIN k.jobs : x # Name(m) => w[x] = k.jobs[x]
    BY DEF With
  <2> HIDE DEF w
  <2>7. DOMAIN f[s].jobs = {Name(i) : i \in s}
    BY <2>2, <2>3, <2>6, <2>10 DEF w
  <2>8. ASSUME NEW i \in s PROVE f[s].jobs[Name(i)] = Job(i)
    <3>1. CASE i = m
      BY <2>6, <2>10, <3>1 DEF w
    <3>2. CASE i # m
      <4>1. i \in t /\ Name(i) # Name(m) /\ Name(i) \in DOMAIN k.jobs /\ k.jobs[Name(i)] = Job(i)
        BY <2>2, <2>3, <2>4, <3>2
      <4>2. w[Name(i)] = k.jobs[Name(i)]
        BY <2>10, <4>1
      <4> QED BY <2>6, <4>1, <4>2 DEF w
    <3> QED BY <3>1, <3>2
  <2>9. f[s].claimed = {agent}
    BY <2>3, <2>6
  <2> QED BY <1>5, <2>6, <2>7, <2>8, <2>9
<1>6. 1..n \in T
  <2> HIDE DEF T, n
  <2> QED BY <1>1, <1>4, <1>5, ByLargest
<1>7. Good(f[1..n], 1..n)
  BY <1>6
<1>8. Good(f[1..n], 1..n) => Claimed(f[1..n], defs, agent, recs)
  <2> DEFINE k == f[1..n]
  <2> HIDE DEF k
  <2>1. Good(k, 1..n) => Claimed(k, defs, agent, recs)
    BY <1>1 DEF Claimed
  <2> QED BY <2>1 DEF k
<1> QED BY <1>2, <1>7, <1>8

-----------------------------------------------------------------------------
(* The records of the list form. *)
Named(inst)     == NameOf(inst) # ""
Scheduled(rec)  == TextAt(rec.set, "schedule") # ""
OnOf(disabled, insts) ==
  {i \in DOMAIN insts : ~Disabled(insts[i].doc) /\ ~Contains(disabled, NameOf(insts[i]))}

\* Instances without an error and with names of their own: one record for each
\* that is on.
LEMMA InstancesMake ==
  ASSUME NEW disabled, NEW insts, NEW k \in Nat, DOMAIN insts = 1..k,
         \A i \in DOMAIN insts : ~FieldsFail(insts[i].doc) /\ Named(insts[i]),
         \A i \in OnOf(disabled, insts) : Scheduled(insts[i].rec),
         \A i, j \in OnOf(disabled, insts) : NameIn(insts[i].rec) = NameIn(insts[j].rec) => i = j,
         NEW made, made = InstanceRecords(disabled, insts)
  PROVE  /\ made.ok /\ IsList(made.recs)
         /\ \A n \in DOMAIN made.recs : \E i \in OnOf(disabled, insts) : made.recs[n] = insts[i].rec
         /\ \A i \in OnOf(disabled, insts) : \E n \in DOMAIN made.recs : made.recs[n] = insts[i].rec
         /\ \A m, n \in DOMAIN made.recs : NameIn(made.recs[m]) = NameIn(made.recs[n]) => m = n
<1> DEFINE kept == OnOf(disabled, insts)
           c == Cardinality(kept)
           Of(n) == CHOOSE i \in kept : RankOf(kept, i) = n
           recs == [n \in 1..c |-> insts[Of(n)].rec]
<1>1. made = [ok |-> TRUE, recs |-> recs]
  BY Zenon DEF InstanceRecords, OnOf, Named, Scheduled, TextAt, RankOf
<1>2. kept \in SUBSET (1..k)
  BY DEF OnOf
<1> HIDE DEF kept
<1>3. /\ c \in Nat /\ \A i \in kept : RankOf(kept, i) \in 1..c
      /\ \A i, j \in kept : RankOf(kept, i) = RankOf(kept, j) => i = j
      /\ \A n \in 1..c : \E i \in kept : RankOf(kept, i) = n
  BY <1>2, Ranked
<1>4. ASSUME NEW n \in 1..c PROVE Of(n) \in kept /\ RankOf(kept, Of(n)) = n
  BY <1>3, <1>4
<1>5. ASSUME NEW i \in kept PROVE Of(RankOf(kept, i)) = i
  <2> DEFINE n == RankOf(kept, i)
  <2>1. n \in 1..c
    BY <1>3
  <2>2. Of(n) \in kept /\ RankOf(kept, Of(n)) = n
    BY <1>4, <2>1
  <2> HIDE DEF Of
  <2> QED BY <1>3, <2>2
<1> HIDE DEF Of, c
<1>6. DOMAIN recs = 1..c /\ \A n \in 1..c : recs[n] = insts[Of(n)].rec
  OBVIOUS
<1>7. IsList(recs)
  <2>1. recs = [n \in DOMAIN recs |-> recs[n]]
    OBVIOUS
  <2> HIDE DEF recs
  <2> QED BY <1>3, <1>6, <2>1, MadeList
<1> HIDE DEF recs
<1>8. \A n \in DOMAIN recs : \E i \in kept : recs[n] = insts[i].rec
  BY <1>4, <1>6
<1>9. ASSUME NEW i \in kept PROVE \E n \in DOMAIN recs : recs[n] = insts[i].rec
  <2>1. RankOf(kept, i) \in 1..c
    BY <1>3
  <2> QED BY <1>5, <1>6, <2>1
<1>10. ASSUME NEW m \in DOMAIN recs, NEW n \in DOMAIN recs, NameIn(recs[m]) = NameIn(recs[n])
       PROVE  m = n
  <2>1. m \in 1..c /\ n \in 1..c /\ recs[m] = insts[Of(m)].rec /\ recs[n] = insts[Of(n)].rec
    BY <1>6
  <2>2. Of(m) \in kept /\ Of(n) \in kept /\ RankOf(kept, Of(m)) = m /\ RankOf(kept, Of(n)) = n
    BY <1>4, <2>1
  <2>3. Of(m) = Of(n)
    BY <1>10, <2>1, <2>2 DEF kept
  <2> QED BY <2>2, <2>3
<1>11. made.ok /\ made.recs = recs
  BY <1>1
<1> QED BY <1>7, <1>8, <1>9, <1>10, <1>11 DEF kept

\* A document that has a name gives it to its record.
LEMMA NameApplied ==
  ASSUME NEW doc, NEW rec, "set" \in DOMAIN rec, "name" \in DOMAIN doc.vals
  PROVE  LET made == ApplyFields(doc, rec)
         IN  "name" \in DOMAIN made.set /\ made.set["name"] = doc.vals["name"]
<1> DEFINE made == ApplyFields(doc, rec)
<1>1. Meaningful("name", doc.vals["name"])
  <2>1. /\ "name" \notin {"schedule", "queue_input", "model", "prompt"}
        /\ "name" \notin {"queue_max_attempts", "timeout", "max_tokens", "completion_reserve"}
        /\ "name" # "temperature"
    OBVIOUS
  <2> QED BY <2>1, Zenon DEF Meaningful
<1>2. Same(made.set, doc.vals ++ rec.set, "name")
  BY <1>1, FieldsApplied
<1> HIDE DEF made
<1>3. "name" \in DOMAIN (doc.vals ++ rec.set) /\ (doc.vals ++ rec.set)["name"] = doc.vals["name"]
  BY OverKeys
<1>4. "name" \in DOMAIN made.set /\ made.set["name"] = doc.vals["name"]
  BY <1>2, <1>3 DEF Same
<1> QED BY <1>4 DEF made

\* The top level as the default of the instances.
LEMMA DefaultsAre ==
  ASSUME NEW doc, NEW lines, NEW p, PartRead(doc, lines, p),
         NEW keys \in SUBSET JobKeys, "enabled" \in keys => ~Shadowed(<<p>>, "enabled")
  PROVE  RecordOf(Defaults(doc, lines), p, keys)
<1> DEFINE none == [EmptyRecord EXCEPT !.set = <<>>]
           rec  == ApplyBlocks(lines, ApplyFields(doc, none))
           made == Defaults(doc, lines)
<1>1. none = EmptyRecord
  BY DEF EmptyRecord
<1>2. RecordOf(rec, p, keys)
  <2>1. \A k \in keys : k \notin DOMAIN <<>>
    OBVIOUS
  <2> QED BY <2>1, RecordAlone
<1>3. made = [rec EXCEPT !.set = Pick(rec.set, (DOMAIN rec.set) \ {"name"})]
  BY <1>1 DEF Defaults
<1> HIDE DEF rec, made
<1>4. DOMAIN rec = RecordFields
  BY <1>2 DEF RecordOf
<1>5. /\ DOMAIN made = RecordFields /\ made.set = Pick(rec.set, (DOMAIN rec.set) \ {"name"})
      /\ made.lists = rec.lists /\ made.prompts = rec.prompts /\ made.cache = rec.cache
      /\ made.hooks = rec.hooks /\ made.params = rec.params /\ made.output = rec.output
  BY <1>3, <1>4 DEF RecordFields
<1>6. ASSUME NEW k \in keys
      PROVE  Same(made.set, p.set, k) /\ (k \in DOMAIN made.set => Meaningful(k, made.set[k]))
  <2>1. k # "name"
    BY DEF JobKeys
  <2>2. Same(rec.set, p.set, k) /\ (k \in DOMAIN rec.set => Meaningful(k, rec.set[k]))
    BY <1>2 DEF RecordOf, SetOf
  <2>3. Same(made.set, rec.set, k)
    BY <1>5, <2>1, PickKeys DEF Same
  <2> QED BY <2>2, <2>3 DEF Same
<1>7. BlocksOf(made, p.blocks)
  <2>1. RoutesOf(made) = RoutesOf(rec)
    BY <1>5 DEF RoutesOf
  <2>2. BlocksOf(rec, p.blocks)
    BY <1>2 DEF RecordOf
  <2> QED BY <1>5, <2>1, <2>2 DEF BlocksOf
<1>8. SetOf(made.set, p.set, keys)
  BY <1>6 DEF SetOf
<1>9. RecordOf(made, p, keys)
  BY <1>2, <1>5, <1>7, <1>8 DEF RecordOf
<1> QED BY <1>9 DEF made

-----------------------------------------------------------------------------
(* The jobs of a directory. *)

\* A job has what its parts mean.
JobMeant(a, parts) ==
  \E f, blocks :
    /\ AgentIs(a, f, blocks, MeantSkills(parts), MeantPrompts(parts), Compared(parts))
    /\ \A k, d : MeantScalar(parts, k, d) = At(f, k, d)
    /\ \A b : MeantBlock(parts, b) = At(blocks, b, <<>>)

\* Its run, too.
LEMMA JobRuns ==
  ASSUME NEW a, NEW parts, JobMeant(a, parts), NEW cfg, NEW job,
         job.agent = ResolveAgent(cfg, a), job.budget = TokenBudget(cfg, job.agent)
  PROVE  JobIs(parts, job, cfg)
<1>1. PICK f, blocks :
        /\ AgentIs(a, f, blocks, MeantSkills(parts), MeantPrompts(parts), Compared(parts))
        /\ \A k, d : MeantScalar(parts, k, d) = At(f, k, d)
        /\ \A b : MeantBlock(parts, b) = At(blocks, b, <<>>)
  BY DEF JobMeant
<1>2. /\ Compared(parts) \in SUBSET JobKeys /\ JobKeys \ {"enabled"} \subseteq Compared(parts)
      /\ "enabled" \in Compared(parts) \/ Shadowed(parts, "enabled")
  BY DEF Compared, JobKeys
<1> QED BY <1>1, <1>2, RunIsMeant

\* To go over is associative, ...
LEMMA OverOver ==
  ASSUME NEW f, NEW g, NEW h
  PROVE  (f ++ g) ++ h = f ++ (g ++ h)
BY DEF ++

\* ... and over nothing changes nothing.
LEMMA OverNone ==
  ASSUME NEW f, NEW k, NEW z
  PROVE  At(f ++ <<>>, k, z) = At(f, k, z)
<1>1. k \notin DOMAIN <<>>
  OBVIOUS
<1> QED BY <1>1, OverKeys DEF At

\* A nested key that hides a field in one of the parts hides it in all.
LEMMA PartShadows ==
  ASSUME NEW p, NEW q, NEW r, NEW k
  PROVE  /\ Shadowed(<<p>>, k) => Shadowed(<<p, q, r>>, k)
         /\ Shadowed(<<q>>, k) => Shadowed(<<p, q, r>>, k)
         /\ Shadowed(<<q>>, k) => Shadowed(<<q, r>>, k)
BY DEF Shadowed

\* The front matter as a part: scalars and skills.
IsFront(r) == r.prompts = <<>> /\ r.blocks = <<>> /\ "prompt" \notin DOMAIN r.set

\* A record over its agent is a job, and a valid one.
LEMMA JobOfRecord ==
  ASSUME NEW parts, NEW r, IsFront(r),
         NEW defs, NEW agent, AgentIs(defs[agent], r.set, <<>>, r.skills, <<>>, JobKeys),
         defs[agent].output = <<>>,
         NEW rec, NEW m, RecordOf(rec, m, Compared(parts)),
         \A k, d : MeantScalar(parts, k, d) = At(m.set ++ r.set, k, d),
         \A b : MeantBlock(parts, b) = At(m.blocks ++ r.blocks, b, <<>>),
         MeantSkills(parts) = OrElse(m.skills, r.skills), MeantPrompts(parts) = m.prompts
  PROVE  /\ JobMeant(JobOf(defs, agent, rec), parts)
         /\ JobOf(defs, agent, rec).name = NameIn(rec)
<1> DEFINE a == defs[agent]
           b == ApplyLifecycle(a, rec)
           job == JobOf(defs, agent, rec)
           keys == Compared(parts)
<1>1. keys \in SUBSET JobKeys /\ "prompt" \in keys
  BY DEF Compared, JobKeys
<1>2. AgentIs(a, r.set, <<>>, r.skills, <<>>, keys)
  <2> HIDE DEF a
  <2>1. AgentIs(a, r.set, <<>>, r.skills, <<>>, JobKeys)
    BY DEF a
  <2> HIDE DEF keys
  <2> QED BY <1>1, <2>1 DEF AgentIs, SetOf
<1>3. AgentIs(b, m.set ++ r.set, m.blocks, OrElse(m.skills, r.skills), m.prompts, keys)
  <2> HIDE DEF a, keys
  <2>1. a.output = <<>> /\ RecordOf(rec, m, keys)
    BY DEF a, keys
  <2> QED BY <1>1, <1>2, <2>1, LifecycleApplied DEF IsFront
<1>4. job = [b EXCEPT !.name = NameIn(rec)]
  BY DEF JobOf
<1> HIDE DEF b, keys
<1>5. AgentFields \subseteq DOMAIN b
  BY <1>3 DEF AgentIs
<1> HIDE DEF job
<1>6. /\ DOMAIN job = DOMAIN b /\ job.name = NameIn(rec)
      /\ job.set = b.set /\ job.lists = b.lists /\ job.prompts = b.prompts
      /\ job.prompt = b.prompt /\ job.cache = b.cache /\ job.hooks = b.hooks
      /\ job.params = b.params /\ job.output = b.output
  BY <1>4, <1>5 DEF AgentFields
<1>7. RoutesOf(job) = RoutesOf(b)
  BY <1>6 DEF RoutesOf
<1>8. AgentIs(job, m.set ++ r.set, m.blocks, OrElse(m.skills, r.skills), m.prompts, keys)
  BY <1>3, <1>6, <1>7 DEF AgentIs, BlocksOf
<1>9. \A x : MeantBlock(parts, x) = At(m.blocks, x, <<>>)
  BY OverNone DEF IsFront
<1>10. JobMeant(job, parts)
  BY <1>8, <1>9 DEF JobMeant, keys
<1> QED BY <1>6, <1>10 DEF job

\* So it is for the flat form, ...
LEMMA FlatJob ==
  ASSUME NEW q, NEW r, IsFront(r),
         NEW defs, NEW agent, AgentIs(defs[agent], r.set, <<>>, r.skills, <<>>, JobKeys),
         defs[agent].output = <<>>,
         NEW rec, RecordOf(rec, q, Compared(<<q, r>>))
  PROVE  /\ JobMeant(JobOf(defs, agent, rec), <<q, r>>)
         /\ JobOf(defs, agent, rec).name = NameIn(rec)
<1>1. MeantPrompts(<<q, r>>) = q.prompts /\ MeantSkills(<<q, r>>) = OrElse(q.skills, r.skills)
  BY ListsOfTwo DEF IsFront, OrElse
<1> QED BY <1>1, MeantOfTwo, JobOfRecord

\* ... and for an instance.
LEMMA InstanceJob ==
  ASSUME NEW p, NEW q, NEW r, IsFront(r),
         NEW defs, NEW agent, AgentIs(defs[agent], r.set, <<>>, r.skills, <<>>, JobKeys),
         defs[agent].output = <<>>,
         NEW rec, RecordOf(rec, Over(p, q), Compared(<<p, q, r>>))
  PROVE  /\ JobMeant(JobOf(defs, agent, rec), <<p, q, r>>)
         /\ JobOf(defs, agent, rec).name = NameIn(rec)
<1> DEFINE m == Over(p, q)
           parts == <<p, q, r>>
<1>1. /\ m.set = p.set ++ q.set /\ m.skills = Joined(q.skills, p.skills)
      /\ m.prompts = OrElse(p.prompts, q.prompts) /\ m.blocks = p.blocks ++ q.blocks
  BY DEF Over
<1>7. /\ MeantPrompts(<<p, q, r>>) = OrElse(p.prompts, OrElse(q.prompts, r.prompts))
      /\ MeantSkills(<<p, q, r>>) = OrElse(Joined(q.skills, p.skills), r.skills)
  BY ListsOfThree
<1> HIDE DEF m, parts
<1>2. MeantPrompts(parts) = m.prompts
  <2>1. MeantPrompts(parts) = OrElse(p.prompts, OrElse(q.prompts, <<>>))
    BY <1>7 DEF IsFront, parts
  <2>2. OrElse(q.prompts, <<>>) = q.prompts
    BY DEF OrElse
  <2> QED BY <1>1, <2>1, <2>2
<1>3. MeantSkills(parts) = OrElse(m.skills, r.skills)
  <2>1. MeantSkills(parts) = OrElse(Joined(q.skills, p.skills), r.skills)
    BY <1>7 DEF parts
  <2> QED BY <1>1, <2>1
<1>4. \A k, d : MeantScalar(parts, k, d) = At(m.set ++ r.set, k, d)
  BY <1>1, MeantOfThree, OverOver DEF parts
<1>5. \A b : MeantBlock(parts, b) = At(m.blocks ++ r.blocks, b, <<>>)
  BY <1>1, MeantOfThree, OverOver DEF parts
<1>6. RecordOf(rec, m, Compared(parts))
  BY DEF m, parts
<1> QED BY <1>2, <1>3, <1>4, <1>5, <1>6, JobOfRecord DEF parts

\* A text that is there.
Given(x) == x # ""

\* A job that has what its parts mean is valid when it has a name.
LEMMA JobValid ==
  ASSUME NEW a, NEW parts, JobMeant(a, parts), Given(a.name)
  PROVE  Valid(a)
<1>1. "temperature" \in Compared(parts) \ {"prompt", "enabled"}
  BY DEF Compared, JobKeys
<1>2. "temperature" \in DOMAIN a.set => Meaningful("temperature", a.set["temperature"])
  BY <1>1 DEF JobMeant, AgentIs, SetOf
<1>3. "temperature" \in DOMAIN a.set => a.set["temperature"] \notin OutOfRange
  BY <1>2, Zenon DEF Meaningful
<1>4. "0" \notin OutOfRange
  BY DEF OutOfRange
<1>5. At(a.set, "temperature", "0") \notin OutOfRange
  BY <1>3, <1>4, Zenon DEF At
<1> QED BY <1>5, Zenon DEF Valid, Given

\* A record with a schedule.
LEMMA ScheduledIs ==
  ASSUME NEW rec, NEW m, NEW parts, RecordOf(rec, m, Compared(parts)), "schedule" \in DOMAIN m.set
  PROVE  Scheduled(rec)
<1>1. "schedule" \in Compared(parts)
  BY DEF Compared, JobKeys
<1>2. Same(rec.set, m.set, "schedule")
      /\ ("schedule" \in DOMAIN rec.set => Meaningful("schedule", rec.set["schedule"]))
  BY <1>1 DEF RecordOf, SetOf
<1>3. "schedule" \in DOMAIN rec.set /\ Meaningful("schedule", rec.set["schedule"])
  BY <1>2 DEF Same
<1>4. rec.set["schedule"] # ""
  BY <1>3, Zenon DEF Meaningful
<1> QED BY <1>3, <1>4, Zenon DEF Scheduled, TextAt, At

\* The keys that are compared are read as they are written.
LEMMA ComparedRead ==
  ASSUME NEW p, NEW q, NEW r
  PROVE  /\ Compared(<<p, q, r>>) \in SUBSET JobKeys /\ Compared(<<q, r>>) \in SUBSET JobKeys
         /\ "enabled" \in Compared(<<p, q, r>>) =>
              ~Shadowed(<<p>>, "enabled") /\ ~Shadowed(<<q>>, "enabled")
         /\ "enabled" \in Compared(<<q, r>>) => ~Shadowed(<<q>>, "enabled")
<1>1. Compared(<<p, q, r>>) \in SUBSET JobKeys /\ Compared(<<q, r>>) \in SUBSET JobKeys
  BY DEF Compared
<1>2. /\ "enabled" \in Compared(<<p, q, r>>) => ~Shadowed(<<p, q, r>>, "enabled")
      /\ "enabled" \in Compared(<<q, r>>) => ~Shadowed(<<q, r>>, "enabled")
  BY DEF Compared
<1> QED BY <1>1, <1>2, PartShadows

\* The record of the flat form: the top level, under the name of the agent.
LEMMA FlatRecord ==
  ASSUME NEW w, NEW lines, LifecycleWritten(w, lines), w.form = "flat", Given(w.agent.name), NEW r
  PROVE  \E rec : /\ ParseLifecycle(lines) = [agent |-> w.agent.name, made |-> [ok |-> TRUE, recs |-> <<rec>>]]
                  /\ NameIn(rec) = w.agent.name
                  /\ RecordOf(rec, w.top, Compared(<<w.top, r>>))
<1> DEFINE topLines == ExtractTopLevel(lines)
           top  == ParseBlock(topLines)
           name == w.agent.name
           keys == Compared(<<w.top, r>>)
           set  == With(<<>>, "name", name)
           base == [EmptyRecord EXCEPT !.set = set]
           rec  == ApplyBlocks(lines, ApplyFields(top, base))
<1>1. /\ "agent" \in DOMAIN top.vals /\ top.vals["agent"] = name
      /\ PartRead(top, topLines, w.top) /\ ~IsListForm(lines) /\ ~Disabled(top)
      /\ "name" \notin DOMAIN top.vals /\ "schedule" \in DOMAIN w.top.set
  BY DEF LifecycleWritten
<1>2. topLines = lines
  BY <1>1 DEF IsListForm, ExtractTopLevel
<1> HIDE DEF top, topLines
<1>3. keys \in SUBSET JobKeys /\ ("enabled" \in keys => ~Shadowed(<<w.top>>, "enabled"))
  BY ComparedRead
<1>4. \A k \in keys : k \notin DOMAIN set
  <2>1. "name" \notin JobKeys
    BY DEF JobKeys
  <2> HIDE DEF keys
  <2> QED BY <1>3, <2>1 DEF With
<1>5. RecordOf(rec, w.top, keys)
  <2>1. PartRead(top, lines, w.top)
    BY <1>1, <1>2
  <2> HIDE DEF set, keys
  <2> QED BY <1>3, <1>4, <2>1, RecordAlone
<1>6. "set" \in DOMAIN base /\ base.set = set
  BY DEF EmptyRecord
<1>7. NameIn(rec) = name
  <2> DEFINE mid == ApplyFields(top, base)
  <2> HIDE DEF base, set, rec
  <2>1. Same(mid.set, top.vals ++ set, "name")
    BY <1>1, <1>6, FieldsApplied
  <2>2. "name" \in DOMAIN set /\ set["name"] = name
    BY DEF set, With
  <2>3. (top.vals ++ set)["name"] = name /\ "name" \in DOMAIN (top.vals ++ set)
    BY <1>1, <2>2, OverKeys
  <2>4. mid.set["name"] = name
    BY <2>1, <2>3 DEF Same
  <2>5. rec.set = mid.set
    <3>1. DOMAIN base = RecordFields
      BY DEF base, EmptyRecord, RecordFields
    <3>2. DOMAIN mid = DOMAIN base
      BY DEF ApplyFields
    <3> HIDE DEF mid
    <3> QED BY <3>1, <3>2 DEF rec, ApplyBlocks, RecordFields, mid
  <2> QED BY <2>4, <2>5 DEF NameIn
<1>8. ParseLifecycle(lines) = [agent |-> name, made |-> Records(top, topLines, lines)]
  <2>1. At(top.vals, "agent", "") = name
    BY <1>1, Zenon DEF At
  <2> QED BY <2>1, Zenon DEF ParseLifecycle, top, topLines
<1>9. Records(top, topLines, lines) = [ok |-> TRUE, recs |-> <<rec>>]
  <2>1. At(top.vals, "agent", "") = name /\ name # ""
    BY <1>1, Zenon DEF At, Given
  <2>2. Records(top, topLines, lines) = ParseFlatForm(name, top, lines)
    BY <1>1, <2>1, Zenon DEF Records
  <2>3. Scheduled(rec)
    BY <1>1, <1>5, ScheduledIs
  <2>4. ~FieldsFail(top) /\ CacheBlock(lines).ok
    BY <1>1, <1>2 DEF PartRead, BlocksRead
  <2>5. rec = ApplyBlocks(lines, ApplyFields(top, [EmptyRecord EXCEPT !.set = With(@, "name", name)]))
    <3>1. [EmptyRecord EXCEPT !.set = With(@, "name", name)] = base
      BY DEF EmptyRecord
    <3> QED BY <3>1
  <2> HIDE DEF rec
  <2>6. ParseFlatForm(name, top, lines) = [ok |-> TRUE, recs |-> <<rec>>]
    BY <2>3, <2>4, <2>5, Zenon DEF ParseFlatForm, Scheduled, TextAt
  <2> QED BY <2>2, <2>6
<1> HIDE DEF rec
<1> QED BY <1>5, <1>7, <1>8, <1>9

\* The records of the list form: one for each instance that is on, under its
\* name, with the instance over the top level.
InstanceRecord(w, i, rec, r) ==
  /\ NameIn(rec) = w.insts[i].name
  /\ RecordOf(rec, Over(w.insts[i], w.top), Compared(<<w.insts[i], w.top, r>>))

\* What is known of an instance as it is written.
LEMMA InstanceGiven ==
  ASSUME NEW doc, NEW lines, NEW inst, NEW top, InstanceRead(doc, lines, inst, top)
  PROVE  /\ PartRead(doc, lines, inst)
         /\ "name" \in DOMAIN doc.vals /\ doc.vals["name"] = inst.name /\ Given(inst.name)
         /\ Disabled(doc) = inst.off
         /\ inst.off \/ "schedule" \in DOMAIN inst.set \cup DOMAIN top.set
BY Zenon DEF InstanceRead, Given

\* The record of an instance is the instance over the top level, under its name.
LEMMA InstanceIs ==
  ASSUME NEW doc, NEW lines, NEW p, NEW q, NEW r, PartRead(doc, lines, p),
         "name" \in DOMAIN doc.vals, doc.vals["name"] = p.name,
         NEW base, RecordOf(base, q, Compared(<<p, q, r>>))
  PROVE  /\ ParseInstance(base, doc, lines).doc = doc
         /\ RecordOf(ParseInstance(base, doc, lines).rec, Over(p, q), Compared(<<p, q, r>>))
         /\ NameIn(ParseInstance(base, doc, lines).rec) = p.name
         /\ NameOf(ParseInstance(base, doc, lines)) = p.name
<1> DEFINE made == ParseInstance(base, doc, lines)
           mid  == ApplyFields(doc, base)
           rec  == OverrideBlocks(lines, mid)
           keys == Compared(<<p, q, r>>)
<1>1. made.doc = doc /\ made.rec = rec
  BY DEF ParseInstance
<1>2. keys \in SUBSET JobKeys /\ ("enabled" \in keys => ~Shadowed(<<p>>, "enabled"))
  BY ComparedRead
<1>3. RecordOf(rec, Over(p, q), keys)
  <2> HIDE DEF keys
  <2>1. RecordOf(base, q, keys)
    BY DEF keys
  <2> QED BY <1>2, <2>1, RecordOver
<1>4. "name" \in DOMAIN rec.set /\ rec.set["name"] = p.name
  <2>1. DOMAIN base = RecordFields
    BY DEF RecordOf
  <2>2. "name" \in DOMAIN mid.set /\ mid.set["name"] = doc.vals["name"]
    BY <2>1, NameApplied DEF RecordFields
  <2>3. DOMAIN mid = DOMAIN base
    BY DEF ApplyFields
  <2> HIDE DEF mid
  <2>4. rec.set = mid.set
    BY <2>1, <2>3 DEF OverrideBlocks, RecordFields
  <2> QED BY <2>2, <2>4
<1> HIDE DEF made, rec
<1>5. NameIn(made.rec) = p.name
  BY <1>1, <1>4 DEF NameIn
<1>6. NameOf(made) = p.name
  BY <1>1, <1>4, Zenon DEF NameOf, At
<1> QED BY <1>1, <1>3, <1>5, <1>6 DEF made, keys

\* The records of the list form, under the name of the agent.
LEMMA ListRecords ==
  ASSUME NEW w, NEW lines, LifecycleWritten(w, lines), w.form = "list", Given(w.agent.name), NEW r
  PROVE  LET file == ParseLifecycle(lines)
         IN  /\ file.agent = w.agent.name /\ file.made.ok /\ IsList(file.made.recs)
             /\ \A n \in DOMAIN file.made.recs : \E i \in On(w) : InstanceRecord(w, i, file.made.recs[n], r)
             /\ \A i \in On(w) : \E n \in DOMAIN file.made.recs : InstanceRecord(w, i, file.made.recs[n], r)
             /\ \A m, n \in DOMAIN file.made.recs :
                  NameIn(file.made.recs[m]) = NameIn(file.made.recs[n]) => m = n
<1> DEFINE topLines == ExtractTopLevel(lines)
           top    == ParseBlock(topLines)
           name   == w.agent.name
           blocks == SplitInstances(lines)
           base   == Defaults(top, topLines)
           insts  == [i \in DOMAIN blocks |-> ParseInstance(base, ParseBlock(blocks[i]), blocks[i])]
           off    == At(top.lists, "disable", <<>>)
           made   == InstanceRecords(off, insts)
           K(i)   == Compared(<<w.insts[i], w.top, r>>)
<1>1. /\ "agent" \in DOMAIN top.vals /\ top.vals["agent"] = name
      /\ PartRead(top, topLines, w.top) /\ IsListForm(lines) /\ ListRead(w, top, blocks)
  BY DEF LifecycleWritten
<1> HIDE DEF topLines, top, blocks
<1>2. /\ off = w.off /\ IsList(blocks) /\ DOMAIN w.insts = DOMAIN blocks
      /\ \A i \in DOMAIN blocks : InstanceRead(ParseBlock(blocks[i]), blocks[i], w.insts[i], w.top)
      /\ On(w) # {} /\ \A i, j \in On(w) : w.insts[i].name = w.insts[j].name => i = j
  BY <1>1 DEF ListRead
<1>3. Len(blocks) \in Nat /\ DOMAIN blocks = 1..Len(blocks) /\ DOMAIN insts = 1..Len(blocks)
  BY <1>2, ListDomain
<1>4. blocks # <<>>
  <2>1. On(w) \subseteq DOMAIN blocks
    BY <1>2 DEF On
  <2> QED BY <1>2, <2>1
<1>5. ASSUME NEW i \in DOMAIN blocks
      PROVE  /\ insts[i].doc = ParseBlock(blocks[i])
             /\ ~FieldsFail(insts[i].doc) /\ Named(insts[i])
             /\ Disabled(insts[i].doc) = w.insts[i].off
             /\ NameOf(insts[i]) = w.insts[i].name
             /\ InstanceRecord(w, i, insts[i].rec, r)
             /\ w.insts[i].off \/ Scheduled(insts[i].rec)
  <2> DEFINE doc == ParseBlock(blocks[i])
             p == w.insts[i]
  <2>1. /\ PartRead(doc, blocks[i], p)
        /\ "name" \in DOMAIN doc.vals /\ doc.vals["name"] = p.name /\ Given(p.name)
        /\ Disabled(doc) = p.off
        /\ p.off \/ "schedule" \in DOMAIN p.set \cup DOMAIN w.top.set
    BY <1>2, InstanceGiven
  <2> HIDE DEF doc, p
  <2>2. K(i) \in SUBSET JobKeys /\ ("enabled" \in K(i) => ~Shadowed(<<w.top>>, "enabled"))
    BY ComparedRead
  <2>3. RecordOf(base, w.top, Compared(<<p, w.top, r>>))
    <3> DEFINE keys == K(i)
    <3>1. keys \in SUBSET JobKeys /\ ("enabled" \in keys => ~Shadowed(<<w.top>>, "enabled"))
      BY <2>2
    <3> HIDE DEF keys, base
    <3>2. RecordOf(base, w.top, keys)
      BY <1>1, <3>1, DefaultsAre DEF base
    <3> QED BY <3>2 DEF keys, p
  <2> DEFINE inst == ParseInstance(base, doc, blocks[i])
  <2>4. /\ inst.doc = doc /\ RecordOf(inst.rec, Over(p, w.top), Compared(<<p, w.top, r>>))
        /\ NameIn(inst.rec) = p.name /\ NameOf(inst) = p.name
    <3> HIDE DEF base
    <3> QED BY <2>1, <2>3, InstanceIs
  <2>5. insts[i] = inst
    BY DEF doc
  <2> HIDE DEF inst, insts
  <2>6. ~FieldsFail(doc)
    BY <2>1 DEF PartRead
  <2>7. Named(insts[i])
    BY <2>1, <2>4, <2>5, Zenon DEF Named, Given
  <2>8. InstanceRecord(w, i, insts[i].rec, r)
    BY <2>4, <2>5 DEF InstanceRecord, p
  <2>9. p.off \/ Scheduled(insts[i].rec)
    <3>1. SUFFICES ASSUME ~p.off PROVE Scheduled(inst.rec)
      BY <2>5
    <3>2. "schedule" \in DOMAIN (p.set ++ w.top.set)
      BY <2>1, <3>1, OverKeys
    <3>3. "schedule" \in DOMAIN Over(p, w.top).set
      BY <3>2 DEF Over
    <3> QED BY <2>4, <3>3, ScheduledIs
  <2>10. insts[i].doc = doc /\ Disabled(doc) = p.off /\ NameOf(insts[i]) = p.name
    BY <2>1, <2>4, <2>5
  <2> QED BY <2>6, <2>7, <2>8, <2>9, <2>10 DEF doc, p
<1>6. OnOf(off, insts) = On(w)
  <2>1. DOMAIN insts = DOMAIN blocks
    OBVIOUS
  <2> HIDE DEF insts, off
  <2> QED BY <1>2, <1>5, <2>1 DEF OnOf, On
<1>7. made.ok /\ IsList(made.recs)
      /\ (\A n \in DOMAIN made.recs : \E i \in On(w) : made.recs[n] = insts[i].rec)
      /\ (\A i \in On(w) : \E n \in DOMAIN made.recs : made.recs[n] = insts[i].rec)
      /\ (\A m, n \in DOMAIN made.recs : NameIn(made.recs[m]) = NameIn(made.recs[n]) => m = n)
  <2>1. \A i \in DOMAIN insts : ~FieldsFail(insts[i].doc) /\ Named(insts[i])
    BY <1>5
  <2>2. \A i \in On(w) : i \in DOMAIN blocks /\ ~w.insts[i].off
    BY <1>2 DEF On
  <2>3. \A i \in OnOf(off, insts) : Scheduled(insts[i].rec)
    <3> HIDE DEF insts, off
    <3> QED BY <1>5, <1>6, <2>2
  <2>4. \A i, j \in OnOf(off, insts) : NameIn(insts[i].rec) = NameIn(insts[j].rec) => i = j
    <3> HIDE DEF insts, off
    <3>1. \A i \in On(w) : NameIn(insts[i].rec) = w.insts[i].name
      BY <1>5, <2>2 DEF InstanceRecord
    <3> QED BY <1>2, <1>6, <3>1
  <2> HIDE DEF insts, off
  <2>5. DOMAIN insts = 1..Len(blocks) /\ Len(blocks) \in Nat
    BY <1>3 DEF insts
  <2> HIDE DEF made
  <2>6. made = InstanceRecords(off, insts)
    BY DEF made
  <2> QED BY <1>6, <2>1, <2>3, <2>4, <2>5, <2>6, InstancesMake
<1>8. ParseLifecycle(lines) = [agent |-> name, made |-> made]
  <2>1. At(top.vals, "agent", "") = name /\ name # ""
    BY <1>1, Zenon DEF At, Given
  <2>2. ParseLifecycle(lines) = [agent |-> name, made |-> Records(top, topLines, lines)]
    BY <2>1, Zenon DEF ParseLifecycle, top, topLines
  <2>3. Records(top, topLines, lines) = ParseListForm(top, topLines, blocks)
    BY <1>1, <2>1, Zenon DEF Records, blocks
  <2>4. ~FieldsFail(top) /\ CacheBlock(topLines).ok
    BY <1>1 DEF PartRead, BlocksRead
  <2>5. ParseListForm(top, topLines, blocks) = made
    BY <1>4, <2>4, Zenon DEF ParseListForm
  <2> QED BY <2>2, <2>3, <2>5
<1>9. \A i \in On(w) : InstanceRecord(w, i, insts[i].rec, r)
  <2>1. \A i \in On(w) : i \in DOMAIN blocks
    BY <1>2 DEF On
  <2> QED BY <1>5, <2>1
<1> DEFINE file == ParseLifecycle(lines)
<1> HIDE DEF made, insts
<1>10. file.agent = name /\ file.made = made
  BY <1>8
<1> HIDE DEF file
<1> SUFFICES /\ file.agent = w.agent.name /\ file.made.ok /\ IsList(file.made.recs)
             /\ \A n \in DOMAIN file.made.recs : \E i \in On(w) : InstanceRecord(w, i, file.made.recs[n], r)
             /\ \A i \in On(w) : \E n \in DOMAIN file.made.recs : InstanceRecord(w, i, file.made.recs[n], r)
             /\ \A m, n \in DOMAIN file.made.recs :
                  NameIn(file.made.recs[m]) = NameIn(file.made.recs[n]) => m = n
  BY DEF file
<1> QED BY <1>7, <1>9, <1>10

\* A fold over one element.
LEMMA OneFold ==
  ASSUME NEW fold, NEW ctx, NEW base, NEW x
  PROVE  FoldOf(fold, ctx, base, <<x>>, 1)[1..1] = Folded(fold, ctx, base, x)
<1> DEFINE f == FoldOf(fold, ctx, base, <<x>>, 1)
<1>1. Stepwise(f, fold, ctx, base, <<x>>, 1)
  BY FoldSteps
<1> HIDE DEF f
<1>2. 1..1 \in SUBSET (1..1) /\ 1..1 # {}
  OBVIOUS
<1>3. Max(1..1) \in 1..1
  BY <1>2, TopOut
<1>4. Max(1..1) = 1 /\ (1..1) \ {Max(1..1)} = {}
  BY <1>3
<1>5. f[1..1] = Folded(fold, ctx, f[(1..1) \ {Max(1..1)}], <<x>>[Max(1..1)])
  BY <1>1, <1>2 DEF Stepwise
<1>6. f[{}] = base
  BY <1>1 DEF Stepwise
<1>7. f[1..1] = Folded(fold, ctx, f[{}], <<x>>[1])
  BY <1>4, <1>5
<1> QED BY <1>6, <1>7 DEF f

\* The table of one file.
LEMMA OneAgent ==
  ASSUME NEW file, LoadFile(file).ok, Given(LoadFile(file).name)
  PROVE  AgentDefs(<<file>>).defs = With(<<>>, LoadFile(file).name, LoadFile(file))
<1> DEFINE base == [defs |-> <<>>, ok |-> TRUE]
           files == <<file>>
           a == LoadFile(file)
<1>1. AgentDefs(files) =
        (CHOOSE g : g = [s \in SUBSET DOMAIN files |->
           IF s = {} THEN base ELSE AddDef(g[s \ {Max(s)}], LoadFile(files[Max(s)]))])[DOMAIN files]
  BY DEF AgentDefs, FoldLeft, MapThenFoldSet
<1>2. DOMAIN files = 1..1
  OBVIOUS
<1> HIDE DEF files, base
<1>3. AgentDefs(files) = FoldOf("agents", "", base, files, 1)[1..1]
  BY <1>1, <1>2 DEF FoldOf, Folds, Folded
<1>4. AgentDefs(files) = Folded("agents", "", base, file)
  BY <1>3, OneFold DEF files
<1>5. AgentDefs(files) = AddDef(base, a)
  BY <1>4 DEF Folded
<1> HIDE DEF a
<1>6. a.ok /\ a.name # ""
  BY Zenon DEF a, Given
<1>7. a.name \notin DOMAIN base.defs
  BY DEF base
<1>8. AddDef(base, a) = [base EXCEPT !.defs = With(base.defs, a.name, a)]
  BY <1>6, <1>7, Zenon DEF AddDef
<1>9. AddDef(base, a).defs = With(<<>>, a.name, a)
  BY <1>8 DEF base
<1> QED BY <1>5, <1>9 DEF files, a

NoJobs == [jobs |-> <<>>, claimed |-> {}, ok |-> TRUE]

\* The jobs of one lifecycle, and of none.
LEMMA OneLifecycle ==
  ASSUME NEW defs, NEW lines
  PROVE  /\ LifecycleJobs(defs, <<lines>>) = ClaimAll(defs, NoJobs, ParseLifecycle(lines))
         /\ LifecycleJobs(defs, <<>>) = NoJobs
<1>1. ASSUME NEW docs, NEW n, DOMAIN docs = 1..n
      PROVE  LifecycleJobs(defs, docs) = FoldOf("lifecycles", defs, NoJobs, docs, n)[1..n]
  <2>1. LifecycleJobs(defs, docs) =
          (CHOOSE g : g = [s \in SUBSET DOMAIN docs |->
             IF s = {} THEN NoJobs
             ELSE ClaimAll(defs, g[s \ {Max(s)}], ParseLifecycle(docs[Max(s)]))])[DOMAIN docs]
    BY DEF LifecycleJobs, FoldLeft, MapThenFoldSet, NoJobs
  <2> QED BY <1>1, <2>1 DEF FoldOf, Folds, Folded
<1>2. LifecycleJobs(defs, <<lines>>) = ClaimAll(defs, NoJobs, ParseLifecycle(lines))
  <2> DEFINE docs == <<lines>>
  <2>1. DOMAIN docs = 1..1
    OBVIOUS
  <2> HIDE DEF docs
  <2>2. LifecycleJobs(defs, docs) = FoldOf("lifecycles", defs, NoJobs, docs, 1)[1..1]
    BY <1>1, <2>1
  <2>3. LifecycleJobs(defs, docs) = Folded("lifecycles", defs, NoJobs, lines)
    BY <2>2, OneFold DEF docs
  <2> QED BY <2>3 DEF Folded, docs
<1>3. LifecycleJobs(defs, <<>>) = NoJobs
  <2> DEFINE docs == <<>>
  <2>1. DOMAIN docs = 1..0 /\ 1..0 = {}
    OBVIOUS
  <2> HIDE DEF docs
  <2>2. LifecycleJobs(defs, docs) = FoldOf("lifecycles", defs, NoJobs, docs, 0)[1..0]
    BY <1>1, <2>1
  <2>3. Stepwise(FoldOf("lifecycles", defs, NoJobs, docs, 0), "lifecycles", defs, NoJobs, docs, 0)
    BY FoldSteps
  <2>4. LifecycleJobs(defs, docs) = NoJobs
    BY <2>1, <2>2, <2>3 DEF Stepwise
  <2> QED BY <2>4 DEF docs
<1> QED BY <1>2, <1>3

\* The front matter as a part of an intent.
LEMMA FrontPartIs ==
  ASSUME NEW w
  PROVE  /\ FrontPart(w).set = w.agent.set /\ FrontPart(w).skills = w.agent.skills
         /\ FrontPart(w).prompts = <<>> /\ FrontPart(w).blocks = <<>>
BY DEF FrontPart, Nobody

\* The jobs that the three forms of an intent mean.
LEMMA MeantByForm ==
  ASSUME NEW w
  PROVE  /\ w.form = "none" => MeantJobs(w) = With(<<>>, w.agent.name, <<FrontPart(w)>>)
         /\ w.form = "flat" => MeantJobs(w) = With(<<>>, w.agent.name, <<w.top, FrontPart(w)>>)
         /\ w.form = "list" /\ On(w) # {} =>
              MeantJobs(w) = [n \in {w.insts[i].name : i \in On(w)} |->
                <<w.insts[CHOOSE i \in On(w) : w.insts[i].name = n], w.top, FrontPart(w)>>]
<1>1. w.form = "none" => MeantJobs(w) = With(<<>>, w.agent.name, <<FrontPart(w)>>)
  BY DEF MeantJobs
<1>2. w.form = "flat" => MeantJobs(w) = With(<<>>, w.agent.name, <<w.top, FrontPart(w)>>)
  BY DEF MeantJobs
<1>3. w.form = "list" /\ On(w) # {} =>
        MeantJobs(w) = [n \in {w.insts[i].name : i \in On(w)} |->
          <<w.insts[CHOOSE i \in On(w) : w.insts[i].name = n], w.top, FrontPart(w)>>]
  BY DEF MeantJobs, On
<1> QED BY <1>1, <1>2, <1>3

\* The jobs of a directory are those that are meant.
JobsAre(jobs, meant) ==
  DOMAIN jobs = DOMAIN meant /\ \A n \in DOMAIN jobs : JobMeant(jobs[n], meant[n])

\* With one agent: its jobs are those of the lifecycle that claims it, or else
\* itself.
LEMMA OneLoaded ==
  ASSUME NEW files, NEW docs, NEW name, NEW a, AgentDefs(files).defs = With(<<>>, name, a),
         NEW made, made = LifecycleJobs(With(<<>>, name, a), docs)
  PROVE  /\ made.claimed = {name} /\ (\A n \in DOMAIN made.jobs : Valid(made.jobs[n])) =>
              /\ DOMAIN LoadDir(files, docs).jobs = DOMAIN made.jobs
              /\ \A n \in DOMAIN made.jobs : LoadDir(files, docs).jobs[n] = made.jobs[n]
         /\ made = NoJobs /\ Valid(a) => LoadDir(files, docs).jobs = With(<<>>, name, a)
<1> DEFINE defs == With(<<>>, name, a)
           free == (DOMAIN defs) \ made.claimed
           all == made.jobs ++ [n \in free |-> defs[n]]
           jobs == LoadDir(files, docs).jobs
<1>1. jobs = Pick(all, {n \in DOMAIN all : Valid(all[n])})
  BY DEF LoadDir, Jobs
<1>2. DOMAIN defs = {name} /\ defs[name] = a
  BY DEF With
<1> HIDE DEF jobs, defs
<1>3. ASSUME made.claimed = {name}, \A n \in DOMAIN made.jobs : Valid(made.jobs[n])
      PROVE  DOMAIN jobs = DOMAIN made.jobs /\ \A n \in DOMAIN made.jobs : jobs[n] = made.jobs[n]
  <2>1. free = {}
    BY <1>2, <1>3
  <2>2. DOMAIN all = DOMAIN made.jobs /\ \A n \in DOMAIN made.jobs : all[n] = made.jobs[n]
    BY <2>1 DEF ++
  <2> HIDE DEF all
  <2> QED BY <1>1, <1>3, <2>2 DEF Pick
<1>4. ASSUME made = NoJobs, Valid(a) PROVE jobs = defs
  <2>1. free = {name} /\ DOMAIN made.jobs = {}
    BY <1>2, <1>4 DEF NoJobs
  <2>2. DOMAIN all = {name} /\ all[name] = a
    BY <1>2, <2>1 DEF ++
  <2> HIDE DEF all
  <2>3. DOMAIN jobs = {name} /\ jobs[name] = a /\ jobs = [n \in DOMAIN jobs |-> jobs[n]]
    BY <1>1, <1>4, <2>2 DEF Pick
  <2>4. defs = [n \in {name} |-> a]
    BY DEF defs, With
  <2> QED BY <2>3, <2>4
<1> QED BY <1>3, <1>4 DEF jobs, defs

\* The table of the agent of an intent.
LEMMA AgentLoaded ==
  ASSUME NEW file, NEW w, FrontRead(file, w.agent), NEW a, a = LoadFile(file)
  PROVE  /\ AgentDefs(<<file>>).defs = With(<<>>, w.agent.name, a)
         /\ a.name = w.agent.name /\ Given(w.agent.name) /\ a.output = <<>>
         /\ AgentIs(a, FrontPart(w).set, <<>>, FrontPart(w).skills, <<>>, JobKeys)
         /\ IsFront(FrontPart(w))
<1>1. /\ a.ok /\ a.name = w.agent.name /\ a.output = <<>>
      /\ AgentIs(a, w.agent.set, <<>>, w.agent.skills, <<>>, JobKeys)
      /\ "prompt" \notin DOMAIN w.agent.set
  BY FrontIs
<1>2. Given(w.agent.name)
  BY Zenon DEF FrontRead, Given
<1>3. AgentDefs(<<file>>).defs = With(<<>>, w.agent.name, a)
  BY <1>1, <1>2, OneAgent
<1>4. IsFront(FrontPart(w))
  BY <1>1, FrontPartIs DEF IsFront
<1>5. AgentIs(a, FrontPart(w).set, <<>>, FrontPart(w).skills, <<>>, JobKeys)
  BY <1>1, FrontPartIs
<1> QED BY <1>1, <1>2, <1>3, <1>4, <1>5

\* Without a lifecycle the agent is the job.
LEMMA NoneLoaded ==
  ASSUME NEW file, NEW w, FrontRead(file, w.agent), w.form = "none"
  PROVE  JobsAre(LoadDir(<<file>>, <<>>).jobs, MeantJobs(w))
<1> DEFINE a == LoadFile(file)
           r == FrontPart(w)
           name == w.agent.name
           defs == With(<<>>, name, a)
<1>1. /\ AgentDefs(<<file>>).defs = defs /\ a.name = name /\ Given(name)
      /\ AgentIs(a, r.set, <<>>, r.skills, <<>>, JobKeys) /\ IsFront(r)
  BY AgentLoaded
<1> HIDE DEF a, r
<1>2. JobMeant(a, <<r>>)
  <2> DEFINE keys == Compared(<<r>>)
  <2>1. keys \in SUBSET JobKeys
    BY DEF Compared
  <2> HIDE DEF keys
  <2>2. AgentIs(a, r.set, <<>>, r.skills, <<>>, keys)
    BY <1>1, <2>1 DEF AgentIs, SetOf
  <2>3. MeantSkills(<<r>>) = r.skills /\ MeantPrompts(<<r>>) = <<>>
    BY <1>1, ListsOfOne DEF IsFront
  <2>4. /\ \A k, d : MeantScalar(<<r>>, k, d) = At(r.set, k, d)
        /\ \A b : MeantBlock(<<r>>, b) = At(r.blocks, b, <<>>)
    BY MeantOfOne
  <2>5. \A b : MeantBlock(<<r>>, b) = At(<<>>, b, <<>>)
    BY <1>1, <2>4 DEF IsFront
  <2> QED BY <2>2, <2>3, <2>4, <2>5 DEF JobMeant, keys
<1>3. Valid(a)
  BY <1>1, <1>2, JobValid
<1>4. LoadDir(<<file>>, <<>>).jobs = defs
  <2>1. LifecycleJobs(defs, <<>>) = NoJobs
    BY OneLifecycle
  <2> QED BY <1>1, <1>3, <2>1, OneLoaded
<1>5. MeantJobs(w) = With(<<>>, name, <<r>>)
  BY MeantByForm DEF r
<1>6. /\ DOMAIN defs = {name} /\ defs[name] = a
      /\ DOMAIN MeantJobs(w) = {name} /\ MeantJobs(w)[name] = <<r>>
  BY <1>5 DEF With
<1> HIDE DEF defs
<1> QED BY <1>2, <1>4, <1>6 DEF JobsAre

\* The flat form makes one job of the agent.
LEMMA FlatLoaded ==
  ASSUME NEW file, NEW w, FrontRead(file, w.agent), w.form = "flat",
         NEW lines, LifecycleWritten(w, lines)
  PROVE  JobsAre(LoadDir(<<file>>, <<lines>>).jobs, MeantJobs(w))
<1> DEFINE a == LoadFile(file)
           r == FrontPart(w)
           q == w.top
           name == w.agent.name
           defs == With(<<>>, name, a)
           made == LifecycleJobs(defs, <<lines>>)
<1>1. /\ AgentDefs(<<file>>).defs = defs /\ a.name = name /\ Given(name) /\ a.output = <<>>
      /\ AgentIs(a, r.set, <<>>, r.skills, <<>>, JobKeys) /\ IsFront(r)
  BY AgentLoaded
<1>2. PICK rec : /\ ParseLifecycle(lines) = [agent |-> name, made |-> [ok |-> TRUE, recs |-> <<rec>>]]
                 /\ NameIn(rec) = name /\ RecordOf(rec, q, Compared(<<q, r>>))
  BY <1>1, FlatRecord
<1> HIDE DEF a, r
<1>3. DOMAIN defs = {name} /\ defs[name] = a
  BY DEF With
<1> DEFINE job == JobOf(defs, name, rec)
<1>4. JobMeant(job, <<q, r>>) /\ job.name = name
  <2> HIDE DEF defs, job
  <2>1. AgentIs(defs[name], r.set, <<>>, r.skills, <<>>, JobKeys) /\ defs[name].output = <<>>
    BY <1>1, <1>3
  <2> QED BY <1>1, <1>2, <2>1, FlatJob DEF job
<1>5. made = ClaimAll(defs, NoJobs, ParseLifecycle(lines))
  BY OneLifecycle
<1> HIDE DEF defs, made, job
<1>6. DOMAIN made.jobs = {name} /\ made.jobs[name] = job /\ made.claimed = {name}
  <2> DEFINE lf == [agent |-> name, made |-> [ok |-> TRUE, recs |-> <<rec>>]]
             recs == <<rec>>
  <2>1. lf.made.ok /\ lf.made.recs = recs /\ lf.agent = name
    OBVIOUS
  <2>2. DOMAIN recs = {1} /\ recs[1] = rec /\ DOMAIN recs = 1..1 /\ recs = [i \in DOMAIN recs |-> recs[i]]
    OBVIOUS
  <2> HIDE DEF lf, recs
  <2>3. IsList(recs)
    BY <2>2, MadeList
  <2>4. \A i, k \in DOMAIN recs : NameIn(recs[i]) = NameIn(recs[k]) => i = k
    BY <2>2
  <2>5. {"jobs", "claimed"} \subseteq DOMAIN NoJobs /\ DOMAIN NoJobs.jobs = {} /\ NoJobs.claimed = {}
    BY DEF NoJobs
  <2>6. Claimed(ClaimAll(defs, NoJobs, lf), defs, lf.agent, lf.made.recs)
    <3>1. IsList(lf.made.recs) /\ lf.agent \in DOMAIN defs
      BY <1>3, <2>1, <2>3
    <3>2. Distinct(lf.made.recs)
      BY <2>1, <2>4 DEF Distinct
    <3> QED BY <2>1, <2>5, <3>1, <3>2, ClaimsMake
  <2>7. made = ClaimAll(defs, NoJobs, lf)
    BY <1>2, <1>5 DEF lf
  <2>8. Claimed(made, defs, name, recs)
    BY <2>1, <2>6, <2>7
  <2> QED BY <1>2, <2>2, <2>8 DEF job, Claimed
<1>7. Valid(job)
  BY <1>1, <1>4, JobValid
<1>8. DOMAIN LoadDir(<<file>>, <<lines>>).jobs = {name} /\ LoadDir(<<file>>, <<lines>>).jobs[name] = job
  <2>1. \A n \in DOMAIN made.jobs : Valid(made.jobs[n])
    BY <1>6, <1>7
  <2> QED BY <1>1, <1>6, <2>1, OneLoaded DEF made, defs
<1>9. MeantJobs(w) = With(<<>>, name, <<q, r>>)
  BY MeantByForm DEF r
<1>10. DOMAIN MeantJobs(w) = {name} /\ MeantJobs(w)[name] = <<q, r>>
  BY <1>9 DEF With
<1> QED BY <1>4, <1>8, <1>10 DEF JobsAre

\* The list form makes one job of each instance that is on.
LEMMA ListLoaded ==
  ASSUME NEW file, NEW w, FrontRead(file, w.agent), w.form = "list",
         NEW lines, LifecycleWritten(w, lines)
  PROVE  JobsAre(LoadDir(<<file>>, <<lines>>).jobs, MeantJobs(w))
<1> DEFINE a == LoadFile(file)
           r == FrontPart(w)
           q == w.top
           name == w.agent.name
           defs == With(<<>>, name, a)
           lf == ParseLifecycle(lines)
           recs == lf.made.recs
           made == LifecycleJobs(defs, <<lines>>)
           Of(n) == CHOOSE i \in On(w) : w.insts[i].name = n
           Job(i) == JobOf(defs, name, recs[i])
           jobs == LoadDir(<<file>>, <<lines>>).jobs
           names == {w.insts[i].name : i \in On(w)}
<1>1. /\ AgentDefs(<<file>>).defs = defs /\ Given(name) /\ a.output = <<>>
      /\ AgentIs(a, r.set, <<>>, r.skills, <<>>, JobKeys) /\ IsFront(r)
  BY AgentLoaded
<1> HIDE DEF a, r
<1>2. /\ lf.agent = name /\ lf.made.ok /\ IsList(recs)
      /\ \A n \in DOMAIN recs : \E i \in On(w) : InstanceRecord(w, i, recs[n], r)
      /\ \A i \in On(w) : \E n \in DOMAIN recs : InstanceRecord(w, i, recs[n], r)
      /\ \A m, n \in DOMAIN recs : NameIn(recs[m]) = NameIn(recs[n]) => m = n
  BY <1>1, ListRecords
<1>3. /\ On(w) # {} /\ \A i, j \in On(w) : w.insts[i].name = w.insts[j].name => i = j
      /\ \A i \in On(w) : Given(w.insts[i].name)
  <2> DEFINE top == ParseBlock(ExtractTopLevel(lines))
             blocks == SplitInstances(lines)
  <2>1. ListRead(w, top, blocks)
    BY DEF LifecycleWritten
  <2> HIDE DEF top, blocks
  <2>2. /\ On(w) # {} /\ DOMAIN w.insts = DOMAIN blocks
        /\ \A i, j \in On(w) : w.insts[i].name = w.insts[j].name => i = j
        /\ \A i \in DOMAIN blocks : InstanceRead(ParseBlock(blocks[i]), blocks[i], w.insts[i], w.top)
    BY <2>1 DEF ListRead
  <2>3. ASSUME NEW i \in On(w) PROVE Given(w.insts[i].name)
    <3>1. i \in DOMAIN blocks
      BY <2>2 DEF On
    <3> QED BY <2>2, <3>1, InstanceGiven
  <2> QED BY <2>2, <2>3
<1>4. DOMAIN defs = {name} /\ defs[name] = a
  BY DEF With
<1>5. Claimed(made, defs, name, recs)
  <2>1. made = ClaimAll(defs, NoJobs, lf)
    BY OneLifecycle
  <2>2. {"jobs", "claimed"} \subseteq DOMAIN NoJobs /\ DOMAIN NoJobs.jobs = {} /\ NoJobs.claimed = {}
    BY DEF NoJobs
  <2> HIDE DEF lf, made, defs
  <2>3. Distinct(lf.made.recs)
    BY <1>2 DEF Distinct
  <2>4. Claimed(ClaimAll(defs, NoJobs, lf), defs, lf.agent, lf.made.recs)
    BY <1>2, <1>4, <2>2, <2>3, ClaimsMake
  <2> QED BY <1>2, <2>1, <2>4
<1>6. ASSUME NEW i \in On(w), NEW n \in DOMAIN recs, InstanceRecord(w, i, recs[n], r)
      PROVE  /\ JobMeant(Job(n), <<w.insts[i], q, r>>) /\ Valid(Job(n))
             /\ NameIn(recs[n]) = w.insts[i].name /\ Of(w.insts[i].name) = i
  <2> DEFINE p == w.insts[i]
             rec == recs[n]
  <2>1. NameIn(rec) = p.name /\ RecordOf(rec, Over(p, q), Compared(<<p, q, r>>))
    BY <1>6 DEF InstanceRecord
  <2>2. Of(p.name) = i
    BY <1>3
  <2>3. JobMeant(Job(n), <<p, q, r>>) /\ Job(n).name = p.name
    <3> HIDE DEF defs, rec, p
    <3>1. AgentIs(defs[name], r.set, <<>>, r.skills, <<>>, JobKeys) /\ defs[name].output = <<>>
      BY <1>1, <1>4
    <3>2. JobMeant(JobOf(defs, name, rec), <<p, q, r>>) /\ JobOf(defs, name, rec).name = NameIn(rec)
      BY <1>1, <2>1, <3>1, InstanceJob
    <3> QED BY <2>1, <3>2 DEF rec
  <2> HIDE DEF Job
  <2>4. Valid(Job(n))
    BY <1>3, <2>3, JobValid
  <2> QED BY <2>1, <2>2, <2>3, <2>4
<1> HIDE DEF Of, defs, lf, made, jobs
<1>7. DOMAIN recs # {}
  BY <1>2, <1>3
<1>8. /\ DOMAIN made.jobs = {NameIn(recs[n]) : n \in DOMAIN recs} /\ made.claimed = {name}
      /\ \A n \in DOMAIN recs : made.jobs[NameIn(recs[n])] = Job(n)
  BY <1>5, <1>7 DEF Claimed
<1> HIDE DEF Job, recs
<1>9. DOMAIN made.jobs = names
  <2>1. ASSUME NEW n \in DOMAIN recs PROVE NameIn(recs[n]) \in names
    BY <1>2, <1>6
  <2>2. ASSUME NEW i \in On(w) PROVE w.insts[i].name \in DOMAIN made.jobs
    <3>1. PICK n \in DOMAIN recs : InstanceRecord(w, i, recs[n], r)
      BY <1>2
    <3>2. NameIn(recs[n]) = w.insts[i].name
      BY <1>6, <3>1
    <3> QED BY <1>8, <3>2
  <2> QED BY <1>8, <2>1, <2>2
<1>10. ASSUME NEW x \in DOMAIN made.jobs
       PROVE  Valid(made.jobs[x]) /\ JobMeant(made.jobs[x], <<w.insts[Of(x)], q, r>>)
  <2>1. PICK n \in DOMAIN recs : x = NameIn(recs[n])
    BY <1>8
  <2>2. PICK i \in On(w) : InstanceRecord(w, i, recs[n], r)
    BY <1>2
  <2>3. x = w.insts[i].name /\ Of(x) = i
    BY <1>6, <2>1, <2>2
  <2>4. made.jobs[x] = Job(n)
    BY <1>8, <2>1
  <2> QED BY <1>6, <2>2, <2>3, <2>4
<1>11. DOMAIN jobs = DOMAIN made.jobs /\ \A n \in DOMAIN made.jobs : jobs[n] = made.jobs[n]
  <2>1. \A n \in DOMAIN made.jobs : Valid(made.jobs[n])
    BY <1>10
  <2> QED BY <1>1, <1>8, <2>1, OneLoaded DEF made, defs, jobs
<1>12. MeantJobs(w) = [n \in names |-> <<w.insts[Of(n)], q, r>>]
  BY <1>3, MeantByForm DEF r, Of
<1>13. DOMAIN MeantJobs(w) = names /\ \A n \in names : MeantJobs(w)[n] = <<w.insts[Of(n)], q, r>>
  BY <1>12
<1> HIDE DEF names
<1> QED BY <1>9, <1>10, <1>11, <1>13 DEF JobsAre, jobs

\* So LoadDir makes the jobs that are meant, of whatever form.
LEMMA DirectoryMeant ==
  ASSUME NEW i, IntentWritten(i), i.intent.form # "other"
  PROVE  JobsAre(LoadDir(i.agents, i.lifecycles).jobs, MeantJobs(i.intent))
<1> DEFINE file == i.agents[1]
           lines == i.lifecycles[1]
           w == i.intent
<1>1. /\ w.form \in {"none", "flat", "list"} /\ i.agents = <<file>> /\ FrontRead(file, w.agent)
      /\ w.form = "none" => i.lifecycles = <<>>
      /\ w.form # "none" => i.lifecycles = <<lines>> /\ LifecycleWritten(w, lines)
  BY DEF IntentWritten
<1> HIDE DEF file, lines, w
<1>2. CASE w.form = "none"
  BY <1>1, <1>2, NoneLoaded DEF w
<1>3. CASE w.form = "flat"
  BY <1>1, <1>3, FlatLoaded DEF w
<1>4. CASE w.form = "list"
  BY <1>1, <1>4, ListLoaded DEF w
<1> QED BY <1>1, <1>2, <1>3, <1>4

-----------------------------------------------------------------------------
(* What is known of the runs that were prepared.                             *)
LoadedJobs == loaded # <<>> => loaded = LoadDir(input.agents, input.lifecycles)
RunsResolved ==
  \A n \in DOMAIN prepared :
    /\ loaded # <<>> /\ n \in DOMAIN loaded.jobs
    /\ prepared[n].agent = AgentOf(n)
    /\ prepared[n].budget = TokenBudget(config.values, prepared[n].agent)
Unread ==
  /\ phase \in {"start", "configured", "agents", "tools"} => prepared = <<>>
  /\ phase \in {"agents", "tools", "serving"} => loaded # <<>>
  /\ phase \in {"start", "configured"} => loaded = <<>>
JobInv == LoadedJobs /\ RunsResolved /\ Unread /\ IntentWritten(input)

\* Every step of the start keeps it.
LEMMA JobInvHolds == StartupSpec /\ IntentWritten(input) => []JobInv
<1>1. ASSUME StartupInit, IntentWritten(input) PROVE JobInv
  BY <1>1 DEF StartupInit, JobInv, LoadedJobs, RunsResolved, Unread
<1>2. ASSUME JobInv, [StartupNext]_startupVars PROVE JobInv'
  <2> USE DEF JobInv
  <2>1. input' = input
    BY <1>2 DEF StartupNext, startupVars, ReadConfig, ReadAgents, ReadTools, Validate, Serve, Prepare
  <2>2. IntentWritten(input)'
    BY <1>2, <2>1
  <2>3. CASE ReadConfig
    <3>1. prepared' = <<>> /\ loaded' = <<>> /\ phase' \in {"configured", "exited"}
      BY <1>2, <2>3 DEF ReadConfig, Unread
    <3> QED BY <2>2, <3>1 DEF LoadedJobs, RunsResolved, Unread
  <2>4. CASE ReadAgents
    <3>1. prepared' = <<>> /\ phase' = "agents" /\ loaded' = LoadDir(input'.agents, input'.lifecycles)
      BY <1>2, <2>1, <2>4 DEF ReadAgents, Unread
    <3>2. loaded' # <<>>
      <4> DEFINE x == LoadDir(input'.agents, input'.lifecycles)
      <4>1. "jobs" \in DOMAIN x
        BY DEF LoadDir, Jobs
      <4>2. "jobs" \notin DOMAIN <<>>
        OBVIOUS
      <4> HIDE DEF x
      <4>3. x # <<>>
        BY <4>1, <4>2
      <4> QED BY <3>1, <4>3 DEF x
    <3> QED BY <2>2, <3>1, <3>2 DEF LoadedJobs, RunsResolved, Unread
  <2>5. CASE ReadTools
    <3>1. prepared' = <<>> /\ phase' = "tools" /\ UNCHANGED loaded
      BY <1>2, <2>5 DEF ReadTools, Unread
    <3> QED BY <1>2, <2>1, <2>2, <2>5, <3>1 DEF LoadedJobs, RunsResolved, Unread, ReadTools
  <2>6. CASE Validate
    <3>1. prepared' = <<>> /\ UNCHANGED <<phase, loaded>>
      BY <1>2, <2>6 DEF Validate, Unread
    <3> QED BY <1>2, <2>1, <2>2, <3>1 DEF LoadedJobs, RunsResolved, Unread
  <2>7. CASE Serve
    <3>1. prepared' = <<>> /\ UNCHANGED loaded /\ phase' \in {"serving", "exited"}
      BY <1>2, <2>7 DEF Serve, Unread
    <3> QED BY <1>2, <2>1, <2>2, <2>7, <3>1 DEF LoadedJobs, RunsResolved, Unread, Serve
  <2>8. ASSUME NEW n \in DOMAIN At(loaded, "jobs", <<>>), Prepare(n) PROVE JobInv'
    <3> DEFINE run == [agent |-> AgentOf(n), starts |-> Starts(AgentOf(n)),
                       budget |-> TokenBudget(config.values, AgentOf(n))]
    <3>1. UNCHANGED <<config, loaded, phase>> /\ phase = "serving" /\ n \in DOMAIN loaded.jobs
      BY <2>8 DEF Prepare
    <3>2. LoadedJobs' /\ Unread' /\ loaded # <<>>
      BY <1>2, <2>1, <3>1 DEF LoadedJobs, Unread
    <3>3. prepared' = With(prepared, n, run)
      BY <2>8 DEF Prepare, AgentOf
    <3>4. run.agent = AgentOf(n) /\ run.budget = TokenBudget(config.values, run.agent)
      OBVIOUS
    <3> HIDE DEF run
    <3>5. \A m : AgentOf(m)' = AgentOf(m)
      BY <3>1 DEF AgentOf
    <3>6. ASSUME NEW m \in DOMAIN prepared'
          PROVE  /\ m \in DOMAIN loaded.jobs /\ prepared'[m].agent = AgentOf(m)
                 /\ prepared'[m].budget = TokenBudget(config.values, prepared'[m].agent)
      <4>0. prepared' = [x \in {n} \cup DOMAIN prepared |-> IF x = n THEN run ELSE prepared[x]]
        BY <3>3 DEF With
      <4>1. CASE m = n
        <5>1. prepared'[m] = run
          BY <4>0, <4>1
        <5> QED BY <3>1, <3>4, <4>1, <5>1
      <4>2. CASE m # n
        <5>1. m \in DOMAIN prepared /\ prepared'[m] = prepared[m]
          BY <3>6, <4>0, <4>2
        <5> QED BY <1>2, <5>1 DEF RunsResolved
      <4> QED BY <4>1, <4>2
    <3>7. RunsResolved'
      BY <3>1, <3>2, <3>5, <3>6 DEF RunsResolved
    <3> QED BY <2>2, <3>2, <3>7
  <2>9. CASE UNCHANGED startupVars
    <3>1. UNCHANGED <<config, loaded, phase, prepared, input>>
      BY <2>9 DEF startupVars
    <3>2. \A m : AgentOf(m)' = AgentOf(m)
      BY <3>1 DEF AgentOf
    <3> QED BY <1>2, <2>2, <3>1, <3>2 DEF LoadedJobs, RunsResolved, Unread
  <2> QED BY <1>2, <2>3, <2>4, <2>5, <2>6, <2>7, <2>8, <2>9 DEF StartupNext
<1> QED BY <1>1, <1>2, PTL DEF StartupSpec

\* A run that was prepared is the run of a job that is meant.
LEMMA RunsAsMeant == JobInv => JobsAsWritten
<1> DEFINE meant == MeantJobs(input.intent)
<1> SUFFICES ASSUME JobInv, loaded # <<>>, input.intent.form # "other"
             PROVE  /\ DOMAIN loaded.jobs = DOMAIN meant
                    /\ \A n \in DOMAIN prepared : JobIs(meant[n], prepared[n], config.values)
  BY DEF JobsAsWritten
<1>1. JobsAre(loaded.jobs, meant)
  BY DirectoryMeant DEF JobInv, LoadedJobs
<1> HIDE DEF meant
<1>2. ASSUME NEW n \in DOMAIN prepared PROVE JobIs(meant[n], prepared[n], config.values)
  <2>1. /\ n \in DOMAIN loaded.jobs
        /\ prepared[n].agent = ResolveAgent(config.values, loaded.jobs[n])
        /\ prepared[n].budget = TokenBudget(config.values, prepared[n].agent)
    BY <1>2 DEF JobInv, RunsResolved, AgentOf
  <2>2. JobMeant(loaded.jobs[n], meant[n])
    BY <1>1, <2>1 DEF JobsAre
  <2> QED BY <2>1, <2>2, JobRuns
<1> QED BY <1>1, <1>2 DEF JobsAre

(* Where the readers return what is written, the jobs of a directory are those
   that its lifecycles mean, and each runs with the nearest thing written for
   it, for every intent of one agent: any scalars, skills, prompts and blocks,
   any number of instances, and any configuration
   (lifecycle.go:105-228, agent.go:133-211).                                 *)
THEOREM JobsAreAsWritten == StartupSpec /\ IntentWritten(input) => []JobsAsWritten
BY JobInvHolds, RunsAsMeant, PTL
=============================================================================
