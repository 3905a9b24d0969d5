--------------------------- MODULE ToolCallsProofs ---------------------------
(***************************************************************************)
(* Proofs about ToolCalls: the limiter keeps its rate, a caller gets its   *)
(* own response from a pipe with one decoder, only a poisoned client is    *)
(* replaced, and no tool runs more often than it has attempts.             *)
(***************************************************************************)
EXTENDS ToolCalls, FiniteSetTheorems, TLAPS

(* Arithmetic.                                                              *)

\* The bounds in ratelimit.go are those of two numbers.
LEMMA MaxPair ==
  ASSUME NEW x \in Int, NEW y \in Int
  PROVE  Max({x, y}) = IF x >= y THEN x ELSE y
  BY SMT DEF Max

LEMMA MinPair ==
  ASSUME NEW x \in Int, NEW y \in Int
  PROVE  Min({x, y}) = IF x <= y THEN x ELSE y
  BY SMT DEF Min

\* A quotient and a remainder are the only ones.
LEMMA Division ==
  ASSUME NEW n \in Nat, NEW k \in Nat \ {0}, NEW q \in Nat, NEW r \in 0..k - 1,
         n = k * q + r
  PROVE  n \div k = q /\ n % k = r
  OBVIOUS

\* Every number has a quotient and a remainder.
LEMMA Quotient ==
  ASSUME NEW n \in Nat, NEW k \in Nat \ {0}
  PROVE  /\ n \div k \in Nat /\ n % k \in 0..k - 1
         /\ n = k * (n \div k) + (n % k)
<1> DEFINE q == n \div k
<1>1. q \in Nat
  OBVIOUS
<1>2. k * q <= n
  BY SMTT(30)
<1>3. n - k * q < k
  BY SMTT(30)
<1>4. n - k * q \in 0..k - 1 /\ n = k * q + (n - k * q)
  <2> HIDE DEF q
  <2>1. k * q \in Nat
    BY <1>1
  <2> QED BY <1>2, <1>3, <2>1
<1>5. n % k = n - k * q
  <2>1. n - k * q \in 0..k - 1 /\ n = k * q + (n - k * q) /\ q \in Nat
    BY <1>1, <1>4
  <2> HIDE DEF q
  <2> QED BY <2>1, Division
<1> QED BY <1>1, <1>4, <1>5

\* One tick more is one interval more, or none.
LEMMA NextQuotient ==
  ASSUME NEW n \in Nat, NEW k \in Nat \ {0}
  PROVE  (n + 1) \div k = IF (n + 1) % k = 0 THEN n \div k + 1 ELSE n \div k
<1> DEFINE q == n \div k
           r == n % k
<1>1. q \in Nat /\ r \in 0..k - 1 /\ n = k * q + r
  BY Quotient
<1> HIDE DEF q, r
<1>2. CASE r = k - 1
  <2>1. n + 1 = k * (q + 1) + 0
    BY <1>1, <1>2
  <2>2. (n + 1) \div k = q + 1 /\ (n + 1) % k = 0
    BY <1>1, <2>1, Division
  <2> QED BY <2>2 DEF q
<1>3. CASE r < k - 1
  <2>1. n + 1 = k * q + (r + 1) /\ r + 1 \in 0..k - 1 /\ r + 1 # 0
    BY <1>1, <1>3
  <2>2. (n + 1) \div k = q /\ (n + 1) % k = r + 1
    BY <1>1, <2>1, Division
  <2> QED BY <2>1, <2>2 DEF q
<1> QED BY <1>1, <1>2, <1>3

-----------------------------------------------------------------------------
(* The limiter.                                                             *)

LimiterInv == LimiterTypeOK /\ BucketFollows

\* What take() finds in the bucket (ratelimit.go:29-42): the tokens of the whole
\* intervals that have passed, up to the burst.
LEMMA RefilledValue ==
  ASSUME LimiterTypeOK
  PROVE  LET k == age \div Interval IN
         /\ k \in Nat
         /\ Refilled = IF Burst <= tokens + k THEN Burst ELSE tokens + k
         /\ Refilled \in 0..Burst
         /\ age >= Interval <=> k >= 1
         /\ Refilled = 0 => tokens = 0 /\ age < Interval
<1> DEFINE k == age \div Interval
<1>1. /\ age \in Nat /\ tokens \in 0..Burst /\ Burst \in Nat \ {0}
      /\ Interval \in Nat \ {0}
  BY LimiterOK DEF LimiterTypeOK
<1>2. k \in Nat /\ age % Interval \in 0..Interval - 1
      /\ age = Interval * k + (age % Interval)
  BY <1>1, Quotient
<1>3. Refilled = IF Burst <= tokens + k THEN Burst ELSE tokens + k
  <2>1. tokens + k \in Int /\ Burst \in Int
    BY <1>1, <1>2
  <2> QED BY <2>1, MinPair DEF Refilled
<1> HIDE DEF k
<1>4. age >= Interval <=> k >= 1
  <2>1. k = 0 => age < Interval
    BY <1>1, <1>2
  <2>2. k >= 1 => age >= Interval
    BY <1>1, <1>2
  <2> QED BY <1>1, <1>2, <2>1, <2>2
<1> QED BY <1>1, <1>2, <1>3, <1>4 DEF k

\* A part of an interval is worth no token.
LEMMA SmallAge ==
  ASSUME NEW n \in 0..Interval - 1
  PROVE  n \div Interval = 0
<1>1. Interval \in Nat \ {0} /\ n \in Nat /\ n = Interval * 0 + n
  BY LimiterOK
<1> QED BY <1>1, Division

\* What take() leaves: one token less, or an empty bucket, and the rest of an
\* interval.
LEMMA Took ==
  ASSUME LimiterTypeOK, Take
  PROVE  /\ tokens' = (IF Refilled > 0 THEN Refilled - 1 ELSE 0)
         /\ tokens' \in 0..Burst
         /\ age' \in 0..Interval - 1
         /\ age' \in 0..(Burst + 1) * Interval - 1
         /\ Refilled' = tokens'
<1>1. Refilled \in 0..Burst /\ Burst \in Nat \ {0} /\ Interval \in Nat \ {0} /\ age \in Nat
  BY RefilledValue, LimiterOK DEF LimiterTypeOK
<1>2. tokens' = (IF Refilled > 0 THEN Refilled - 1 ELSE 0)
  <2>1. Refilled - 1 \in Int /\ 0 \in Int
    BY <1>1
  <2>2. tokens' = Max({Refilled - 1, 0})
    BY DEF Take
  <2> HIDE DEF Refilled
  <2> QED BY <1>1, <2>1, <2>2, MaxPair
<1>3. age' \in 0..Interval - 1
  BY <1>1, Quotient DEF Take
<1>4. age' \in 0..(Burst + 1) * Interval - 1
  <2>1. Interval <= (Burst + 1) * Interval
    BY <1>1
  <2> QED BY <1>1, <1>3, <2>1
<1>5. tokens' \in 0..Burst
  BY <1>1, <1>2
<1>6. Refilled' = tokens'
  <2>1. age' \div Interval = 0
    BY <1>3, SmallAge
  <2>2. Refilled' = Min({Burst, tokens' + 0})
    BY <2>1 DEF Refilled
  <2>3. tokens' \in Int /\ Burst \in Int /\ tokens' <= Burst
    BY <1>1, <1>5
  <2>4. \A n \in Int : n + 0 = n
    OBVIOUS
  <2> QED BY <2>2, <2>3, <2>4, MinPair
<1> QED BY <1>2, <1>3, <1>4, <1>5, <1>6

\* Callers can be counted.
LEMMA Counted ==
  ASSUME NEW S \in SUBSET Callers, NEW T \in SUBSET S
  PROVE  /\ IsFiniteSet(S) /\ Cardinality(S) \in Nat
         /\ IsFiniteSet(T) /\ Cardinality(T) \in Nat
         /\ Cardinality(T) <= Cardinality(S)
<1>1. IsFiniteSet(S) /\ Cardinality(S) \in Nat
  BY CallersFinite, FS_Subset, FS_CardinalityType
<1> QED BY <1>1, FS_Subset, FS_CardinalityType

\* A token more is one request more for every caller but one.
LEMMA OneMoreToken ==
  ASSUME NEW n \in Nat, limited \subseteq Callers
  PROVE  /\ FreeRides(n) \in Int /\ FreeRides(0) = 0
         /\ FreeRides(n + 1) = FreeRides(n) + Cardinality(limited) - 1
<1>1. Cardinality(limited) \in Nat
  BY Counted
<1> DEFINE k == Cardinality(limited) - 1
<1>2. k \in Int
  BY <1>1
<1>3. FreeRides(n) = n * k /\ FreeRides(n + 1) = (n + 1) * k /\ FreeRides(0) = 0 * k
  BY DEF FreeRides
<1>4. Cardinality(limited) - 1 = k
  OBVIOUS
<1> HIDE DEF k
<1>5. n * k \in Int /\ (n + 1) * k = n * k + k /\ 0 * k = 0
  BY <1>2
<1>6. n * k + k = n * k + Cardinality(limited) - 1
  BY <1>1, <1>4, <1>5
<1> QED BY <1>3, <1>5, <1>6

\* What the invariant says of the numbers in it.
LEMMA LimiterNumbers ==
  ASSUME LimiterInv
  PROVE  /\ LimiterTypeOK /\ Interval \in Nat \ {0} /\ Burst \in Nat \ {0}
         /\ age \in Nat /\ ideal \in Int /\ ideal <= Burst /\ paid \in Nat /\ free \in Nat
         /\ sleep \in [Callers -> Awake..Interval] /\ limited \subseteq Callers
         /\ Asleep \subseteq limited /\ Overtaken \subseteq Asleep
         /\ IsFiniteSet(Overtaken) /\ Cardinality(Overtaken) \in Nat
         /\ ideal + free >= Refilled
         /\ free + Cardinality(Overtaken) <= FreeRides(paid)
         /\ FreeRides(paid) \in Int
         /\ Refilled \in 0..Burst
         /\ Refilled = 0 => tokens = 0 /\ age < Interval
<1>1. /\ LimiterTypeOK /\ Interval \in Nat \ {0} /\ Burst \in Nat \ {0}
      /\ age \in Nat /\ ideal \in Int /\ ideal <= Burst /\ paid \in Nat /\ free \in Nat
      /\ sleep \in [Callers -> Awake..Interval] /\ limited \subseteq Callers
  BY LimiterOK DEF LimiterInv, LimiterTypeOK
<1>2. Asleep \subseteq limited /\ Overtaken \subseteq Asleep
  BY DEF LimiterInv, BucketFollows, Overtaken
<1>3. IsFiniteSet(Overtaken) /\ Cardinality(Overtaken) \in Nat
  <2>1. Overtaken \in SUBSET limited /\ limited \in SUBSET Callers
    BY <1>1, <1>2
  <2> QED BY <2>1, Counted
<1>4. ideal + free >= Refilled /\ free + Cardinality(Overtaken) <= FreeRides(paid)
  BY DEF LimiterInv, BucketFollows
<1>5. FreeRides(paid) \in Int
  BY <1>1, OneMoreToken
<1>6. Refilled \in 0..Burst /\ (Refilled = 0 => tokens = 0 /\ age < Interval)
  BY <1>1, RefilledValue
<1> QED BY <1>1, <1>2, <1>3, <1>4, <1>5, <1>6

\* What is left of an interval when there is no token is all of age.
LEMMA SameAge ==
  ASSUME age \in Nat, age < Interval
  PROVE  age % Interval = age
<1>1. Interval \in Nat \ {0} /\ age \in 0..Interval - 1 /\ age = Interval * 0 + age
  BY LimiterOK
<1> QED BY <1>1, Division

\* A request that has its token leaves the others to be overtaken, at most.
LEMMA PaidKeeps ==
  ASSUME LimiterInv, Take, Refilled > 0, NEW c \in limited,
         Asleep' \subseteq Asleep \ {c}, LimiterTypeOK',
         ideal' = ideal - 1, paid' = paid + 1, UNCHANGED <<limited, free>>
  PROVE  BucketFollows'
<1>1. /\ ideal \in Int /\ paid \in Nat /\ free \in Nat /\ limited \subseteq Callers
      /\ Asleep \subseteq limited /\ Cardinality(Overtaken) \in Nat
      /\ ideal + free >= Refilled
      /\ free + Cardinality(Overtaken) <= FreeRides(paid)
      /\ FreeRides(paid) \in Int /\ Refilled \in 0..Burst /\ Burst \in Nat
      /\ LimiterTypeOK
  BY LimiterNumbers
<1>2. Refilled' = Refilled - 1
  BY <1>1, Took
<1>3. ideal' + free' >= Refilled'
  BY <1>1, <1>2
<1>4. Overtaken' \subseteq limited \ {c}
  BY <1>1 DEF Overtaken
<1>5. /\ IsFiniteSet(limited) /\ Cardinality(limited) \in Nat
      /\ Cardinality(limited \ {c}) = Cardinality(limited) - 1
  BY <1>1, Counted, FS_RemoveElement
<1>6. /\ Cardinality(Overtaken') \in Nat
      /\ Cardinality(Overtaken') <= Cardinality(limited) - 1
  <2>1. Overtaken' \in SUBSET (limited \ {c}) /\ limited \ {c} \in SUBSET Callers
    BY <1>1, <1>4
  <2>2. /\ Cardinality(Overtaken') \in Nat
        /\ Cardinality(Overtaken') <= Cardinality(limited \ {c})
    BY <2>1, Counted
  <2> QED BY <1>5, <2>2
<1>7. FreeRides(paid)' = FreeRides(paid) + Cardinality(limited) - 1
  <2>1. FreeRides(paid)' = FreeRides(paid + 1)
    BY DEF FreeRides
  <2> QED BY <1>1, <2>1, OneMoreToken
<1>8. free' + Cardinality(Overtaken)' <= FreeRides(paid)'
  BY <1>1, <1>5, <1>6, <1>7
<1>9. Asleep' \subseteq limited'
  BY <1>1
<1> QED BY <1>3, <1>8, <1>9 DEF BucketFollows

\* Nobody is let through, and no other caller is overtaken.
LEMMA WaitKeeps ==
  ASSUME LimiterInv, Asleep' \subseteq limited, Overtaken' \subseteq Overtaken,
         ideal' + free >= Refilled', UNCHANGED <<limited, paid, free>>
  PROVE  BucketFollows'
<1>1. /\ IsFiniteSet(Overtaken) /\ Cardinality(Overtaken) \in Nat /\ free \in Nat
      /\ free + Cardinality(Overtaken) <= FreeRides(paid) /\ FreeRides(paid) \in Int
  BY LimiterNumbers
<1>2. Cardinality(Overtaken') \in Nat /\ Cardinality(Overtaken') <= Cardinality(Overtaken)
  BY <1>1, FS_Subset, FS_CardinalityType
<1>3. FreeRides(paid)' = FreeRides(paid)
  BY DEF FreeRides
<1>4. free' + Cardinality(Overtaken)' <= FreeRides(paid)'
  BY <1>1, <1>2, <1>3
<1> QED BY <1>4 DEF BucketFollows

\* The steps of the limiter one by one: the request asks, ...
LEMMA AskTokenKeeps ==
  ASSUME LimiterInv, NEW c \in Callers, AskToken(c)
  PROVE  LimiterInv'
<1>1. /\ LimiterTypeOK /\ Take /\ Interval \in Nat \ {0} /\ Burst \in Nat \ {0}
      /\ age \in Nat /\ ideal \in Int /\ ideal <= Burst /\ paid \in Nat /\ free \in Nat
      /\ sleep \in [Callers -> Awake..Interval] /\ limited \subseteq Callers
      /\ c \in limited /\ sleep[c] = Awake /\ UNCHANGED limited
      /\ Refilled \in 0..Burst /\ (Refilled = 0 => tokens = 0 /\ age < Interval)
      /\ Asleep \subseteq limited /\ ideal + free >= Refilled
  BY LimiterNumbers DEF AskToken
<1>2. /\ tokens' = (IF Refilled > 0 THEN Refilled - 1 ELSE 0)
      /\ tokens' \in 0..Burst
      /\ age' \in 0..Interval - 1
      /\ age' \in 0..(Burst + 1) * Interval - 1
      /\ Refilled' = tokens'
  BY <1>1, Took
<1>4. age % Interval \in 0..Interval - 1
  BY <1>1, Quotient
<1>5. Interval - (age % Interval) \in 1..Interval
  BY <1>1, <1>4
<1>6. age' = age % Interval
  BY <1>1 DEF Take
<1>7. CASE Refilled > 0
  <2>1. /\ ideal' = ideal - 1 /\ paid' = paid + 1 /\ UNCHANGED <<sleep, free>>
    BY <1>7 DEF AskToken, LetThrough
  <2>2. LimiterTypeOK'
    BY <1>1, <1>2, <2>1 DEF LimiterTypeOK
  <2>3. Asleep' \subseteq Asleep \ {c}
    BY <1>1, <2>1 DEF Asleep
  <2>4. BucketFollows'
    BY <1>1, <1>7, <2>1, <2>2, <2>3, PaidKeeps
  <2> QED BY <2>2, <2>4 DEF LimiterInv
<1>8. CASE Refilled = 0
  <2>1. /\ sleep' = [sleep EXCEPT ![c] = Interval - (age % Interval)]
        /\ UNCHANGED <<ideal, paid, free>>
    BY <1>8 DEF AskToken
  <2>2. sleep' \in [Callers -> Awake..Interval]
    BY <1>1, <1>5, <2>1 DEF Awake
  <2>3. LimiterTypeOK'
    BY <1>1, <1>2, <2>1, <2>2 DEF LimiterTypeOK
  <2>4. age' = age /\ age' + sleep'[c] = Interval
    BY <1>1, <1>6, <1>8, <2>1, SameAge
  <2>5. Asleep' \subseteq limited
    BY <1>1, <2>1 DEF Asleep
  <2>6. Overtaken' \subseteq Overtaken
    <3> SUFFICES ASSUME NEW d \in Overtaken' PROVE d \in Overtaken
      OBVIOUS
    <3>1. d \in Callers /\ sleep'[d] # Awake /\ age' + sleep'[d] < Interval
      BY DEF Overtaken, Asleep
    <3>2. d # c
      BY <1>1, <2>4, <3>1
    <3>3. sleep'[d] = sleep[d]
      BY <1>1, <2>1, <3>1, <3>2
    <3> QED BY <2>4, <3>1, <3>3 DEF Overtaken, Asleep
  <2>7. ideal' + free >= Refilled'
    BY <1>1, <1>2, <1>8, <2>1
  <2>8. BucketFollows'
    BY <1>1, <2>1, <2>5, <2>6, <2>7, WaitKeeps
  <2> QED BY <2>3, <2>8 DEF LimiterInv
<1> QED BY <1>1, <1>7, <1>8

\* ... sleeps its time and goes on, with the token that was due or because the
\* caller that had it has overtaken this one, ...
LEMMA WakeKeeps ==
  ASSUME LimiterInv, NEW c \in Callers, Wake(c)
  PROVE  LimiterInv'
<1>1. /\ LimiterTypeOK /\ Take /\ Interval \in Nat \ {0} /\ Burst \in Nat \ {0}
      /\ age \in Nat /\ ideal \in Int /\ ideal <= Burst /\ paid \in Nat /\ free \in Nat
      /\ sleep \in [Callers -> Awake..Interval] /\ limited \subseteq Callers
      /\ sleep[c] = 0 /\ sleep' = [sleep EXCEPT ![c] = Awake] /\ UNCHANGED limited
      /\ ideal' = ideal - 1
      /\ Refilled \in 0..Burst /\ (Refilled = 0 => tokens = 0 /\ age < Interval)
      /\ Asleep \subseteq limited /\ ideal + free >= Refilled
      /\ IsFiniteSet(Overtaken) /\ Cardinality(Overtaken) \in Nat
      /\ free + Cardinality(Overtaken) <= FreeRides(paid) /\ FreeRides(paid) \in Int
  BY LimiterNumbers DEF Wake, LetThrough
<1>2. /\ tokens' = (IF Refilled > 0 THEN Refilled - 1 ELSE 0)
      /\ tokens' \in 0..Burst
      /\ age' \in 0..(Burst + 1) * Interval - 1
      /\ Refilled' = tokens'
  BY <1>1, Took
<1>3. sleep' \in [Callers -> Awake..Interval]
  BY <1>1 DEF Awake
<1>4. c \in Asleep /\ Asleep' = Asleep \ {c} /\ \A d \in Asleep' : sleep'[d] = sleep[d]
  BY <1>1 DEF Asleep, Awake
<1>5. CASE Refilled > 0
  <2>1. paid' = paid + 1 /\ UNCHANGED free
    BY <1>5 DEF Wake, LetThrough
  <2>2. LimiterTypeOK'
    BY <1>1, <1>2, <1>3, <2>1 DEF LimiterTypeOK
  <2>3. BucketFollows'
    BY <1>1, <1>4, <1>5, <2>1, <2>2, PaidKeeps
  <2> QED BY <2>2, <2>3 DEF LimiterInv
<1>6. CASE Refilled = 0
  <2>1. free' = free + 1 /\ UNCHANGED paid
    BY <1>6 DEF Wake, LetThrough
  <2>2. LimiterTypeOK'
    BY <1>1, <1>2, <1>3, <2>1 DEF LimiterTypeOK
  <2>3. age' = age
    BY <1>1, <1>6, SameAge DEF Take
  <2>4. c \in Overtaken /\ Overtaken' = Overtaken \ {c}
    BY <1>1, <1>4, <1>6, <2>3 DEF Overtaken
  <2>5. Cardinality(Overtaken') = Cardinality(Overtaken) - 1
    BY <1>1, <2>4, FS_RemoveElement
  <2>6. FreeRides(paid)' = FreeRides(paid)
    BY <1>1, <2>1 DEF FreeRides
  <2>7. free' + Cardinality(Overtaken)' <= FreeRides(paid)'
    BY <1>1, <2>1, <2>5, <2>6
  <2>8. ideal' + free' >= Refilled'
    BY <1>1, <1>2, <1>6, <2>1
  <2>9. BucketFollows'
    BY <1>1, <1>4, <2>7, <2>8 DEF BucketFollows
  <2> QED BY <2>2, <2>9 DEF LimiterInv
<1> QED BY <1>1, <1>5, <1>6

\* ... or its deadline ends the sleep; ...
LEMMA GiveUpWaitingKeeps ==
  ASSUME LimiterInv, NEW c \in Callers, GiveUpWaiting(c)
  PROVE  LimiterInv'
<1>1. /\ LimiterTypeOK /\ sleep \in [Callers -> Awake..Interval] /\ Interval \in Nat
      /\ Asleep \subseteq limited /\ ideal + free >= Refilled
      /\ UNCHANGED <<limited, tokens, age, ideal, paid, free>>
  BY LimiterNumbers DEF GiveUpWaiting
<1>2. sleep' \in [Callers -> Awake..Interval]
  BY <1>1 DEF GiveUpWaiting, Awake
<1>3. LimiterTypeOK'
  BY <1>1, <1>2 DEF LimiterTypeOK
<1>4. \A d \in Asleep' : d \in Asleep /\ sleep'[d] = sleep[d]
  BY <1>1 DEF Asleep, GiveUpWaiting
<1>5. Overtaken' \subseteq Overtaken /\ Asleep' \subseteq limited
  BY <1>1, <1>4 DEF Overtaken
<1>6. Refilled' = Refilled
  BY <1>1 DEF Refilled
<1>7. BucketFollows'
  BY <1>1, <1>5, <1>6, WaitKeeps
<1> QED BY <1>3, <1>7 DEF LimiterInv

\* ... time passes; ...
LEMMA TickKeeps ==
  ASSUME LimiterInv, Tick
  PROVE  LimiterInv'
<1> DEFINE full == (Burst + 1) * Interval
           k == age \div Interval
<1>1. /\ LimiterTypeOK /\ Interval \in Nat \ {0} /\ Burst \in Nat \ {0}
      /\ age \in 0..full - 1 /\ age \in Nat /\ tokens \in 0..Burst
      /\ ideal \in Int /\ ideal <= Burst
      /\ sleep \in [Callers -> Awake..Interval]
  BY LimiterOK DEF LimiterInv, LimiterTypeOK
<1>2. full \in Nat /\ full - Interval = Burst * Interval + 0 /\ full - Interval \in Nat
  BY <1>1
<1>3. /\ k \in Nat
      /\ Refilled = IF Burst <= tokens + k THEN Burst ELSE tokens + k
  BY <1>1, RefilledValue
<1>4. (age + 1) \div Interval = IF (age + 1) % Interval = 0 THEN k + 1 ELSE k
  BY <1>1, NextQuotient
<1>5. age' = (IF age + 1 = full THEN full - Interval ELSE age + 1)
  BY <1>1 DEF Tick
<1>6. age' \in 0..full - 1
  <2> HIDE DEF full
  <2> QED BY <1>1, <1>2, <1>5
<1>7. sleep' \in [Callers -> Awake..Interval]
  <2>1. ASSUME NEW d \in Callers PROVE sleep'[d] \in Awake..Interval
    BY <1>1 DEF Tick, Awake
  <2> QED BY <2>1 DEF Tick
<1>8. ideal' = IF (age + 1) % Interval = 0
               THEN IF Burst <= ideal + 1 THEN Burst ELSE ideal + 1
               ELSE ideal
  <2>1. ideal + 1 \in Int /\ Burst \in Int
    BY <1>1
  <2> QED BY <2>1, MinPair DEF Tick
<1>9. LimiterTypeOK'
  BY <1>1, <1>6, <1>7, <1>8 DEF LimiterTypeOK, Tick
<1>10. age' \div Interval = IF age + 1 = full THEN Burst ELSE (age + 1) \div Interval
  <2>1. (full - Interval) \div Interval = Burst
    <3> HIDE DEF full
    <3> QED BY <1>1, <1>2, Division
  <2> HIDE DEF full
  <2> QED BY <1>5, <2>1
<1>11. age + 1 = full => (age + 1) \div Interval = Burst + 1 /\ (age + 1) % Interval = 0
  <2> SUFFICES ASSUME age + 1 = full
               PROVE  (age + 1) \div Interval = Burst + 1 /\ (age + 1) % Interval = 0
    OBVIOUS
  <2>1. /\ age + 1 \in Nat /\ Burst + 1 \in Nat
        /\ age + 1 = Interval * (Burst + 1) + 0 /\ 0 \in 0..Interval - 1
    BY <1>1
  <2> QED BY <1>1, <2>1, Division
<1> HIDE DEF k, full
<1>12. Refilled' = LET n == age' \div Interval IN
                   IF Burst <= tokens + n THEN Burst ELSE tokens + n
  <2>1. tokens' = tokens /\ Refilled' = Min({Burst, tokens' + age' \div Interval})
    BY DEF Tick, Refilled
  <2>2. age' \div Interval \in Nat
    <3>1. age' \in Nat
      BY <1>6
    <3> QED BY <1>1, <3>1, Quotient
  <2>3. tokens + age' \div Interval \in Int /\ Burst \in Int
    BY <1>1, <2>2
  <2> QED BY <2>1, <2>3, MinPair
<1>13. BucketFollows'
  <2>1. /\ free \in Nat /\ ideal + free >= Refilled /\ Asleep \subseteq limited
        /\ UNCHANGED <<limited, paid, free>>
    BY LimiterNumbers DEF Tick
  <2>2. ASSUME NEW c \in Asleep'
        PROVE  c \in Asleep /\ sleep'[c] = IF sleep[c] > 0 THEN sleep[c] - 1 ELSE sleep[c]
    BY <1>1 DEF Asleep, Tick, Awake
  <2>3. ideal' + free >= Refilled'
    BY <1>1, <1>3, <1>4, <1>8, <1>10, <1>11, <1>12, <2>1
  <2>4. ASSUME NEW c \in Overtaken' PROVE c \in Overtaken
    <3>1. /\ c \in Asleep /\ c \in Asleep' /\ c \in Callers /\ sleep[c] \in 0..Interval
          /\ age' + sleep'[c] < Interval
      BY <1>1, <2>2 DEF Overtaken, Asleep, Awake
    <3>2. age + 1 = full => age' >= Interval
      <4>1. Burst * Interval >= Interval
        BY <1>1
      <4> QED BY <1>1, <1>2, <1>5, <4>1
    <3>3. age' = age + 1 \/ age' >= Interval
      BY <1>5, <3>2
    <3>4. sleep'[c] \in Nat /\ sleep'[c] >= sleep[c] - 1
      BY <1>1, <2>2, <3>1
    <3>5. age + sleep[c] < Interval
      BY <1>1, <1>6, <3>1, <3>3, <3>4
    <3> QED BY <3>1, <3>5 DEF Overtaken
  <2>5. Overtaken' \subseteq Overtaken /\ Asleep' \subseteq limited
    BY <2>1, <2>2, <2>4
  <2> QED BY <2>1, <2>3, <2>5, WaitKeeps
<1> QED BY <1>9, <1>13 DEF LimiterInv

\* ... and nothing else touches the bucket.
LEMMA LimiterRests ==
  ASSUME LimiterInv, UNCHANGED limiter
  PROVE  LimiterInv'
  BY DEF LimiterInv, LimiterTypeOK, BucketFollows, Refilled, Overtaken, FreeRides, Asleep,
     limiter

-----------------------------------------------------------------------------
(* The clients of the MCP server.                                           *)

AllPcs  == McpPcs \cup {"limit", "asleep", "http", "backoff", "done"}
Results == {"none", "ok", "toolerror", "notfound", "error"}

McpInv ==
  /\ McpTypeOK /\ pc \in [Callers -> AllPcs]
  /\ ClientsKnown /\ ReadersHold /\ DecodersHeld /\ GivenUp /\ OwnResponse

\* A message that is read leaves the rest of the pipe, or all of it.
LEMMA RestOfPipe ==
  ASSUME NEW pipe \in Pipes
  PROVE  AfterHead(pipe) \in Pipes
  BY DEF AfterHead, Pipes

\* A step of a caller that has no part in the protocol with the server.
LEMMA QuietKeeps ==
  ASSUME McpInv, NEW c \in Callers, pc[c] # "read",
         NEW to \in AllPcs \ {"lock", "read", "recreate"},
         pc' = [pc EXCEPT ![c] = to],
         result' \in [Callers -> Results], expired' \in [Callers -> BOOLEAN],
         executed' \in [Callers -> Nat],
         UNCHANGED <<mine, again, cur, client, holder, registry, got, notices>>
  PROVE  McpInv'
<1>1. pc \in [Callers -> AllPcs] /\ pc' \in [Callers -> AllPcs]
  BY DEF McpInv
<1>2. \A d \in Callers : pc'[d] \in {"lock", "read", "recreate"} => pc'[d] = pc[d]
  BY <1>1
<1>3. McpTypeOK'
  BY <1>2 DEF McpInv, McpTypeOK, Results
<1>4. ClientsKnown' /\ OwnResponse' /\ DecodersHeld' /\ GivenUp'
  BY <1>2 DEF McpInv, ClientsKnown, OwnResponse, DecodersHeld, GivenUp, Sound
<1>5. ReadersHold'
  <2>1. ASSUME NEW g \in Gens, holder[g] # None
        PROVE  pc'[holder[g]] = "read" /\ mine[holder[g]] = g
    <3>1. holder[g] \in Callers /\ pc[holder[g]] = "read" /\ mine[holder[g]] = g
      BY <2>1 DEF McpInv, McpTypeOK, ReadersHold
    <3>2. holder[g] # c
      BY <3>1
    <3> QED BY <1>1, <3>1, <3>2
  <2> QED BY <1>2, <2>1 DEF McpInv, ReadersHold
<1> QED BY <1>1, <1>3, <1>4, <1>5 DEF McpInv

\* A caller gets the registered client, or the one that has replaced it.
LEMMA GetsCurrent ==
  ASSUME McpInv, NEW c \in Callers, pc[c] # "read", cur \in Gens,
         pc' = [pc EXCEPT ![c] = "lock"],
         mine' = [mine EXCEPT ![c] = cur],
         again' \in [Callers -> BOOLEAN],
         UNCHANGED <<result, expired, cur, client, holder, registry, executed, got, notices>>
  PROVE  McpInv'
<1>1. /\ pc \in [Callers -> AllPcs] /\ pc' \in [Callers -> AllPcs]
      /\ mine \in [Callers -> 0..MaxGen] /\ MaxGen \in Nat \ {0} /\ Gens = 1..MaxGen
  BY BoundsOK DEF McpInv, McpTypeOK, AllPcs, McpPcs, Gens
<1>2. mine' \in [Callers -> 0..MaxGen]
  BY <1>1
<1>3. \A d \in Callers : pc'[d] \in {"read", "recreate"} => d # c /\ pc'[d] = pc[d] /\ mine'[d] = mine[d]
  BY <1>1
<1>4. McpTypeOK'
  <2>1. \A d \in Callers : pc'[d] \in {"lock", "read", "recreate"} => mine'[d] \in Gens
    BY <1>1 DEF McpInv, McpTypeOK
  <2> QED BY <1>2, <2>1 DEF McpInv, McpTypeOK
<1>5. ClientsKnown'
  BY <1>1 DEF McpInv, ClientsKnown
<1>6. OwnResponse' /\ DecodersHeld' /\ GivenUp'
  BY <1>3 DEF McpInv, OwnResponse, DecodersHeld, GivenUp, Sound
<1>7. ReadersHold'
  <2>1. ASSUME NEW g \in Gens, holder[g] # None
        PROVE  pc'[holder[g]] = "read" /\ mine'[holder[g]] = g
    <3>1. holder[g] \in Callers /\ pc[holder[g]] = "read" /\ mine[holder[g]] = g
      BY <2>1 DEF McpInv, McpTypeOK, ReadersHold
    <3>2. holder[g] # c
      BY <3>1
    <3> QED BY <1>1, <3>1, <3>2
  <2> QED BY <1>3, <2>1 DEF McpInv, ReadersHold
<1> QED BY <1>1, <1>4, <1>5, <1>6, <1>7 DEF McpInv

\* The steps of a call through the pipe of a server: the client is looked up, ...
LEMMA GetKeeps ==
  ASSUME McpInv, NEW c \in Callers, Get(c)
  PROVE  McpInv'
<1>1. /\ pc \in [Callers -> AllPcs] /\ mine \in [Callers -> 0..MaxGen] /\ cur \in 0..MaxGen
      /\ pc[c] = "get" /\ again' \in [Callers -> BOOLEAN] /\ MaxGen \in Nat
  BY BoundsOK DEF McpInv, McpTypeOK, Get
<1>2. CASE cur = 0
  <2>1. /\ pc' = [pc EXCEPT ![c] = "result"]
        /\ result' = [result EXCEPT ![c] = "notfound"]
        /\ mine' = [mine EXCEPT ![c] = 0]
    BY <1>2 DEF Get, Returns
  <2>2. pc' \in [Callers -> AllPcs] /\ mine' \in [Callers -> 0..MaxGen]
    BY <1>1, <2>1 DEF AllPcs, McpPcs
  <2>3. \A d \in Callers : pc'[d] \in {"lock", "read", "recreate"} =>
                             d # c /\ pc'[d] = pc[d] /\ mine'[d] = mine[d]
    BY <1>1, <2>1
  <2>4. McpTypeOK'
    BY <1>1, <2>1, <2>2, <2>3 DEF McpInv, McpTypeOK, Get
  <2>5. ClientsKnown' /\ OwnResponse' /\ DecodersHeld' /\ GivenUp'
    BY <1>1, <1>2, <2>1, <2>2, <2>3 DEF McpInv, McpTypeOK, ClientsKnown, OwnResponse, DecodersHeld,
       GivenUp, Sound, Get
  <2>6. ReadersHold'
    <3>1. ASSUME NEW g \in Gens, holder[g] # None
          PROVE  pc'[holder[g]] = "read" /\ mine'[holder[g]] = g
      <4>1. holder[g] \in Callers /\ pc[holder[g]] = "read" /\ mine[holder[g]] = g
        BY <3>1 DEF McpInv, McpTypeOK, ReadersHold
      <4>2. holder[g] # c
        BY <1>1, <4>1
      <4> QED BY <1>1, <2>1, <4>1, <4>2
    <3>2. UNCHANGED <<client, holder>>
      BY DEF Get
    <3> QED BY <2>3, <3>1, <3>2 DEF McpInv, ReadersHold
  <2> QED BY <2>2, <2>4, <2>5, <2>6 DEF McpInv
<1>3. CASE cur # 0
  <2>1. /\ pc' = [pc EXCEPT ![c] = "lock"] /\ cur \in Gens
        /\ mine' = [mine EXCEPT ![c] = cur]
        /\ UNCHANGED <<result, expired, cur, client, holder, registry, executed, got, notices>>
    BY <1>1, <1>3 DEF Get, Goes, Gens
  <2> QED BY <1>1, <2>1, GetsCurrent
<1> QED BY <1>2, <1>3

\* ... a fresh one is found where a stale one was, ...
LEMMA UseFreshKeeps ==
  ASSUME McpInv, NEW c \in Callers, UseFresh(c)
  PROVE  McpInv'
<1>1. /\ pc[c] = "recreate" /\ cur \in 0..MaxGen /\ mine[c] \in Gens /\ mine[c] <= cur
      /\ mine' = [mine EXCEPT ![c] = cur] /\ again' \in [Callers -> BOOLEAN]
      /\ MaxGen \in Nat
  BY BoundsOK DEF McpInv, McpTypeOK, ClientsKnown, UseFresh
<1>2. cur \in Gens
  BY <1>1 DEF Gens
<1>3. pc' = [pc EXCEPT ![c] = "lock"] /\ UNCHANGED result
  BY DEF UseFresh, Goes
<1> QED BY <1>1, <1>2, <1>3, GetsCurrent DEF UseFresh

\* A caller stops with the client it has.
LEMMA ReturnsKeeps ==
  ASSUME McpInv, NEW c \in Callers, pc[c] # "read",
         NEW r \in Results, Returns(c, r), registry' \in Callers \cup {None},
         UNCHANGED <<expired, mine, again, cur, client, holder, executed, got, notices>>
  PROVE  McpInv'
<1>1. /\ pc \in [Callers -> AllPcs] /\ pc' = [pc EXCEPT ![c] = "result"]
      /\ result' = [result EXCEPT ![c] = r] /\ result \in [Callers -> Results]
  BY DEF McpInv, McpTypeOK, Returns, Results
<1>2. pc' \in [Callers -> AllPcs] /\ result' \in [Callers -> Results]
  BY <1>1 DEF AllPcs, McpPcs
<1>3. \A d \in Callers : pc'[d] \in {"lock", "read", "recreate"} => d # c /\ pc'[d] = pc[d]
  BY <1>1
<1>4. McpTypeOK'
  BY <1>2, <1>3 DEF McpInv, McpTypeOK, Results
<1>5. ClientsKnown' /\ OwnResponse' /\ DecodersHeld' /\ GivenUp'
  BY <1>3 DEF McpInv, ClientsKnown, OwnResponse, DecodersHeld, GivenUp, Sound
<1>6. ReadersHold'
  <2>1. ASSUME NEW g \in Gens, holder[g] # None
        PROVE  pc'[holder[g]] = "read" /\ mine[holder[g]] = g
    <3>1. holder[g] \in Callers /\ pc[holder[g]] = "read" /\ mine[holder[g]] = g
      BY <2>1 DEF McpInv, McpTypeOK, ReadersHold
    <3>2. holder[g] # c
      BY <3>1
    <3> QED BY <1>1, <3>1, <3>2
  <2> QED BY <1>3, <2>1 DEF McpInv, ReadersHold
<1> QED BY <1>2, <1>4, <1>5, <1>6 DEF McpInv

\* ... the mutex is taken and the request written, ...
LEMMA SendKeeps ==
  ASSUME McpInv, NEW c \in Callers, Send(c)
  PROVE  McpInv'
<1> DEFINE g == mine[c]
           id == Len(client[g].owners) + 1
           u == [client[g] EXCEPT !.owners = Append(@, c), !.asked = @ \cup {id},
                                  !.decoders = @ + 1]
<1>1. /\ pc \in [Callers -> AllPcs] /\ pc[c] = "lock" /\ g \in Gens /\ holder[g] = None
      /\ client \in [Gens -> Clients] /\ client[g] \in Clients
      /\ holder \in [Gens -> Callers \cup {None}] /\ None \notin Callers
      /\ mine \in [Callers -> 0..MaxGen] /\ registry \in Callers \cup {None}
      /\ UNCHANGED <<expired, mine, again, cur, registry, executed, got, notices>>
  BY NoCaller DEF McpInv, McpTypeOK, Send
<1>2. CASE CallReturns(c, "error") /\ UNCHANGED <<client, holder>>
  <2>1. Returns(c, "error") /\ "error" \in Results
    BY <1>2 DEF CallReturns, Results
  <2> QED BY <1>1, <1>2, <2>1, ReturnsKeeps
<1>3. CASE ~Sound(g) /\ CallReturns(c, "poisoned") /\ UNCHANGED <<client, holder>>
  <2>1. CASE again[c]
    <3>1. Returns(c, "error") /\ "error" \in Results
      BY <1>3, <2>1 DEF CallReturns, Results
    <3> QED BY <1>1, <1>3, <3>1, ReturnsKeeps
  <2>2. CASE ~again[c]
    <3>1. pc' = [pc EXCEPT ![c] = "recreate"] /\ UNCHANGED result
      BY <1>3, <2>2 DEF CallReturns, Goes
    <3>2. pc' \in [Callers -> AllPcs]
      BY <1>1, <3>1 DEF AllPcs, McpPcs
    <3>3. /\ pc'[c] = "recreate"
          /\ \A d \in Callers : d # c => pc'[d] = pc[d]
      BY <1>1, <3>1
    <3>4. McpTypeOK'
      <4>1. \A d \in Callers : pc'[d] \in {"lock", "read", "recreate"} => mine[d] \in Gens
        BY <1>1, <3>3 DEF McpInv, McpTypeOK
      <4> QED BY <1>1, <1>3, <3>1, <4>1 DEF McpInv, McpTypeOK
    <3>5. ClientsKnown' /\ OwnResponse' /\ DecodersHeld'
      BY <1>1, <1>3 DEF McpInv, ClientsKnown, OwnResponse, DecodersHeld, Sound
    <3>6. GivenUp'
      BY <1>1, <1>3, <3>3 DEF McpInv, GivenUp, Sound
    <3>7. ReadersHold'
      <4>1. ASSUME NEW h \in Gens, holder[h] # None
            PROVE  pc'[holder[h]] = "read" /\ mine[holder[h]] = h
        <5>1. holder[h] \in Callers /\ pc[holder[h]] = "read" /\ mine[holder[h]] = h
          BY <1>1, <4>1 DEF McpInv, ReadersHold
        <5>2. holder[h] # c
          BY <1>1, <5>1
        <5> QED BY <3>3, <5>1, <5>2
      <4>2. \A d \in Callers : pc'[d] = "read" => pc[d] = "read"
        BY <3>3
      <4> QED BY <1>1, <1>3, <4>1, <4>2 DEF McpInv, ReadersHold
    <3> QED BY <3>2, <3>4, <3>5, <3>6, <3>7 DEF McpInv
  <2> QED BY <2>1, <2>2
<1>4. CASE /\ Sound(g)
           /\ client' = [client EXCEPT ![g].owners = Append(@, c),
                                       ![g].asked = @ \cup {id},
                                       ![g].decoders = @ + 1]
           /\ holder' = [holder EXCEPT ![g] = c]
           /\ Goes(c, "read")
  <2>1. client' = [client EXCEPT ![g] = u]
    BY <1>1, <1>4
  <2>2. /\ client[g].owners \in Seq(Callers) /\ client[g].asked \in SUBSET Nat
        /\ client[g].decoders \in Nat /\ client[g].pipe \in Pipes
        /\ client[g].poisoned \in BOOLEAN /\ client[g].alive \in BOOLEAN
    BY <1>1 DEF Clients
  <2>3. /\ Append(client[g].owners, c) \in Seq(Callers)
        /\ Len(Append(client[g].owners, c)) = id /\ id \in Nat
        /\ Append(client[g].owners, c)[id] = c
        /\ DOMAIN client[g].owners = 1..id - 1
        /\ DOMAIN Append(client[g].owners, c) = 1..id
    BY <2>2
  <2>4. /\ u.owners = Append(client[g].owners, c)
        /\ u.asked = client[g].asked \cup {id}
        /\ u.decoders = client[g].decoders + 1
        /\ u.poisoned = client[g].poisoned
        /\ u.pipe = client[g].pipe /\ u.alive = client[g].alive
    BY <1>1 DEF Clients
  <2>5. u \in Clients
    <3>1. u.owners \in Seq(Callers) /\ u.asked \in SUBSET Nat /\ u.decoders \in Nat
      BY <2>2, <2>3, <2>4
    <3> HIDE DEF id
    <3> QED BY <1>1, <3>1 DEF Clients
  <2> HIDE DEF u, g, id
  <2>6. /\ client' \in [Gens -> Clients] /\ client'[g] = u
        /\ \A h \in Gens : h # g => client'[h] = client[h]
    BY <1>1, <2>1, <2>5
  <2>7. /\ pc' = [pc EXCEPT ![c] = "read"] /\ UNCHANGED result
        /\ pc' \in [Callers -> AllPcs] /\ pc'[c] = "read"
        /\ \A d \in Callers : d # c => pc'[d] = pc[d]
    BY <1>1, <1>4 DEF Goes, AllPcs, McpPcs
  <2>8. /\ holder' \in [Gens -> Callers \cup {None}] /\ holder'[g] = c
        /\ \A h \in Gens : h # g => holder'[h] = holder[h]
    BY <1>1, <1>4
  <2>9. McpTypeOK'
    <3>1. \A d \in Callers : pc'[d] \in {"lock", "read", "recreate"} => mine[d] \in Gens
      BY <1>1, <2>7 DEF McpInv, McpTypeOK
    <3> QED BY <1>1, <2>6, <2>7, <2>8, <3>1 DEF McpInv, McpTypeOK
  <2>10. ClientsKnown'
    <3>1. u.asked \subseteq DOMAIN u.owners
      BY <1>1, <2>3, <2>4 DEF McpInv, ClientsKnown
    <3> QED BY <1>1, <2>6, <3>1 DEF McpInv, ClientsKnown
  <2>11. ReadersHold'
    <3>1. ASSUME NEW h \in Gens, holder'[h] # None
          PROVE  pc'[holder'[h]] = "read" /\ mine[holder'[h]] = h
      <4>1. CASE h = g
        BY <2>7, <2>8, <4>1 DEF g
      <4>2. CASE h # g
        <5>1. /\ holder'[h] = holder[h] /\ holder[h] \in Callers
              /\ pc[holder[h]] = "read" /\ mine[holder[h]] = h
          BY <1>1, <2>8, <3>1, <4>2 DEF McpInv, ReadersHold
        <5> QED BY <1>1, <2>7, <5>1
      <4> QED BY <4>1, <4>2
    <3>2. ASSUME NEW d \in Callers, pc'[d] = "read"
          PROVE  LET owners == client'[mine[d]].owners IN
                 holder'[mine[d]] = d /\ owners # <<>> /\ owners[Len(owners)] = d
      <4>1. CASE d = c
        <5>1. client'[mine[d]].owners = Append(client[g].owners, c) /\ holder'[mine[d]] = c
          BY <2>4, <2>6, <2>8, <4>1 DEF g
        <5>2. Append(client[g].owners, c) # <<>>
          BY <2>2
        <5> QED BY <2>3, <4>1, <5>1, <5>2
      <4>2. CASE d # c
        <5>1. pc[d] = "read" /\ mine[d] \in Gens /\ holder[mine[d]] = d
          BY <2>7, <3>2, <4>2 DEF McpInv, McpTypeOK, ReadersHold
        <5>2. mine[d] # g
          BY <1>1, <5>1
        <5>3. client'[mine[d]] = client[mine[d]] /\ holder'[mine[d]] = d
          BY <2>6, <2>8, <5>1, <5>2
        <5> QED BY <5>1, <5>3 DEF McpInv, ReadersHold
      <4> QED BY <4>1, <4>2
    <3> QED BY <1>1, <3>1, <3>2 DEF ReadersHold
  <2>12. DecodersHeld'
    <3>1. client[g].decoders = 0
      BY <1>1, <1>4, <2>2 DEF McpInv, DecodersHeld
    <3>2. u.decoders = 1
      BY <2>4, <3>1
    <3> QED BY <1>1, <2>6, <2>8, <3>2 DEF McpInv, DecodersHeld, Sound
  <2>13. GivenUp'
    <3>1. \A d \in Callers : pc'[d] = "recreate" => pc[d] = "recreate" /\ mine[d] \in Gens
      BY <2>7 DEF McpInv, McpTypeOK
    <3> QED BY <1>1, <2>4, <2>6, <3>1 DEF McpInv, GivenUp
  <2>14. OwnResponse'
    BY <1>1 DEF McpInv, OwnResponse
  <2> QED BY <2>7, <2>9, <2>10, <2>11, <2>12, <2>13, <2>14 DEF McpInv
<1> QED BY <1>2, <1>3, <1>4 DEF Send

\* The holder of a client lets it go, with a result or an error.
LEMMA ReleaseKeeps ==
  ASSUME McpInv, NEW c \in Callers, pc[c] = "read",
         NEW r \in Results, Returns(c, r),
         NEW u \in Clients,
         client' = [client EXCEPT ![mine[c]] = u],
         u.owners = client[mine[c]].owners, u.asked = client[mine[c]].asked,
         client[mine[c]].poisoned => u.poisoned,
         u.decoders = 0 \/ (u.decoders = 1 /\ u.poisoned),
         holder' = [holder EXCEPT ![mine[c]] = None],
         got' \in [Callers -> Callers \cup {None}],
         \A d \in Callers : got'[d] \in {d, None},
         UNCHANGED <<expired, mine, again, cur, registry, executed, notices>>
  PROVE  McpInv'
<1> DEFINE g == mine[c]
<1>1. /\ pc \in [Callers -> AllPcs] /\ g \in Gens /\ holder[g] = c
      /\ client \in [Gens -> Clients] /\ holder \in [Gens -> Callers \cup {None}]
      /\ None \notin Callers
  BY NoCaller DEF McpInv, McpTypeOK, ReadersHold
<1>2. /\ pc' = [pc EXCEPT ![c] = "result"] /\ result' = [result EXCEPT ![c] = r]
      /\ pc' \in [Callers -> AllPcs] /\ pc'[c] = "result"
      /\ \A d \in Callers : d # c => pc'[d] = pc[d]
  BY <1>1 DEF Returns, AllPcs, McpPcs
<1> HIDE DEF g
<1>3. /\ client' \in [Gens -> Clients] /\ client'[g] = u
      /\ \A h \in Gens : h # g => client'[h] = client[h]
  BY <1>1 DEF g
<1>4. /\ holder' \in [Gens -> Callers \cup {None}] /\ holder'[g] = None
      /\ \A h \in Gens : h # g => holder'[h] = holder[h]
  BY <1>1 DEF g
<1>5. McpTypeOK'
  <2>1. \A d \in Callers : pc'[d] \in {"lock", "read", "recreate"} => mine[d] \in Gens
    BY <1>2 DEF McpInv, McpTypeOK
  <2>2. result' \in [Callers -> {"none", "ok", "toolerror", "notfound", "error"}]
    BY <1>2 DEF McpInv, McpTypeOK, Results
  <2> QED BY <1>3, <1>4, <2>1, <2>2 DEF McpInv, McpTypeOK
<1>6. ClientsKnown'
  BY <1>1, <1>3 DEF McpInv, ClientsKnown, g
<1>7. ReadersHold'
  <2>1. ASSUME NEW h \in Gens, holder'[h] # None
        PROVE  pc'[holder'[h]] = "read" /\ mine[holder'[h]] = h
    <3>1. /\ h # g /\ holder'[h] = holder[h] /\ holder[h] \in Callers
          /\ pc[holder[h]] = "read" /\ mine[holder[h]] = h
      BY <1>1, <1>4, <2>1 DEF McpInv, ReadersHold
    <3>2. holder[h] # c
      BY <3>1 DEF g
    <3> QED BY <1>2, <3>1, <3>2
  <2>2. ASSUME NEW d \in Callers, pc'[d] = "read"
        PROVE  LET owners == client'[mine[d]].owners IN
               holder'[mine[d]] = d /\ owners # <<>> /\ owners[Len(owners)] = d
    <3>1. d # c /\ pc[d] = "read" /\ mine[d] \in Gens /\ holder[mine[d]] = d
      BY <1>2, <2>2 DEF McpInv, McpTypeOK, ReadersHold
    <3>2. mine[d] # g
      BY <1>1, <3>1
    <3>3. client'[mine[d]] = client[mine[d]] /\ holder'[mine[d]] = d
      BY <1>3, <1>4, <3>1, <3>2
    <3> QED BY <3>1, <3>3 DEF McpInv, ReadersHold
  <2> QED BY <2>1, <2>2 DEF ReadersHold
<1>8. DecodersHeld'
  BY <1>1, <1>3, <1>4 DEF McpInv, DecodersHeld, Sound
<1>9. GivenUp'
  <2>1. \A d \in Callers : pc'[d] = "recreate" => pc[d] = "recreate" /\ mine[d] \in Gens
    BY <1>2 DEF McpInv, McpTypeOK
  <2> QED BY <1>1, <1>3, <2>1 DEF McpInv, GivenUp, g
<1>10. OwnResponse'
  BY DEF OwnResponse
<1> QED BY <1>2, <1>5, <1>6, <1>7, <1>8, <1>9, <1>10 DEF McpInv

\* What a caller that reads knows of its client: it has the mutex and the decoder.
LEMMA ReadingClient ==
  ASSUME McpInv, NEW c \in Callers, pc[c] = "read"
  PROVE  /\ mine[c] \in Gens /\ client \in [Gens -> Clients]
         /\ holder[mine[c]] = c /\ c # None
         /\ client[mine[c]] \in Clients
         /\ client[mine[c]].decoders = 1
         /\ client[mine[c]].owners \in Seq(Callers)
         /\ client[mine[c]].owners[Len(client[mine[c]].owners)] = c
         /\ client[mine[c]].pipe \in Pipes
<1>1. /\ mine[c] \in Gens /\ holder[mine[c]] = c /\ c # None
      /\ client \in [Gens -> Clients] /\ client[mine[c]] \in Clients
      /\ client[mine[c]].owners[Len(client[mine[c]].owners)] = c
  BY NoCaller DEF McpInv, McpTypeOK, ReadersHold
<1>2. client[mine[c]].decoders = 1
  BY <1>1 DEF McpInv, DecodersHeld
<1> QED BY <1>1, <1>2 DEF Clients

\* It reads an answer, ...
LEMMA ReceiveKeeps ==
  ASSUME McpInv, NEW c \in Callers, Receive(c)
  PROVE  McpInv'
<1> DEFINE g == mine[c]
           id == Head(client[g].pipe)
           u == [client[g] EXCEPT !.pipe = AfterHead(@), !.decoders = @ - 1]
<1>1. /\ pc[c] = "read" /\ g \in Gens /\ client[g] \in Clients /\ client[g].decoders = 1
      /\ client \in [Gens -> Clients] /\ client[g].pipe # <<>>
      /\ client[g].pipe \in Pipes
      /\ client[g].owners[Len(client[g].owners)] = c
      /\ UNCHANGED <<expired, mine, again, cur, registry, executed, notices>>
      /\ holder' = [holder EXCEPT ![g] = None]
  BY ReadingClient DEF Receive
<1>2. client' = [client EXCEPT ![g] = u]
  BY <1>1 DEF Receive
<1>3. AfterHead(client[g].pipe) \in Pipes
  BY <1>1, RestOfPipe
<1>4. /\ u \in Clients /\ u.owners = client[g].owners /\ u.asked = client[g].asked
      /\ client[g].poisoned => u.poisoned
      /\ u.decoders = 0 \/ (u.decoders = 1 /\ u.poisoned)
  <2>1. /\ u.owners = client[g].owners /\ u.asked = client[g].asked
        /\ u.decoders = client[g].decoders - 1
        /\ client[g].poisoned => u.poisoned
    BY <1>1 DEF Clients
  <2>2. u.decoders = 0 /\ client[g].decoders - 1 \in Nat
    BY <1>1, <2>1
  <2>3. u \in Clients
    BY <1>1, <1>3, <2>2 DEF Clients
  <2> QED BY <2>1, <2>2, <2>3
<1>5. /\ got' \in [Callers -> Callers \cup {None}]
      /\ \A d \in Callers : got'[d] \in {d, None}
  <2>1. got \in [Callers -> Callers \cup {None}] /\ \A d \in Callers : got[d] \in {d, None}
    BY DEF McpInv, McpTypeOK, OwnResponse
  <2>2. CASE Answers(c, id)
    <3>1. client[g].owners[id] = c /\ got' = [got EXCEPT ![c] = client[g].owners[id]]
      BY <1>1, <2>2 DEF Receive, Answers, RequestOf
    <3> QED BY <2>1, <3>1
  <2>3. CASE ~Answers(c, id)
    BY <2>1, <2>3 DEF Receive
  <2> QED BY <2>2, <2>3
<1>6. \E r \in Results : Returns(c, r)
  <2>1. \E r \in {"ok", "toolerror", "error"} : CallReturns(c, r)
    BY DEF Receive
  <2> QED BY <2>1 DEF CallReturns, Results
<1> HIDE DEF u
<1> QED BY <1>1, <1>2, <1>4, <1>5, <1>6, ReleaseKeeps

\* ... or the end of the pipe, ...
LEMMA ReceiveEofKeeps ==
  ASSUME McpInv, NEW c \in Callers, ReceiveEof(c)
  PROVE  McpInv'
<1> DEFINE g == mine[c]
           u == [client[g] EXCEPT !.decoders = @ - 1]
<1>1. /\ pc[c] = "read" /\ g \in Gens /\ client[g] \in Clients /\ client[g].decoders = 1
      /\ client \in [Gens -> Clients]
      /\ UNCHANGED <<expired, mine, again, cur, registry, executed, got, notices>>
      /\ holder' = [holder EXCEPT ![g] = None]
  BY ReadingClient DEF ReceiveEof
<1>2. client' = [client EXCEPT ![g] = u]
  BY <1>1 DEF ReceiveEof
<1>3. /\ u \in Clients /\ u.owners = client[g].owners /\ u.asked = client[g].asked
      /\ client[g].poisoned => u.poisoned
      /\ u.decoders = 0 \/ (u.decoders = 1 /\ u.poisoned)
  <2>1. /\ u.owners = client[g].owners /\ u.asked = client[g].asked
        /\ u.decoders = client[g].decoders - 1
        /\ client[g].poisoned => u.poisoned
    BY <1>1 DEF Clients
  <2>2. u.decoders = 0 /\ client[g].decoders - 1 \in Nat
    BY <1>1, <2>1
  <2>3. u \in Clients
    BY <1>1, <2>2 DEF Clients
  <2> QED BY <2>1, <2>2, <2>3
<1>4. /\ got' \in [Callers -> Callers \cup {None}]
      /\ \A d \in Callers : got'[d] \in {d, None}
  BY <1>1 DEF McpInv, McpTypeOK, OwnResponse
<1>5. Returns(c, "error") /\ "error" \in Results
  BY DEF ReceiveEof, CallReturns, Results
<1> HIDE DEF u
<1> QED BY <1>1, <1>2, <1>3, <1>4, <1>5, ReleaseKeeps

\* ... or gives up, and leaves its decoder in a client that it poisons.
LEMMA GiveUpKeeps ==
  ASSUME McpInv, NEW c \in Callers, GiveUp(c)
  PROVE  McpInv'
<1> DEFINE g == mine[c]
           u == [client[g] EXCEPT !.poisoned = TRUE]
<1>1. /\ pc[c] = "read" /\ g \in Gens /\ client[g] \in Clients /\ client[g].decoders = 1
      /\ client \in [Gens -> Clients]
      /\ UNCHANGED <<expired, mine, again, cur, registry, executed, got, notices>>
      /\ holder' = [holder EXCEPT ![g] = None]
  BY ReadingClient DEF GiveUp
<1>2. client' = [client EXCEPT ![g] = u]
  BY <1>1 DEF GiveUp
<1>3. /\ u \in Clients /\ u.owners = client[g].owners /\ u.asked = client[g].asked
      /\ u.poisoned /\ u.decoders = 1
  BY <1>1 DEF Clients
<1>4. /\ got' \in [Callers -> Callers \cup {None}]
      /\ \A d \in Callers : got'[d] \in {d, None}
  BY <1>1 DEF McpInv, McpTypeOK, OwnResponse
<1>5. Returns(c, "error") /\ "error" \in Results
  BY DEF GiveUp, CallReturns, Results
<1> HIDE DEF u
<1> QED BY <1>1, <1>2, <1>3, <1>4, <1>5, ReleaseKeeps

\* The server, a leftover decoder or a restart touches a client; no request is
\* made, and nobody's hold on a client changes.
LEMMA TouchedKeeps ==
  ASSUME McpInv, NEW g \in Gens, NEW u \in Clients,
         client' = [client EXCEPT ![g] = u],
         u.owners = client[g].owners, u.asked \subseteq client[g].asked,
         client[g].poisoned <=> u.poisoned,
         \/ u.decoders = client[g].decoders
         \/ u.decoders = 0 /\ holder[g] = None,
         pc' \in [Callers -> AllPcs],
         \A d \in Callers : pc'[d] = pc[d] \/ (pc[d] # "read" /\ pc'[d] = "starting"),
         registry' \in Callers \cup {None}, executed' \in [Callers -> Nat],
         notices' \in 0..MaxNotices,
         UNCHANGED <<result, expired, mine, again, cur, holder, got>>
  PROVE  McpInv'
<1>1. /\ client \in [Gens -> Clients] /\ holder \in [Gens -> Callers \cup {None}]
  BY DEF McpInv, McpTypeOK
<1>2. /\ client' \in [Gens -> Clients] /\ client'[g] = u
      /\ \A h \in Gens : h # g => client'[h] = client[h]
  BY <1>1
<1>3. \A d \in Callers : pc'[d] \in {"lock", "read", "recreate"} => pc'[d] = pc[d]
  OBVIOUS
<1>4. McpTypeOK'
  BY <1>2, <1>3 DEF McpInv, McpTypeOK
<1>5. ClientsKnown'
  BY <1>1, <1>2 DEF McpInv, ClientsKnown
<1>6. ReadersHold'
  <2>1. ASSUME NEW h \in Gens, holder[h] # None
        PROVE  pc'[holder[h]] = "read" /\ mine[holder[h]] = h
    <3>1. holder[h] \in Callers /\ pc[holder[h]] = "read" /\ mine[holder[h]] = h
      BY <1>1, <2>1 DEF McpInv, ReadersHold
    <3> QED BY <3>1
  <2>2. ASSUME NEW d \in Callers, pc'[d] = "read"
        PROVE  LET owners == client'[mine[d]].owners IN
               holder[mine[d]] = d /\ owners # <<>> /\ owners[Len(owners)] = d
    <3>1. pc[d] = "read" /\ mine[d] \in Gens
      BY <1>3, <2>2 DEF McpInv, McpTypeOK
    <3>2. client'[mine[d]].owners = client[mine[d]].owners
      BY <1>2, <3>1
    <3> QED BY <3>1, <3>2 DEF McpInv, ReadersHold
  <2> QED BY <2>1, <2>2 DEF ReadersHold
<1>7. DecodersHeld'
  <2>1. ASSUME NEW h \in Gens
        PROVE  /\ client'[h].decoders <= 1
               /\ holder[h] # None => client'[h].decoders = 1
               /\ holder[h] = None /\ ~client'[h].poisoned => client'[h].decoders = 0
    <3>1. /\ client[h].decoders <= 1
          /\ holder[h] # None => client[h].decoders = 1
          /\ holder[h] = None /\ ~client[h].poisoned => client[h].decoders = 0
      BY DEF McpInv, DecodersHeld, Sound
    <3>2. CASE h # g
      BY <1>2, <3>1, <3>2
    <3>3. CASE h = g /\ u.decoders = client[g].decoders
      BY <1>2, <3>1, <3>3
    <3>4. CASE h = g /\ u.decoders = 0 /\ holder[g] = None
      BY <1>2, <3>1, <3>4
    <3> QED BY <3>2, <3>3, <3>4
  <2> QED BY <2>1 DEF DecodersHeld, Sound
<1>8. GivenUp'
  <2>1. ASSUME NEW d \in Callers, pc'[d] = "recreate"
        PROVE  client'[mine[d]].poisoned
    <3>1. pc[d] = "recreate" /\ mine[d] \in Gens
      BY <1>3, <2>1 DEF McpInv, McpTypeOK
    <3>2. client[mine[d]].poisoned
      BY <3>1 DEF McpInv, GivenUp
    <3> QED BY <1>2, <3>1, <3>2
  <2> QED BY <2>1 DEF GivenUp
<1>9. OwnResponse'
  BY DEF McpInv, OwnResponse
<1> QED BY <1>4, <1>5, <1>6, <1>7, <1>8, <1>9 DEF McpInv

\* The parts of a client.
LEMMA ClientFields ==
  ASSUME McpInv, NEW g \in Gens
  PROVE  /\ client \in [Gens -> Clients] /\ client[g] \in Clients
         /\ client[g].owners \in Seq(Callers) /\ client[g].asked \in SUBSET Nat
         /\ client[g].pipe \in Pipes /\ client[g].decoders \in 0..1
         /\ client[g].asked \subseteq DOMAIN client[g].owners
         /\ holder[g] # None => client[g].decoders = 1
<1>1. client \in [Gens -> Clients] /\ client[g] \in Clients
  BY DEF McpInv, McpTypeOK
<1>2. /\ client[g].decoders <= 1
      /\ holder[g] # None => client[g].decoders = 1
      /\ client[g].asked \subseteq DOMAIN client[g].owners
  BY DEF McpInv, DecodersHeld, ClientsKnown
<1>3. /\ client[g].owners \in Seq(Callers) /\ client[g].asked \in SUBSET Nat
      /\ client[g].pipe \in Pipes /\ client[g].decoders \in Nat
  BY <1>1 DEF Clients
<1> QED BY <1>1, <1>2, <1>3

\* The stale client is closed before the next one starts; ...
LEMMA CloseStaleKeeps ==
  ASSUME McpInv, NEW c \in Callers, CloseStale(c)
  PROVE  McpInv'
<1> DEFINE u == [client[cur] EXCEPT !.alive = FALSE]
<1>1. /\ pc \in [Callers -> AllPcs] /\ pc[c] = "recreate" /\ cur = mine[c] /\ cur \in Gens
      /\ executed \in [Callers -> Nat] /\ notices \in 0..MaxNotices
  BY DEF McpInv, McpTypeOK, CloseStale, StillStale
<1>2. client[cur] \in Clients /\ client \in [Gens -> Clients]
  BY <1>1, ClientFields
<1>3. client' = [client EXCEPT ![cur] = u]
  BY <1>2 DEF CloseStale
<1>4. /\ u \in Clients /\ u.owners = client[cur].owners /\ u.asked \subseteq client[cur].asked
      /\ client[cur].poisoned <=> u.poisoned
      /\ u.decoders = client[cur].decoders
  BY <1>2 DEF Clients
<1>5. pc' = [pc EXCEPT ![c] = "starting"] /\ UNCHANGED result
  BY DEF CloseStale, Goes
<1>6. /\ pc' \in [Callers -> AllPcs]
      /\ \A d \in Callers : pc'[d] = pc[d] \/ (pc[d] # "read" /\ pc'[d] = "starting")
  BY <1>1, <1>5 DEF AllPcs, McpPcs
<1>7. /\ registry' \in Callers \cup {None}
      /\ UNCHANGED <<expired, mine, again, cur, holder, executed, got, notices>>
  BY DEF CloseStale
<1> HIDE DEF u
<1> QED BY <1>1, <1>3, <1>4, <1>5, <1>6, <1>7, TouchedKeeps

\* ... the next one may not start.
LEMMA StartFailsKeeps ==
  ASSUME McpInv, NEW c \in Callers, StartFails(c)
  PROVE  McpInv'
<1>1. Returns(c, "error") /\ "error" \in Results /\ pc[c] # "read"
      /\ registry' \in Callers \cup {None}
  BY DEF StartFails, Results
<1> QED BY <1>1, ReturnsKeeps DEF StartFails

\* A client that was just started has no requests and no decoder, ...
LEMMA FreshClient ==
  /\ Fresh \in Clients /\ Fresh.asked = {} /\ Fresh.owners = <<>>
  /\ Fresh.poisoned = FALSE /\ Fresh.decoders = 0
<1>1. <<>> \in Seq(Callers) /\ <<>> \in Pipes /\ {} \in SUBSET Nat
  BY DEF Pipes
<1> QED BY <1>1 DEF Fresh, Clients

\* ... but when its start was cut short by a deadline, it is poisoned.
LEMMA BornClient ==
  ASSUME NEW poisoned \in BOOLEAN
  PROVE  /\ Born(poisoned) \in Clients
         /\ Born(poisoned).asked = {} /\ Born(poisoned).owners = <<>>
         /\ Born(poisoned).poisoned <=> poisoned
         /\ Born(poisoned).decoders = IF poisoned THEN 1 ELSE 0
<1> DEFINE n == IF poisoned THEN 1 ELSE 0
<1>1. Born(poisoned) = [Fresh EXCEPT !.poisoned = poisoned, !.decoders = n] /\ n \in Nat
  BY DEF Born
<1> HIDE DEF n
<1>2. Born(poisoned) \in Clients
  BY <1>1, FreshClient DEF Clients
<1>3. /\ Born(poisoned).asked = {} /\ Born(poisoned).owners = <<>>
      /\ Born(poisoned).decoders = n
  BY <1>1, FreshClient DEF Clients
<1>4. Born(poisoned).poisoned <=> poisoned
  BY <1>1, FreshClient DEF Clients
<1> QED BY <1>2, <1>3, <1>4 DEF n

\* A new client takes a number no caller has.
LEMMA StartClientKeeps ==
  ASSUME McpInv, NEW c \in Callers, StartClient(c)
  PROVE  McpInv'
<1> DEFINE g == cur + 1
<1>1. /\ pc \in [Callers -> AllPcs] /\ pc[c] = "starting"
      /\ mine \in [Callers -> 0..MaxGen] /\ cur \in Nat /\ g \in Gens /\ MaxGen \in Nat
      /\ client \in [Gens -> Clients] /\ holder \in [Gens -> Callers \cup {None}]
      /\ expired[c] \in BOOLEAN /\ again \in [Callers -> BOOLEAN]
      /\ None \notin Callers
      /\ UNCHANGED <<expired, holder, executed, got, notices>>
      /\ cur' = g /\ registry' = None
      /\ mine' = [mine EXCEPT ![c] = g] /\ again' = [again EXCEPT ![c] = TRUE]
  BY BoundsOK, NoCaller DEF McpInv, McpTypeOK, StartClient, Gens
<1>2. pc' = [pc EXCEPT ![c] = "lock"] /\ UNCHANGED result
  BY DEF StartClient, Goes
<1>3. PICK poisoned \in BOOLEAN : client' = [client EXCEPT ![g] = Born(poisoned)]
  BY <1>1 DEF StartClient
<1> DEFINE u == Born(poisoned)
<1>4. /\ u \in Clients /\ u.asked = {} /\ u.owners = <<>>
      /\ u.poisoned <=> poisoned
      /\ u.decoders = IF poisoned THEN 1 ELSE 0
  BY BornClient
<1> HIDE DEF u
<1>5. \A d \in Callers : mine[d] <= cur /\ mine[d] \in Nat /\ mine[d] # g
  BY <1>1 DEF McpInv, ClientsKnown
<1> HIDE DEF g
<1>6. /\ client' \in [Gens -> Clients] /\ client'[g] = u
      /\ \A h \in Gens : h # g => client'[h] = client[h]
  BY <1>1, <1>3, <1>4 DEF u
<1>7. /\ pc' \in [Callers -> AllPcs] /\ pc'[c] = "lock"
      /\ \A d \in Callers : d # c => pc'[d] = pc[d]
      /\ mine'[c] = g
      /\ \A d \in Callers : d # c => mine'[d] = mine[d]
  BY <1>1, <1>2 DEF AllPcs, McpPcs
<1>8. McpTypeOK'
  <2>1. \A d \in Callers : pc'[d] \in {"lock", "read", "recreate"} => mine'[d] \in Gens
    BY <1>1, <1>7 DEF McpInv, McpTypeOK
  <2>2. mine' \in [Callers -> 0..MaxGen] /\ cur' \in 0..MaxGen /\ registry' \in Callers \cup {None}
    BY <1>1 DEF Gens
  <2>3. again' \in [Callers -> BOOLEAN]
    BY <1>1
  <2> QED BY <1>1, <1>2, <1>6, <2>1, <2>2, <2>3 DEF McpInv, McpTypeOK
<1>9. ClientsKnown'
  <2>1. \A d \in Callers : mine'[d] <= cur'
    BY <1>1, <1>5, <1>7 DEF g
  <2>2. \A h \in Gens : client'[h].asked \subseteq DOMAIN client'[h].owners
    BY <1>1, <1>4, <1>6 DEF McpInv, ClientsKnown
  <2> QED BY <2>1, <2>2 DEF ClientsKnown
<1>10. holder[g] = None
  <2> SUFFICES ASSUME holder[g] # None PROVE FALSE
    OBVIOUS
  <2>1. holder[g] \in Callers /\ mine[holder[g]] = g
    BY <1>1 DEF McpInv, ReadersHold
  <2> QED BY <1>5, <2>1
<1>11. ReadersHold'
  <2>1. ASSUME NEW h \in Gens, holder[h] # None
        PROVE  pc'[holder[h]] = "read" /\ mine'[holder[h]] = h
    <3>1. holder[h] \in Callers /\ pc[holder[h]] = "read" /\ mine[holder[h]] = h
      BY <1>1, <2>1 DEF McpInv, ReadersHold
    <3>2. holder[h] # c
      BY <1>1, <3>1
    <3> QED BY <1>7, <3>1, <3>2
  <2>2. ASSUME NEW d \in Callers, pc'[d] = "read"
        PROVE  LET owners == client'[mine'[d]].owners IN
               holder[mine'[d]] = d /\ owners # <<>> /\ owners[Len(owners)] = d
    <3>1. d # c /\ pc[d] = "read" /\ mine'[d] = mine[d] /\ mine[d] \in Gens
      BY <1>7, <2>2 DEF McpInv, McpTypeOK
    <3>2. client'[mine[d]] = client[mine[d]]
      BY <1>5, <1>6, <3>1
    <3> QED BY <3>1, <3>2 DEF McpInv, ReadersHold
  <2> QED BY <1>1, <2>1, <2>2 DEF ReadersHold
<1>12. DecodersHeld'
  <2>1. ASSUME NEW h \in Gens
        PROVE  /\ client'[h].decoders <= 1
               /\ holder[h] # None => client'[h].decoders = 1
               /\ holder[h] = None /\ ~client'[h].poisoned => client'[h].decoders = 0
    <3>1. CASE h # g
      BY <1>6, <3>1 DEF McpInv, DecodersHeld, Sound
    <3>2. CASE h = g
      BY <1>4, <1>6, <1>10, <3>2
    <3> QED BY <3>1, <3>2
  <2> QED BY <1>1, <2>1 DEF DecodersHeld, Sound
<1>13. GivenUp'
  <2>1. ASSUME NEW d \in Callers, pc'[d] = "recreate"
        PROVE  client'[mine'[d]].poisoned
    <3>1. d # c /\ pc[d] = "recreate" /\ mine'[d] = mine[d] /\ mine[d] \in Gens
      BY <1>7, <2>1 DEF McpInv, McpTypeOK
    <3>2. client[mine[d]].poisoned
      BY <3>1 DEF McpInv, GivenUp
    <3> QED BY <1>5, <1>6, <3>1, <3>2
  <2> QED BY <2>1 DEF GivenUp
<1>14. OwnResponse'
  BY <1>1 DEF McpInv, OwnResponse
<1> QED BY <1>7, <1>8, <1>9, <1>11, <1>12, <1>13, <1>14 DEF McpInv

\* The server answers, ...
LEMMA RespondKeeps ==
  ASSUME McpInv, NEW g \in Gens, Respond(g)
  PROVE  McpInv'
<1>1. PICK id \in client[g].asked :
        /\ client' = [client EXCEPT ![g].asked = @ \ {id}, ![g].pipe = Append(@, id)]
        /\ executed' = [executed EXCEPT ![client[g].owners[id]] = @ + 1]
  BY DEF Respond
<1> DEFINE u == [client[g] EXCEPT !.asked = @ \ {id}, !.pipe = Append(@, id)]
<1>2. /\ client[g] \in Clients /\ client \in [Gens -> Clients]
      /\ id \in Nat /\ client[g].pipe \in Pipes
      /\ client[g].owners[id] \in Callers
  BY ClientFields
<1>3. client' = [client EXCEPT ![g] = u]
  BY <1>1, <1>2
<1>7. Append(client[g].pipe, id) \in Pipes
  BY <1>2 DEF Pipes
<1>4. /\ u \in Clients /\ u.owners = client[g].owners /\ u.asked \subseteq client[g].asked
      /\ client[g].poisoned <=> u.poisoned
      /\ u.decoders = client[g].decoders
  BY <1>2, <1>7 DEF Clients
<1>5. executed' \in [Callers -> Nat]
  BY <1>1, <1>2 DEF McpInv, McpTypeOK
<1>6. /\ pc' = pc /\ pc \in [Callers -> AllPcs] /\ registry' \in Callers \cup {None}
      /\ notices' \in 0..MaxNotices
      /\ UNCHANGED <<result, expired, mine, again, cur, holder, got>>
  BY DEF McpInv, McpTypeOK, Respond
<1> HIDE DEF u
<1> QED BY <1>3, <1>4, <1>5, <1>6, TouchedKeeps

\* ... notifies, ...
LEMMA NotifyKeeps ==
  ASSUME McpInv, NEW g \in Gens, Notify(g)
  PROVE  McpInv'
<1>5. PICK m \in {Notice, Garbage} : client' = [client EXCEPT ![g].pipe = Append(@, m)]
  BY DEF Notify
<1> DEFINE u == [client[g] EXCEPT !.pipe = Append(@, m)]
<1>1. /\ client[g] \in Clients /\ client \in [Gens -> Clients] /\ client[g].pipe \in Pipes
  BY ClientFields
<1>2. client' = [client EXCEPT ![g] = u]
  BY <1>1, <1>5
<1>6. Append(client[g].pipe, m) \in Pipes
  <2>1. m \in Nat \cup {Garbage}
    BY DEF Notice
  <2> QED BY <1>1, <2>1 DEF Pipes
<1>3. /\ u \in Clients /\ u.owners = client[g].owners /\ u.asked \subseteq client[g].asked
      /\ client[g].poisoned <=> u.poisoned
      /\ u.decoders = client[g].decoders
  BY <1>1, <1>6 DEF Clients
<1>4. /\ pc' = pc /\ pc \in [Callers -> AllPcs] /\ registry' \in Callers \cup {None}
      /\ notices' \in 0..MaxNotices /\ executed' \in [Callers -> Nat]
      /\ UNCHANGED <<result, expired, mine, again, cur, holder, got>>
  BY BoundsOK DEF McpInv, McpTypeOK, Notify
<1> HIDE DEF u
<1> QED BY <1>2, <1>3, <1>4, TouchedKeeps

\* ... or dies.
LEMMA DieKeeps ==
  ASSUME McpInv, NEW g \in Gens, Die(g)
  PROVE  McpInv'
<1> DEFINE u == [client[g] EXCEPT !.alive = FALSE]
<1>1. client[g] \in Clients /\ client \in [Gens -> Clients]
  BY ClientFields
<1>2. client' = [client EXCEPT ![g] = u]
  BY <1>1 DEF Die
<1>3. /\ u \in Clients /\ u.owners = client[g].owners /\ u.asked \subseteq client[g].asked
      /\ client[g].poisoned <=> u.poisoned
      /\ u.decoders = client[g].decoders
  BY <1>1 DEF Clients
<1>4. /\ pc' = pc /\ pc \in [Callers -> AllPcs] /\ registry' \in Callers \cup {None}
      /\ notices' \in 0..MaxNotices /\ executed' \in [Callers -> Nat]
      /\ UNCHANGED <<result, expired, mine, again, cur, holder, got>>
  BY DEF McpInv, McpTypeOK, Die
<1> HIDE DEF u
<1> QED BY <1>2, <1>3, <1>4, TouchedKeeps

\* A decoder that was left behind reads what its caller no longer wants.
LEMMA LeftoverKeeps ==
  ASSUME McpInv, NEW g \in Gens, LeftoverDecodes(g)
  PROVE  McpInv'
<1> DEFINE n == client[g].decoders - 1
           rest == AfterHead(client[g].pipe)
           u == [client[g] EXCEPT !.decoders = n, !.pipe = rest]
<1>1. /\ client[g] \in Clients /\ client \in [Gens -> Clients] /\ client[g].pipe \in Pipes
      /\ client[g].decoders \in 0..1 /\ (holder[g] # None => client[g].decoders = 1)
  BY ClientFields
<1>2. holder[g] = None /\ client[g].decoders = 1
  BY <1>1 DEF LeftoverDecodes
<1>3. n = 0 /\ rest \in Pipes
  BY <1>1, <1>2, RestOfPipe
<1>4. client' = [client EXCEPT ![g].decoders = n, ![g].pipe = rest]
  BY DEF LeftoverDecodes
<1> HIDE DEF n, rest
<1>5. client' = [client EXCEPT ![g] = u]
  BY <1>1, <1>4
<1>7. /\ u \in Clients /\ u.owners = client[g].owners /\ u.asked \subseteq client[g].asked
      /\ client[g].poisoned <=> u.poisoned
      /\ u.decoders = 0
  BY <1>1, <1>3 DEF Clients
<1>6. /\ pc' = pc /\ pc \in [Callers -> AllPcs] /\ registry' \in Callers \cup {None}
      /\ notices' \in 0..MaxNotices /\ executed' \in [Callers -> Nat]
      /\ UNCHANGED <<result, expired, mine, again, cur, holder, got>>
  BY DEF McpInv, McpTypeOK, LeftoverDecodes
<1> HIDE DEF u
<1> QED BY <1>2, <1>5, <1>6, <1>7, TouchedKeeps

\* Every step of a call, ...
LEMMA McpCallKeeps ==
  ASSUME McpInv, NEW c \in Callers, McpCall(c)
  PROVE  McpInv'
  BY GetKeeps, SendKeeps, ReceiveKeeps, ReceiveEofKeeps, GiveUpKeeps, UseFreshKeeps,
     CloseStaleKeeps, StartClientKeeps, StartFailsKeeps DEF McpCall

\* ... every step of the server, ...
LEMMA EnvironmentKeeps ==
  ASSUME McpInv, McpEnvironment
  PROVE  McpInv'
  BY RespondKeeps, NotifyKeeps, DieKeeps, LeftoverKeeps DEF McpEnvironment

\* ... and every step of another caller preserve the invariant of the clients.
LEMMA McpRests ==
  ASSUME McpInv, UNCHANGED mcp
  PROVE  McpInv'
  BY DEF mcp, McpInv, McpTypeOK, ClientsKnown, ReadersHold, DecodersHeld, GivenUp, Sound,
     OwnResponse

\* One client, not poisoned, that nobody has asked anything.
LEMMA McpStarts ==
  ASSUME McpInit, pc \in [Callers -> {"limit", "get", "http"}]
  PROVE  McpInv
<1>1. PICK poisoned \in BOOLEAN :
        client = [g \in Gens |-> IF g = 1 THEN Born(poisoned) ELSE Fresh]
  BY DEF McpInit
<1>2. \A g \in Gens : client[g] = Fresh \/ client[g] = Born(poisoned)
  BY <1>1
<1>4. \A g \in Gens : /\ client[g] \in Clients /\ client[g].asked = {}
                      /\ client[g].decoders = IF client[g].poisoned THEN 1 ELSE 0
  BY <1>2, BornClient, FreshClient
<1>5. McpTypeOK
  <2>1. client \in [Gens -> Clients]
    BY <1>1, <1>4
  <2> QED BY <2>1, BoundsOK DEF McpInit, McpTypeOK
<1>6. pc \in [Callers -> AllPcs]
  BY DEF AllPcs, McpPcs
<1>7. ClientsKnown
  BY <1>4 DEF McpInit, ClientsKnown
<1>8. ReadersHold /\ GivenUp /\ OwnResponse
  BY DEF McpInit, ReadersHold, GivenUp, OwnResponse
<1>9. DecodersHeld
  BY <1>4 DEF McpInit, DecodersHeld, Sound
<1> QED BY <1>5, <1>6, <1>7, <1>8, <1>9 DEF McpInv

-----------------------------------------------------------------------------
(* Attempts and requests.                                                   *)

Outcomes == {"none", "ok", "invalid", "failed", "toolerror", "cancelled"}

CallInv ==
  /\ call \in Setups
  /\ attempt \in [Callers -> Nat] /\ \A c \in Callers : attempt[c] \in 1..MaxAttempts(c)
  /\ outcome \in [Callers -> Outcomes]
  /\ dead \in [Callers -> 0..1]
  /\ AttemptsLeft

Left(c) == IF pc[c] \in BeforeRequest THEN attempt[c] - 1 ELSE attempt[c]

\* resolvedRetry (executor.go:116-136) gives every call at least one attempt.
LEMMA AtLeastOne ==
  ASSUME call \in Setups, NEW c \in Callers
  PROVE  MaxAttempts(c) \in Nat /\ MaxAttempts(c) >= 1
<1>1. call[c].retry \in Nat
  BY SetupsOK DEF SetupOK
<1>2. 1 \in Int /\ call[c].retry \in Int
  BY <1>1
<1>3. MaxAttempts(c) = IF 1 >= call[c].retry THEN 1 ELSE call[c].retry
  BY <1>2, MaxPair DEF MaxAttempts
<1> QED BY <1>1, <1>3

\* The invariant of ToolCalls is that of the limiter, of the clients, of the
\* attempts and of the requests.
LEMMA Parts ==
  /\ Inductive => McpInv /\ LimiterInv /\ CallInv /\ OneRequestAnAttempt
  /\ McpInv' /\ LimiterInv' /\ CallInv' /\ OneRequestAnAttempt' => Inductive'
<1>1. Inductive => McpInv /\ LimiterInv /\ CallInv /\ OneRequestAnAttempt
  BY DEF Inductive, TypeOK, McpInv, LimiterInv, CallInv, AllPcs, Outcomes
<1>2. McpInv' /\ LimiterInv' /\ CallInv' /\ OneRequestAnAttempt' => Inductive'
  BY DEF Inductive, TypeOK, McpInv, LimiterInv, CallInv, AllPcs, Outcomes
<1> QED BY <1>1, <1>2

\* A caller that goes on with the attempt it is in, or ends.
LEMMA CallMoves ==
  ASSUME CallInv, pc \in [Callers -> AllPcs], NEW c \in Callers, pc[c] # "done",
         NEW to \in AllPcs, pc' = [pc EXCEPT ![c] = to],
         to = "backoff" => attempt[c] < MaxAttempts(c),
         outcome' \in [Callers -> Outcomes],
         UNCHANGED <<call, attempt>>,
         dead' \in [Callers -> 0..1],
         to # "done" => dead' = dead,
         \A d \in Callers : d # c => dead'[d] = dead[d]
  PROVE  CallInv'
<1>1. \A d \in Callers : MaxAttempts(d)' = MaxAttempts(d)
  BY DEF MaxAttempts
<1>2. AttemptsLeft'
  <2>1. ASSUME NEW d \in Callers, pc'[d] = "backoff" PROVE attempt[d] < MaxAttempts(d)
    BY <2>1 DEF CallInv, AttemptsLeft
  <2>2. ASSUME NEW d \in Callers, pc'[d] # "done" PROVE dead'[d] = 0
    BY <2>2 DEF CallInv, AttemptsLeft
  <2> QED BY <1>1, <2>1, <2>2 DEF AttemptsLeft
<1> QED BY <1>1, <1>2 DEF CallInv

\* Attempts change only with attempt, call and pc.
LEMMA CallRests ==
  ASSUME CallInv, UNCHANGED <<pc, call, attempt, outcome, dead>>
  PROVE  CallInv'
<1>1. \A d \in Callers : MaxAttempts(d)' = MaxAttempts(d)
  BY DEF MaxAttempts
<1> QED BY <1>1 DEF CallInv, AttemptsLeft

\* A request that is answered or given up is no longer outstanding, and no other
\* request becomes so.
LEMMA OutstandingShrinks ==
  ASSUME NEW c \in Callers,
         \A g \in Gens : /\ client'[g].asked \subseteq client[g].asked
                         /\ \A id \in client'[g].asked :
                              client'[g].owners[id] = client[g].owners[id]
  PROVE  Outstanding(c)' \subseteq Outstanding(c)
<1> SUFFICES ASSUME NEW r \in Outstanding(c)' PROVE r \in Outstanding(c)
  OBVIOUS
<1>1. PICK g \in Gens : r \in {g} \X client'[g].asked
  BY DEF Outstanding
<1>2. r = <<g, r[2]>> /\ r[2] \in client'[g].asked /\ r[1] = g
  BY <1>1
<1>3. client'[g].owners[r[2]] = c
  BY <1>2 DEF Outstanding
<1>4. client[g].owners[r[2]] = c /\ r[2] \in client[g].asked
  BY <1>2, <1>3
<1>5. r \in {g} \X client[g].asked
  BY <1>1, <1>4
<1> QED BY <1>2, <1>4, <1>5 DEF Outstanding

\* A caller may go on as long as it does not come before a request again.
LEMMA AccountMoves ==
  ASSUME OneRequestAnAttempt, CallInv, pc \in [Callers -> AllPcs],
         executed \in [Callers -> Nat],
         NEW c \in Callers, NEW to \in AllPcs, pc' = [pc EXCEPT ![c] = to],
         to \in BeforeRequest => pc[c] \in BeforeRequest,
         \A d \in Callers : Outstanding(d)' \subseteq Outstanding(d),
         UNCHANGED <<executed, attempt>>
  PROVE  OneRequestAnAttempt'
<1> SUFFICES ASSUME NEW d \in Callers
             PROVE  /\ IsFiniteSet(Outstanding(d)')
                    /\ executed[d] + Cardinality(Outstanding(d)') <= Left(d)'
  BY DEF OneRequestAnAttempt, Left
<1>1. /\ IsFiniteSet(Outstanding(d))
      /\ executed[d] + Cardinality(Outstanding(d)) <= Left(d)
  BY DEF OneRequestAnAttempt, Left
<1>2. /\ IsFiniteSet(Outstanding(d)')
      /\ Cardinality(Outstanding(d)') <= Cardinality(Outstanding(d))
      /\ Cardinality(Outstanding(d)') \in Nat /\ Cardinality(Outstanding(d)) \in Nat
  BY <1>1, FS_Subset, FS_CardinalityType
<1>3. executed[d] \in Nat /\ attempt[d] \in Nat
  BY DEF CallInv
<1>4. Left(d) <= Left(d)'
  BY <1>3 DEF Left
<1>5. Left(d) \in Int /\ Left(d)' \in Int
  BY <1>3 DEF Left
<1> QED BY <1>1, <1>2, <1>3, <1>4, <1>5

\* The request a caller writes is the only one of its attempt.
LEMMA AccountSends ==
  ASSUME McpInv, CallInv, OneRequestAnAttempt, NEW c \in Callers, pc[c] = "lock",
         NEW g \in Gens,
         client' = [client EXCEPT ![g].owners = Append(@, c),
                                  ![g].asked = @ \cup {Len(client[g].owners) + 1},
                                  ![g].decoders = @ + 1],
         pc' = [pc EXCEPT ![c] = "read"], UNCHANGED <<executed, attempt>>
  PROVE  OneRequestAnAttempt'
<1> DEFINE id == Len(client[g].owners) + 1
           new == <<g, id>>
<1>1. /\ client \in [Gens -> Clients] /\ client[g].owners \in Seq(Callers)
      /\ client[g].asked \subseteq DOMAIN client[g].owners
      /\ executed \in [Callers -> Nat] /\ pc \in [Callers -> AllPcs]
      /\ client[g] \in Clients
  BY ClientFields DEF McpInv, McpTypeOK
<1>2. \A i \in client[g].asked : Append(client[g].owners, c)[i] = client[g].owners[i]
  BY <1>1
<1>3. Append(client[g].owners, c)[id] = c
  BY <1>1
<1>4. /\ client'[g].owners = Append(client[g].owners, c)
      /\ client'[g].asked = client[g].asked \cup {id}
      /\ \A h \in Gens : h # g => client'[h] = client[h]
  BY <1>1 DEF Clients
<1> HIDE DEF id
<1>5. ASSUME NEW d \in Callers
      PROVE  Outstanding(d)' \subseteq Outstanding(d) \cup (IF d = c THEN {new} ELSE {})
  <2> SUFFICES ASSUME NEW r \in Outstanding(d)', r # new \/ d # c
               PROVE  r \in Outstanding(d)
    OBVIOUS
  <2>1. PICK h \in Gens : r \in {h} \X client'[h].asked
    BY DEF Outstanding
  <2>2. r = <<h, r[2]>> /\ r[2] \in client'[h].asked /\ r[1] = h
    BY <2>1
  <2>3. client'[h].owners[r[2]] = d
    BY <2>2 DEF Outstanding
  <2>4. r[2] \in client[h].asked /\ client[h].owners[r[2]] = d
    <3>1. CASE h # g
      BY <1>4, <2>2, <2>3, <3>1
    <3>2. CASE h = g /\ r[2] \in client[g].asked
      BY <1>2, <1>4, <2>3, <3>2
    <3>3. CASE h = g /\ r[2] = id
      BY <1>3, <1>4, <2>2, <2>3, <3>3
    <3> QED BY <1>4, <2>2, <3>1, <3>2, <3>3
  <2>5. r \in {h} \X client[h].asked
    BY <2>1, <2>4
  <2> QED BY <2>2, <2>4, <2>5 DEF Outstanding
<1> HIDE DEF new
<1> SUFFICES ASSUME NEW d \in Callers
             PROVE  /\ IsFiniteSet(Outstanding(d)')
                    /\ executed[d] + Cardinality(Outstanding(d)') <= Left(d)'
  BY DEF OneRequestAnAttempt, Left
<1>6. /\ IsFiniteSet(Outstanding(d))
      /\ executed[d] + Cardinality(Outstanding(d)) <= Left(d)
      /\ Cardinality(Outstanding(d)) \in Nat
  BY FS_CardinalityType DEF OneRequestAnAttempt, Left
<1>7. executed[d] \in Nat /\ attempt[d] \in Nat
  BY <1>1 DEF CallInv
<1>8. CASE d # c
  <2>1. Outstanding(d)' \subseteq Outstanding(d)
    BY <1>5, <1>8
  <2>2. /\ IsFiniteSet(Outstanding(d)')
        /\ Cardinality(Outstanding(d)') <= Cardinality(Outstanding(d))
        /\ Cardinality(Outstanding(d)') \in Nat
    BY <1>6, <2>1, FS_Subset, FS_CardinalityType
  <2>3. Left(d)' = Left(d) /\ Left(d) \in Int
    BY <1>1, <1>7, <1>8 DEF Left
  <2> QED BY <1>6, <1>7, <2>2, <2>3
<1>9. CASE d = c
  <2>1. Outstanding(d)' \subseteq Outstanding(d) \cup {new}
    BY <1>5, <1>9
  <2>2. /\ IsFiniteSet(Outstanding(d) \cup {new})
        /\ Cardinality(Outstanding(d) \cup {new}) <= Cardinality(Outstanding(d)) + 1
        /\ Cardinality(Outstanding(d) \cup {new}) \in Nat
    <3>1. /\ IsFiniteSet(Outstanding(d) \cup {new})
          /\ Cardinality(Outstanding(d) \cup {new}) =
               IF new \in Outstanding(d) THEN Cardinality(Outstanding(d))
               ELSE Cardinality(Outstanding(d)) + 1
      BY <1>6, FS_AddElement
    <3> QED BY <1>6, <3>1
  <2>3. /\ IsFiniteSet(Outstanding(d)')
        /\ Cardinality(Outstanding(d)') <= Cardinality(Outstanding(d) \cup {new})
        /\ Cardinality(Outstanding(d)') \in Nat
    BY <2>1, <2>2, FS_Subset, FS_CardinalityType
  <2>4. Left(d)' = attempt[d] /\ Left(d) = attempt[d] - 1
    BY <1>1, <1>9 DEF Left, BeforeRequest
  <2> QED BY <1>6, <1>7, <2>2, <2>3, <2>4
<1> QED BY <1>8, <1>9

\* The server runs the tool of a request once.
LEMMA AccountResponds ==
  ASSUME McpInv, CallInv, OneRequestAnAttempt, NEW g \in Gens, Respond(g),
         UNCHANGED attempt
  PROVE  OneRequestAnAttempt'
<1>1. PICK id \in client[g].asked :
        /\ client' = [client EXCEPT ![g].asked = @ \ {id}, ![g].pipe = Append(@, id)]
        /\ executed' = [executed EXCEPT ![client[g].owners[id]] = @ + 1]
  BY DEF Respond
<1>2. /\ client[g] \in Clients /\ client \in [Gens -> Clients]
      /\ client[g].owners[id] \in Callers
      /\ executed \in [Callers -> Nat]
  BY ClientFields DEF McpInv, McpTypeOK
<1>12. PICK c \in Callers : c = client[g].owners[id]
  BY <1>2
<1> DEFINE old == <<g, id>>
<1>3. /\ client'[g].owners = client[g].owners
      /\ client'[g].asked = client[g].asked \ {id}
      /\ \A h \in Gens : h # g => client'[h] = client[h]
  BY <1>1, <1>2 DEF Clients
<1>4. \A h \in Gens : /\ client'[h].asked \subseteq client[h].asked
                      /\ \A i \in client'[h].asked : client'[h].owners[i] = client[h].owners[i]
  BY <1>3
<1>5. old \notin Outstanding(c)'
  <2> SUFFICES ASSUME old \in Outstanding(c)' PROVE FALSE
    OBVIOUS
  <2>1. PICK h \in Gens : old \in {h} \X client'[h].asked
    BY DEF Outstanding
  <2> QED BY <1>3, <2>1
<1>6. old \in Outstanding(c)
  <2>1. old \in {g} \X client[g].asked /\ old[1] = g /\ old[2] = id
    OBVIOUS
  <2> QED BY <1>12, <2>1 DEF Outstanding
<1> HIDE DEF old
<1> SUFFICES ASSUME NEW d \in Callers
             PROVE  /\ IsFiniteSet(Outstanding(d)')
                    /\ executed'[d] + Cardinality(Outstanding(d)') <= Left(d)'
  BY DEF OneRequestAnAttempt, Left
<1>7. Outstanding(d)' \subseteq Outstanding(d)
  BY <1>4, OutstandingShrinks
<1>8. /\ IsFiniteSet(Outstanding(d))
      /\ executed[d] + Cardinality(Outstanding(d)) <= Left(d)
      /\ Cardinality(Outstanding(d)) \in Nat
  BY FS_CardinalityType DEF OneRequestAnAttempt, Left
<1>9. executed[d] \in Nat /\ attempt[d] \in Nat /\ Left(d)' = Left(d) /\ Left(d) \in Int
  BY <1>2 DEF CallInv, Left, Respond
<1>10. CASE d # c
  <2>1. /\ IsFiniteSet(Outstanding(d)')
        /\ Cardinality(Outstanding(d)') <= Cardinality(Outstanding(d))
        /\ Cardinality(Outstanding(d)') \in Nat
    BY <1>7, <1>8, FS_Subset, FS_CardinalityType
  <2>2. executed'[d] = executed[d]
    BY <1>1, <1>2, <1>10, <1>12
  <2> QED BY <1>8, <1>9, <2>1, <2>2
<1>11. CASE d = c
  <2>1. Outstanding(d)' \subseteq Outstanding(d) \ {old} /\ old \in Outstanding(d)
    BY <1>5, <1>6, <1>7, <1>11
  <2>2. /\ IsFiniteSet(Outstanding(d) \ {old})
        /\ Cardinality(Outstanding(d) \ {old}) = Cardinality(Outstanding(d)) - 1
        /\ Cardinality(Outstanding(d) \ {old}) \in Nat
    BY <1>8, <2>1, FS_RemoveElement, FS_CardinalityType
  <2>3. /\ IsFiniteSet(Outstanding(d)')
        /\ Cardinality(Outstanding(d)') <= Cardinality(Outstanding(d) \ {old})
        /\ Cardinality(Outstanding(d)') \in Nat
    BY <2>1, <2>2, FS_Subset, FS_CardinalityType
  <2>4. executed'[d] = executed[d] + 1
    BY <1>1, <1>2, <1>11, <1>12
  <2> QED BY <1>8, <1>9, <2>2, <2>3, <2>4
<1> QED BY <1>10, <1>11

-----------------------------------------------------------------------------
(* Every step of a tool call preserves the invariant.                       *)

\* Requests are those of the clients.
LEMMA ShrinksWhenSame ==
  ASSUME UNCHANGED client
  PROVE  \A d \in Callers : Outstanding(d)' \subseteq Outstanding(d)
  BY DEF Outstanding

\* A step within the executor: the caller's place changes, its clients do not.
LEMMA ExecutorStep ==
  ASSUME Inductive, NEW c \in Callers, pc[c] \notin {"read", "done"},
         NEW to \in AllPcs \ {"lock", "read", "recreate"}, pc' = [pc EXCEPT ![c] = to],
         to \in BeforeRequest => pc[c] \in BeforeRequest,
         to = "backoff" => attempt[c] < MaxAttempts(c),
         result' \in [Callers -> Results],
         outcome' \in [Callers -> Outcomes],
         dead' \in [Callers -> 0..1],
         to # "done" => dead' = dead,
         \A d \in Callers : d # c => dead'[d] = dead[d],
         UNCHANGED <<mcpRest, call, attempt>>, LimiterInv'
  PROVE  Inductive'
<1>1. McpInv /\ CallInv /\ OneRequestAnAttempt
  BY Parts
<1>2. /\ pc \in [Callers -> AllPcs] /\ executed \in [Callers -> Nat]
      /\ expired \in [Callers -> BOOLEAN]
  BY <1>1 DEF McpInv, McpTypeOK
<1>3. UNCHANGED <<expired, mine, again, cur, client, holder, registry, executed, got, notices>>
  BY DEF mcpRest
<1>4. McpInv'
  BY <1>1, <1>2, <1>3, QuietKeeps
<1>5. CallInv'
  BY <1>1, <1>2, CallMoves
<1>6. \A d \in Callers : Outstanding(d)' \subseteq Outstanding(d)
  BY <1>3, ShrinksWhenSame
<1>7. OneRequestAnAttempt'
  BY <1>1, <1>2, <1>3, <1>6, AccountMoves
<1> QED BY <1>4, <1>5, <1>7, Parts

\* An HTTP tool goes to the limiter, an MCP tool to its server.
LEMMA DispatchTo ==
  ASSUME NEW c \in Callers, Dispatch(c)
  PROVE  /\ \E to \in {"http", "get"} : pc' = [pc EXCEPT ![c] = to]
         /\ UNCHANGED result
  BY DEF Dispatch, Goes

\* The types of what the executor itself keeps.
LEMMA TypesHere ==
  ASSUME Inductive
  PROVE  /\ pc \in [Callers -> AllPcs] /\ result \in [Callers -> Results]
         /\ outcome \in [Callers -> Outcomes] /\ dead \in [Callers -> 0..1]
         /\ attempt \in [Callers -> Nat] /\ executed \in [Callers -> Nat]
         /\ \A c \in Callers : pc[c] # "done" => dead[c] = 0
  BY DEF Inductive, TypeOK, McpTypeOK, AllPcs, Results, Outcomes, AttemptsLeft

\* The steps of Execute: the limiter of the host, ...
LEMMA LimitStep ==
  ASSUME Inductive, NEW c \in Callers, Limit(c)
  PROVE  Inductive'
<1>1. LimiterInv'
  BY Parts, AskTokenKeeps DEF Limit
<1>2. \E to \in {"http", "get", "asleep"} : pc' = [pc EXCEPT ![c] = to]
  BY DispatchTo DEF Limit, Goes
<1>3. PICK to \in {"http", "get", "asleep"} : pc' = [pc EXCEPT ![c] = to]
  BY <1>2
<1>4. /\ pc[c] = "limit" /\ to \in AllPcs \ {"lock", "read", "recreate"}
      /\ pc[c] \in BeforeRequest /\ to # "backoff" /\ to # "done"
      /\ UNCHANGED <<mcpRest, result, call, attempt, outcome, dead>>
  BY DispatchTo DEF Limit, Goes, AllPcs, McpPcs, BeforeRequest, callState
<1> QED BY <1>1, <1>3, <1>4, TypesHere, ExecutorStep

\* ... the sleep it may ask for, ...
LEMMA WakeUpStep ==
  ASSUME Inductive, NEW c \in Callers, WakeUp(c)
  PROVE  Inductive'
<1>1. LimiterInv'
  BY Parts, WakeKeeps DEF WakeUp
<1>2. PICK to \in {"http", "get"} : pc' = [pc EXCEPT ![c] = to]
  BY DispatchTo DEF WakeUp
<1>3. /\ pc[c] = "asleep" /\ to \in AllPcs \ {"lock", "read", "recreate"}
      /\ pc[c] \in BeforeRequest /\ to # "backoff" /\ to # "done"
      /\ UNCHANGED <<mcpRest, result, call, attempt, outcome, dead>>
  BY DispatchTo DEF WakeUp, AllPcs, McpPcs, BeforeRequest, callState
<1> QED BY <1>1, <1>2, <1>3, TypesHere, ExecutorStep

\* A call that ends.
LEMMA EndsStep ==
  ASSUME Inductive, NEW c \in Callers, pc[c] \notin {"read", "done"},
         NEW o \in Outcomes, Ends(c, o),
         dead' \in {dead, [dead EXCEPT ![c] = @ + 1]},
         UNCHANGED <<mcpRest, call, attempt>>, LimiterInv'
  PROVE  Inductive'
<1>1. /\ pc' = [pc EXCEPT ![c] = "done"]
      /\ result' \in [Callers -> Results] /\ outcome' \in [Callers -> Outcomes]
  BY TypesHere DEF Ends, Results
<1>2. dead' \in [Callers -> 0..1] /\ \A d \in Callers : d # c => dead'[d] = dead[d]
  BY TypesHere
<1>3. "done" \in AllPcs \ {"lock", "read", "recreate"} /\ "done" \notin BeforeRequest
  BY DEF AllPcs, BeforeRequest
<1> QED BY <1>1, <1>2, <1>3, ExecutorStep

\* ... an outcome, ...
LEMMA EndingSteps ==
  ASSUME Inductive, NEW c \in Callers,
         \/ CancelledAsleep(c) \/ CancelledInBackoff(c) \/ Succeeds(c) \/ ToolFails(c)
         \/ Fails(c) \/ Refuse(c)
  PROVE  Inductive'
<1>1. LimiterInv'
  <2>1. CASE CancelledAsleep(c)
    BY <2>1, Parts, GiveUpWaitingKeeps DEF CancelledAsleep
  <2>2. CASE ~CancelledAsleep(c)
    <3>1. UNCHANGED limiter
      BY <2>2 DEF CancelledInBackoff, Succeeds, ToolFails, Fails, Refuse
    <3> QED BY <3>1, Parts, LimiterRests
  <2> QED BY <2>1, <2>2
<1>2. \E o \in Outcomes : Ends(c, o)
  BY DEF CancelledAsleep, CancelledInBackoff, Succeeds, ToolFails, Fails, Refuse, Outcomes
<1>3. /\ pc[c] \notin {"read", "done"}
      /\ dead' \in {dead, [dead EXCEPT ![c] = @ + 1]}
      /\ UNCHANGED <<mcpRest, call, attempt>>
  BY DEF Enters, CancelledAsleep, CancelledInBackoff, Succeeds, ToolFails, Fails, Refuse
<1> QED BY <1>1, <1>2, <1>3, EndsStep

\* ... a backoff, ...
LEMMA BacksOffStep ==
  ASSUME Inductive, NEW c \in Callers, BacksOff(c)
  PROVE  Inductive'
<1>1. LimiterInv'
  BY Parts, LimiterRests DEF BacksOff
<1>2. /\ pc' = [pc EXCEPT ![c] = "backoff"] /\ pc[c] = "result"
      /\ attempt[c] < MaxAttempts(c)
      /\ "backoff" \in AllPcs \ {"lock", "read", "recreate"} /\ "backoff" \notin BeforeRequest
      /\ UNCHANGED <<mcpRest, result, call, attempt, outcome, dead>>
  BY DEF BacksOff, Goes, Retries, callState, AllPcs, BeforeRequest
<1> QED BY <1>1, <1>2, TypesHere, ExecutorStep

\* ... a request over HTTP, ...
LEMMA HttpStep ==
  ASSUME Inductive, NEW c \in Callers, HttpAttempt(c)
  PROVE  Inductive'
<1>1. McpInv /\ CallInv /\ OneRequestAnAttempt /\ LimiterInv
  BY Parts
<1>2. PICK r \in {"ok", "error", "notfound"} :
        /\ Returns(c, r) /\ executed' = [executed EXCEPT ![c] = @ + 1]
  BY DEF HttpAttempt
<1>3. /\ pc[c] = "http" /\ pc' = [pc EXCEPT ![c] = "result"]
      /\ result' \in [Callers -> Results] /\ executed' \in [Callers -> Nat]
      /\ "result" \in AllPcs \ {"lock", "read", "recreate"}
      /\ UNCHANGED <<expired, mine, again, cur, client, holder, registry, got, notices>>
      /\ UNCHANGED <<limiter, call, attempt, outcome, dead>>
  BY <1>2, TypesHere DEF HttpAttempt, Returns, Results, AllPcs, McpPcs, callState
<1>4. McpInv'
  <2>1. expired' \in [Callers -> BOOLEAN]
    BY <1>1, <1>3 DEF McpInv, McpTypeOK
  <2> QED BY <1>1, <1>3, <2>1, QuietKeeps
<1>5. CallInv'
  BY <1>1, <1>3, TypesHere, CallMoves
<1>6. LimiterInv'
  BY <1>1, <1>3, LimiterRests
<1>7. OneRequestAnAttempt'
  <2> SUFFICES ASSUME NEW d \in Callers
               PROVE  /\ IsFiniteSet(Outstanding(d)')
                      /\ executed'[d] + Cardinality(Outstanding(d)') <= Left(d)'
    BY DEF OneRequestAnAttempt, Left
  <2>1. Outstanding(d)' = Outstanding(d)
    BY <1>3 DEF Outstanding
  <2>2. /\ IsFiniteSet(Outstanding(d))
        /\ executed[d] + Cardinality(Outstanding(d)) <= Left(d)
        /\ Cardinality(Outstanding(d)) \in Nat
    BY <1>1, FS_CardinalityType DEF OneRequestAnAttempt, Left
  <2>3. executed[d] \in Nat /\ attempt[d] \in Nat
    BY TypesHere
  <2>4. CASE d = c
    <3>1. executed'[d] = executed[d] + 1 /\ Left(d)' = attempt[d] /\ Left(d) = attempt[d] - 1
      BY <1>2, <1>3, <2>4, TypesHere DEF Left, BeforeRequest
    <3> QED BY <2>1, <2>2, <2>3, <3>1
  <2>5. CASE d # c
    <3>1. executed'[d] = executed[d] /\ Left(d)' = Left(d)
      BY <1>2, <1>3, <2>5, TypesHere DEF Left
    <3> QED BY <2>1, <2>2, <3>1
  <2> QED BY <2>4, <2>5
<1> QED BY <1>4, <1>5, <1>6, <1>7, Parts

\* ... the next attempt, which pays for its request, ...
LEMMA TryAgainStep ==
  ASSUME Inductive, NEW c \in Callers, TryAgain(c)
  PROVE  Inductive'
<1>1. McpInv /\ CallInv /\ OneRequestAnAttempt /\ LimiterInv
  BY Parts
<1>2. PICK to \in {"limit", "get", "http"} : pc' = [pc EXCEPT ![c] = to]
  BY DEF TryAgain, Goes, Enters
<1>3. /\ pc[c] = "backoff" /\ attempt' = [attempt EXCEPT ![c] = @ + 1]
      /\ to \in AllPcs \ {"lock", "read", "recreate"} /\ to \in BeforeRequest
      /\ UNCHANGED <<result, limiter, call, outcome, dead>>
      /\ UNCHANGED <<expired, mine, again, cur, client, holder, registry, executed, got, notices>>
  BY DEF TryAgain, Goes, AllPcs, McpPcs, BeforeRequest, mcpRest
<1>4. McpInv'
  <2>1. /\ expired' \in [Callers -> BOOLEAN] /\ result' \in [Callers -> Results]
        /\ executed' \in [Callers -> Nat]
    BY <1>1, <1>3, TypesHere DEF McpInv, McpTypeOK
  <2> QED BY <1>1, <1>2, <1>3, <2>1, QuietKeeps
<1>5. LimiterInv'
  BY <1>1, <1>3, LimiterRests
<1>6. CallInv'
  <2>1. \A d \in Callers : MaxAttempts(d)' = MaxAttempts(d)
    BY <1>3 DEF MaxAttempts
  <2>2. attempt[c] < MaxAttempts(c)
    BY <1>1, <1>3 DEF CallInv, AttemptsLeft
  <2>3. ASSUME NEW d \in Callers PROVE attempt'[d] \in 1..MaxAttempts(d)
    <3>1. attempt[d] \in 1..MaxAttempts(d) /\ attempt[d] \in Nat
      BY <1>1 DEF CallInv
    <3>2. CASE d = c
      <4>1. attempt'[d] = attempt[d] + 1
        BY <1>3, <3>2, TypesHere
      <4>2. MaxAttempts(d) \in Int
        BY <1>1, AtLeastOne DEF CallInv
      <4> QED BY <2>2, <3>1, <3>2, <4>1, <4>2
    <3>3. CASE d # c
      BY <1>3, <3>1, <3>3, TypesHere
    <3> QED BY <3>2, <3>3
  <2>4. attempt' \in [Callers -> Nat]
    BY <1>3, TypesHere
  <2>5. AttemptsLeft'
    <3>1. ASSUME NEW d \in Callers, pc'[d] = "backoff" PROVE attempt'[d] < MaxAttempts(d)
      <4>1. d # c /\ pc[d] = "backoff" /\ attempt'[d] = attempt[d]
        BY <1>2, <1>3, <3>1, TypesHere
      <4> QED BY <1>1, <4>1 DEF CallInv, AttemptsLeft
    <3>2. ASSUME NEW d \in Callers, pc'[d] # "done" PROVE dead'[d] = 0
      <4>1. pc[d] # "done"
        BY <1>2, <1>3, <3>2, TypesHere
      <4> QED BY <1>3, <4>1, TypesHere
    <3> QED BY <2>1, <3>1, <3>2 DEF AttemptsLeft
  <2> QED BY <1>1, <1>3, <2>1, <2>3, <2>4, <2>5 DEF CallInv
<1>7. OneRequestAnAttempt'
  <2> SUFFICES ASSUME NEW d \in Callers
               PROVE  /\ IsFiniteSet(Outstanding(d)')
                      /\ executed[d] + Cardinality(Outstanding(d)') <= Left(d)'
    BY <1>3 DEF OneRequestAnAttempt, Left
  <2>1. Outstanding(d)' = Outstanding(d)
    BY <1>3 DEF Outstanding
  <2>2. IsFiniteSet(Outstanding(d)) /\ executed[d] + Cardinality(Outstanding(d)) <= Left(d)
    BY <1>1 DEF OneRequestAnAttempt, Left
  <2>3. Left(d)' = Left(d)
    <3>1. attempt[d] \in Nat
      BY TypesHere
    <3>2. CASE d = c
      <4>1. pc'[d] = to /\ attempt'[d] = attempt[d] + 1 /\ pc[d] \notin BeforeRequest
        BY <1>2, <1>3, <3>2, TypesHere DEF BeforeRequest
      <4>2. Left(d)' = attempt'[d] - 1
        BY <1>3, <4>1 DEF Left
      <4>3. Left(d) = attempt[d]
        BY <4>1 DEF Left
      <4> QED BY <3>1, <4>1, <4>2, <4>3
    <3>3. CASE d # c
      BY <1>2, <1>3, <3>3, TypesHere DEF Left, BeforeRequest
    <3> QED BY <3>2, <3>3
  <2> QED BY <2>1, <2>2, <2>3
<1> QED BY <1>4, <1>5, <1>6, <1>7, Parts

\* ... the deadline ...
LEMMA ExpireStep ==
  ASSUME Inductive, NEW c \in Callers, Expire(c)
  PROVE  Inductive'
<1>1. McpInv /\ CallInv /\ OneRequestAnAttempt /\ LimiterInv
  BY Parts
<1>2. /\ expired' \in [Callers -> BOOLEAN]
      /\ UNCHANGED <<pc, result, mine, again, cur, client, holder, registry, executed, got, notices>>
      /\ UNCHANGED <<limiter, call, attempt, outcome, dead>>
  BY <1>1 DEF Expire, McpInv, McpTypeOK, callState
<1>3. McpInv'
  BY <1>1, <1>2 DEF McpInv, McpTypeOK, ClientsKnown, ReadersHold, DecodersHeld, GivenUp, Sound,
     OwnResponse
<1>4. CallInv' /\ LimiterInv'
  BY <1>1, <1>2, CallRests, LimiterRests
<1>5. OneRequestAnAttempt'
  BY <1>1, <1>2 DEF OneRequestAnAttempt, Outstanding
<1> QED BY <1>3, <1>4, <1>5, Parts

\* A call to the server moves its caller on, and makes a request only in Send.
LEMMA CallGoesOn ==
  ASSUME McpInv, NEW c \in Callers, McpCall(c)
  PROVE  /\ pc[c] # "done" /\ UNCHANGED executed
         /\ \E to \in AllPcs \ {"backoff", "done"} :
              /\ pc' = [pc EXCEPT ![c] = to]
              /\ to \in BeforeRequest => pc[c] \in BeforeRequest
<1> DEFINE Moves == \E to \in AllPcs \ {"backoff", "done"} :
                      /\ pc' = [pc EXCEPT ![c] = to]
                      /\ to \in BeforeRequest => pc[c] \in BeforeRequest
<1>1. pc[c] # "done" /\ UNCHANGED executed
  BY DEF McpCall, Get, Send, Receive, ReceiveEof, GiveUp, UseFresh, CloseStale, StartClient,
     StartFails
<1>2. ASSUME \E r \in Results : Returns(c, r) PROVE Moves
  <2>1. pc' = [pc EXCEPT ![c] = "result"]
    BY <1>2 DEF Returns
  <2>2. "result" \in AllPcs \ {"backoff", "done"} /\ "result" \notin BeforeRequest
    BY DEF AllPcs, McpPcs, BeforeRequest
  <2> QED BY <2>1, <2>2
<1>3. ASSUME \E to \in {"lock", "recreate", "starting"} : Goes(c, to),
             pc[c] \in BeforeRequest
      PROVE  Moves
  <2>1. PICK to \in {"lock", "recreate", "starting"} : Goes(c, to)
    BY <1>3
  <2>2. pc' = [pc EXCEPT ![c] = to] /\ to \in AllPcs \ {"backoff", "done"}
    BY <2>1 DEF Goes, AllPcs, McpPcs
  <2> QED BY <1>3, <2>2
<1>4. ASSUME Goes(c, "read") PROVE Moves
  <2>1. pc' = [pc EXCEPT ![c] = "read"] /\ "read" \in AllPcs \ {"backoff", "done"}
    BY <1>4 DEF Goes, AllPcs, McpPcs
  <2>2. "read" \notin BeforeRequest
    BY DEF BeforeRequest
  <2> QED BY <2>1, <2>2
<1> HIDE DEF Moves
<1>5. ASSUME Get(c) PROVE Moves
  <2>1. Returns(c, "notfound") \/ Goes(c, "lock")
    BY <1>5 DEF Get
  <2>2. "notfound" \in Results /\ pc[c] \in BeforeRequest
    BY <1>5 DEF Get, Results, BeforeRequest
  <2> QED BY <1>2, <1>3, <2>1, <2>2
<1>6. ASSUME Send(c) PROVE Moves
  <2>1. Returns(c, "error") \/ Goes(c, "recreate") \/ Goes(c, "read")
    BY <1>6 DEF Send, CallReturns
  <2>2. "error" \in Results /\ pc[c] \in BeforeRequest
    BY <1>6 DEF Send, Results, BeforeRequest
  <2> QED BY <1>2, <1>3, <1>4, <2>1, <2>2
<1>7. ASSUME Receive(c) PROVE Moves
  <2>1. \E r \in {"ok", "toolerror", "error"} : CallReturns(c, r)
    BY <1>7 DEF Receive
  <2>2. \E r \in Results : Returns(c, r)
    BY <2>1 DEF CallReturns, Results
  <2> QED BY <1>2, <2>2
<1>8. ASSUME ReceiveEof(c) \/ GiveUp(c) \/ StartFails(c) PROVE Moves
  <2>1. Returns(c, "error") /\ "error" \in Results
    BY <1>8 DEF ReceiveEof, GiveUp, StartFails, CallReturns, Results
  <2> QED BY <1>2, <2>1
<1>9. ASSUME UseFresh(c) \/ StartClient(c) \/ CloseStale(c) PROVE Moves
  <2>1. (Goes(c, "lock") \/ Goes(c, "starting")) /\ pc[c] \in BeforeRequest
    BY <1>9 DEF UseFresh, StartClient, CloseStale, BeforeRequest
  <2> QED BY <1>3, <2>1
<1>12. Moves
  BY <1>5, <1>6, <1>7, <1>8, <1>9 DEF McpCall
<1> QED BY <1>1, <1>12 DEF Moves

\* A step that leaves owners and asked alone adds no request.
LEMMA SameRequests ==
  ASSUME McpInv, NEW g \in Gens,
         client'[g].owners = client[g].owners, client'[g].asked = client[g].asked,
         \A h \in Gens : h # g => client'[h] = client[h]
  PROVE  \A h \in Gens : /\ client'[h].asked \subseteq client[h].asked
                         /\ \A id \in client'[h].asked :
                              client'[h].owners[id] = client[h].owners[id]
  OBVIOUS

\* Only Send adds a request.
LEMMA OnlySendAsks ==
  ASSUME McpInv, NEW c \in Callers, McpCall(c), ~Send(c)
  PROVE  \A g \in Gens : /\ client'[g].asked \subseteq client[g].asked
                         /\ \A id \in client'[g].asked :
                              client'[g].owners[id] = client[g].owners[id]
<1>1. client \in [Gens -> Clients] /\ \A d \in Callers : mine[d] <= cur
  BY DEF McpInv, McpTypeOK, ClientsKnown
<1>2. CASE UNCHANGED client
  BY <1>2
<1>3. CASE Receive(c) \/ ReceiveEof(c) \/ GiveUp(c)
  <2>1. PICK g \in Gens : g = mine[c]
    BY <1>3 DEF Receive, ReceiveEof, GiveUp, McpInv, McpTypeOK
  <2>2. client[g] \in Clients
    BY <1>1
  <2>3. /\ client'[g].owners = client[g].owners /\ client'[g].asked = client[g].asked
        /\ \A h \in Gens : h # g => client'[h] = client[h]
    <3>1. CASE Receive(c)
      <4>1. client' = [client EXCEPT ![g].pipe = AfterHead(client[g].pipe), ![g].decoders = @ - 1]
        BY <2>1, <3>1 DEF Receive
      <4> QED BY <1>1, <2>2, <4>1 DEF Clients
    <3>2. CASE ReceiveEof(c)
      <4>1. client' = [client EXCEPT ![g].decoders = @ - 1]
        BY <2>1, <3>2 DEF ReceiveEof
      <4> QED BY <1>1, <2>2, <4>1 DEF Clients
    <3>3. CASE GiveUp(c)
      <4>1. client' = [client EXCEPT ![g].poisoned = TRUE]
        BY <2>1, <3>3 DEF GiveUp
      <4> QED BY <1>1, <2>2, <4>1 DEF Clients
    <3> QED BY <1>3, <3>1, <3>2, <3>3
  <2> QED BY <2>3, SameRequests
<1>4. CASE CloseStale(c)
  BY <1>1, <1>4 DEF CloseStale, Clients
<1>5. CASE StartClient(c)
  <2>1. PICK poisoned \in BOOLEAN : client' = [client EXCEPT ![cur + 1] = Born(poisoned)]
    BY <1>5 DEF StartClient, McpInv, McpTypeOK
  <2>2. Born(poisoned).asked = {}
    BY BornClient
  <2>3. \A g \in Gens : client'[g] = client[g] \/ client'[g] = Born(poisoned)
    BY <1>1, <2>1
  <2> QED BY <2>2, <2>3
<1>6. CASE Get(c) \/ UseFresh(c) \/ StartFails(c)
  BY <1>6 DEF Get, UseFresh, StartFails
<1> QED BY <1>2, <1>3, <1>4, <1>5, <1>6 DEF McpCall

\* ... and the steps of a call over MCP.
LEMMA McpCallStep ==
  ASSUME Inductive, NEW c \in Callers, McpCall(c), UNCHANGED <<limiter, callState>>
  PROVE  Inductive'
<1>1. McpInv /\ CallInv /\ OneRequestAnAttempt /\ LimiterInv
  BY Parts
<1>2. McpInv' /\ LimiterInv'
  BY <1>1, McpCallKeeps, LimiterRests
<1>3. PICK to \in AllPcs \ {"backoff", "done"} :
        /\ pc' = [pc EXCEPT ![c] = to]
        /\ to \in BeforeRequest => pc[c] \in BeforeRequest
  BY <1>1, CallGoesOn
<1>4. /\ pc[c] # "done" /\ to \in AllPcs
      /\ UNCHANGED <<executed, call, attempt, outcome, dead>>
  BY <1>1, CallGoesOn DEF callState
<1>5. CallInv'
  BY <1>1, <1>3, <1>4, TypesHere, CallMoves
<1>6. CASE ~Send(c)
  <2>1. \A d \in Callers : Outstanding(d)' \subseteq Outstanding(d)
    BY <1>1, <1>6, OnlySendAsks, OutstandingShrinks
  <2>2. OneRequestAnAttempt'
    BY <1>1, <1>3, <1>4, <2>1, TypesHere, AccountMoves
  <2> QED BY <1>2, <1>5, <2>2, Parts
<1>7. CASE Send(c)
  <2>1. CASE UNCHANGED client
    <3>1. \A d \in Callers : Outstanding(d)' \subseteq Outstanding(d)
      BY <2>1, ShrinksWhenSame
    <3>2. OneRequestAnAttempt'
      BY <1>1, <1>3, <1>4, <3>1, TypesHere, AccountMoves
    <3> QED BY <1>2, <1>5, <3>2, Parts
  <2>2. CASE ~UNCHANGED client
    <3> DEFINE g == mine[c]
    <3>1. /\ client' = [client EXCEPT ![g].owners = Append(@, c),
                                      ![g].asked = @ \cup {Len(client[g].owners) + 1},
                                      ![g].decoders = @ + 1]
          /\ pc' = [pc EXCEPT ![c] = "read"] /\ pc[c] = "lock"
      BY <1>7, <2>2 DEF Send, Goes
    <3>2. g \in Gens
      BY <1>1, <3>1 DEF McpInv, McpTypeOK
    <3> HIDE DEF g
    <3>3. OneRequestAnAttempt'
      BY <1>1, <1>4, <3>1, <3>2, AccountSends
    <3> QED BY <1>2, <1>5, <3>3, Parts
  <2> QED BY <2>1, <2>2
<1> QED BY <1>6, <1>7

\* A server may run the tool once for each request that it has, ...
LEMMA ServesStep ==
  ASSUME Inductive, Serves
  PROVE  Inductive'
<1>1. McpInv /\ CallInv /\ OneRequestAnAttempt /\ LimiterInv
  BY Parts
<1>2. McpInv' /\ LimiterInv'
  BY <1>1, EnvironmentKeeps, LimiterRests DEF Serves
<1>3. UNCHANGED <<pc, call, attempt, outcome, dead>>
  BY DEF Serves, McpEnvironment, Respond, Notify, Die, LeftoverDecodes, callState
<1>4. CallInv'
  BY <1>1, <1>3, CallRests
<1>5. PICK g \in Gens : Respond(g) \/ Notify(g) \/ Die(g) \/ LeftoverDecodes(g)
  BY DEF Serves, McpEnvironment
<1>6. CASE Respond(g)
  <2>1. OneRequestAnAttempt'
    BY <1>1, <1>3, <1>6, AccountResponds
  <2> QED BY <1>2, <1>4, <2>1, Parts
<1>7. CASE Notify(g) \/ Die(g) \/ LeftoverDecodes(g)
  <2>1. client \in [Gens -> Clients] /\ executed' = executed
    BY <1>1, <1>7 DEF McpInv, McpTypeOK, Notify, Die, LeftoverDecodes
  <2>2. \A h \in Gens : /\ client'[h].asked \subseteq client[h].asked
                        /\ \A id \in client'[h].asked :
                             client'[h].owners[id] = client[h].owners[id]
    <3>1. client[g] \in Clients
      BY <2>1
    <3>2. /\ client'[g].owners = client[g].owners /\ client'[g].asked = client[g].asked
          /\ \A h \in Gens : h # g => client'[h] = client[h]
      <4>1. CASE Notify(g)
        BY <2>1, <3>1, <4>1 DEF Notify, Clients
      <4>2. CASE Die(g)
        BY <2>1, <3>1, <4>2 DEF Die, Clients
      <4>3. CASE LeftoverDecodes(g)
        <5> DEFINE rest == AfterHead(client[g].pipe)
        <5>1. client' = [client EXCEPT ![g].decoders = @ - 1, ![g].pipe = rest]
          BY <4>3 DEF LeftoverDecodes
        <5> HIDE DEF rest
        <5> QED BY <2>1, <3>1, <5>1 DEF Clients
      <4> QED BY <1>7, <4>1, <4>2, <4>3
    <3> QED BY <1>1, <3>2, SameRequests
  <2>3. \A d \in Callers : Outstanding(d)' \subseteq Outstanding(d)
    BY <2>2, OutstandingShrinks
  <2>4. OneRequestAnAttempt'
    <3> SUFFICES ASSUME NEW d \in Callers
                 PROVE  /\ IsFiniteSet(Outstanding(d)')
                        /\ executed[d] + Cardinality(Outstanding(d)') <= Left(d)
      BY <1>3, <2>1 DEF OneRequestAnAttempt, Left
    <3>1. IsFiniteSet(Outstanding(d)) /\ executed[d] + Cardinality(Outstanding(d)) <= Left(d)
      BY <1>1 DEF OneRequestAnAttempt, Left
    <3>2. /\ IsFiniteSet(Outstanding(d)')
          /\ Cardinality(Outstanding(d)') <= Cardinality(Outstanding(d))
          /\ Cardinality(Outstanding(d)') \in Nat /\ Cardinality(Outstanding(d)) \in Nat
      BY <2>3, <3>1, FS_Subset, FS_CardinalityType
    <3>3. executed[d] \in Nat /\ Left(d) \in Int
      BY TypesHere DEF Left
    <3> QED BY <3>1, <3>2, <3>3
  <2> QED BY <1>2, <1>4, <2>4, Parts
<1> QED BY <1>5, <1>6, <1>7

\* ... and time passes.
LEMMA PassesStep ==
  ASSUME Inductive, Passes
  PROVE  Inductive'
<1>1. McpInv /\ CallInv /\ OneRequestAnAttempt /\ LimiterInv
  BY Parts
<1>2. UNCHANGED mcp /\ UNCHANGED <<pc, call, attempt, outcome, dead, executed, client>>
  BY DEF Passes, mcp, callState
<1>3. McpInv' /\ CallInv'
  BY <1>1, <1>2, McpRests, CallRests
<1>4. LimiterInv'
  BY <1>1, TickKeeps DEF Passes
<1>5. OneRequestAnAttempt'
  BY <1>1, <1>2 DEF OneRequestAnAttempt, Outstanding
<1> QED BY <1>3, <1>4, <1>5, Parts

\* Nothing changes.
LEMMA StutterStep ==
  ASSUME Inductive, UNCHANGED vars
  PROVE  Inductive'
<1>1. McpInv /\ CallInv /\ OneRequestAnAttempt /\ LimiterInv
  BY Parts
<1>2. /\ UNCHANGED mcp /\ UNCHANGED limiter
      /\ UNCHANGED <<pc, call, attempt, outcome, dead, executed, client>>
  BY DEF vars, mcp
<1>3. McpInv' /\ CallInv' /\ LimiterInv'
  BY <1>1, <1>2, McpRests, CallRests, LimiterRests
<1>4. OneRequestAnAttempt'
  BY <1>1, <1>2 DEF OneRequestAnAttempt, Outstanding
<1> QED BY <1>3, <1>4, Parts

\* No call was made yet.
LEMMA Starts ==
  Init => Inductive
<1> SUFFICES ASSUME Init PROVE Inductive
  OBVIOUS
<1>1. pc \in [Callers -> {"limit", "get", "http"}]
  BY DEF Init, Enters
<1>2. McpInv
  BY <1>1, McpStarts DEF Init
<1>3. LimiterInv
  <2>1. /\ Burst \in Nat \ {0} /\ Interval \in Nat \ {0} /\ age = 0 /\ tokens = Burst
        /\ ideal = Burst /\ paid = 0 /\ free = 0 /\ sleep = [c \in Callers |-> Awake]
        /\ limited \subseteq Callers
    BY LimiterOK DEF Init, LimiterInit
  <2>2. 0 \in 0..(Burst + 1) * Interval - 1
    BY <2>1
  <2>7. sleep \in [Callers -> Awake..Interval]
    BY <2>1 DEF Awake
  <2>8. age \in 0..(Burst + 1) * Interval - 1
    BY <2>1, <2>2
  <2>9. tokens \in 0..Burst /\ ideal \in Int /\ ideal <= Burst
    BY <2>1
  <2>3. LimiterTypeOK
    BY <2>1, <2>7, <2>8, <2>9 DEF LimiterTypeOK
  <2>4. Refilled \in 0..Burst
    BY <2>3, RefilledValue
  <2>5. Asleep = {} /\ Overtaken = {}
    BY <2>1 DEF Asleep, Overtaken
  <2>10. Cardinality(Overtaken) = 0
    BY <2>5, FS_EmptySet
  <2>11. FreeRides(paid) = 0
    BY <2>1, OneMoreToken
  <2>6. BucketFollows
    BY <2>1, <2>4, <2>5, <2>10, <2>11 DEF BucketFollows
  <2> QED BY <2>3, <2>6 DEF LimiterInv
<1>4. ASSUME NEW c \in Callers PROVE 1 \in 1..MaxAttempts(c)
  <2>1. MaxAttempts(c) \in Nat /\ MaxAttempts(c) >= 1
    BY AtLeastOne DEF Init
  <2> QED BY <2>1
<1>5. CallInv
  BY <1>1, <1>4 DEF Init, CallInv, AttemptsLeft, Outcomes
<1>6. OneRequestAnAttempt
  <2> SUFFICES ASSUME NEW c \in Callers
               PROVE  /\ IsFiniteSet(Outstanding(c))
                      /\ executed[c] + Cardinality(Outstanding(c)) <= Left(c)
    BY DEF OneRequestAnAttempt, Left
  <2>1. PICK poisoned \in BOOLEAN :
          client = [g \in Gens |-> IF g = 1 THEN Born(poisoned) ELSE Fresh]
    BY DEF Init, McpInit
  <2>2. \A g \in Gens : client[g].asked = {}
    BY <2>1, BornClient, FreshClient
  <2>3. Outstanding(c) = {}
    BY <2>2 DEF Outstanding
  <2>4. IsFiniteSet(Outstanding(c)) /\ Cardinality(Outstanding(c)) = 0
    BY <2>3, FS_EmptySet
  <2>5. executed[c] = 0 /\ Left(c) \in {0, 1}
    BY DEF Init, McpInit, Left
  <2> QED BY <2>4, <2>5
<1> QED BY <1>2, <1>3, <1>5, <1>6 DEF Inductive, TypeOK, McpInv, LimiterInv, CallInv, AllPcs,
       Outcomes

\* Every step preserves the invariant.
LEMMA NextKeeps ==
  Inductive /\ [Next]_vars => Inductive'
<1> SUFFICES ASSUME Inductive, [Next]_vars PROVE Inductive'
  OBVIOUS
<1>1. CASE Passes
  BY <1>1, PassesStep
<1>2. CASE Serves
  BY <1>2, ServesStep
<1>3. CASE Ended \/ UNCHANGED vars
  BY <1>3, StutterStep DEF Ended
<1>4. ASSUME NEW c \in Callers, Expire(c) \/ Attempt(c)
      PROVE  Inductive'
  <2>1. CASE Expire(c)
    BY <2>1, ExpireStep
  <2>2. CASE McpCall(c) /\ UNCHANGED <<limiter, callState>>
    BY <2>2, McpCallStep
  <2>3. CASE Limit(c)
    BY <2>3, LimitStep
  <2>4. CASE WakeUp(c)
    BY <2>4, WakeUpStep
  <2>5. CASE HttpAttempt(c)
    BY <2>5, HttpStep
  <2>6. CASE BacksOff(c)
    BY <2>6, BacksOffStep
  <2>7. CASE TryAgain(c)
    BY <2>7, TryAgainStep
  <2>8. CASE \/ CancelledAsleep(c) \/ CancelledInBackoff(c) \/ Succeeds(c) \/ ToolFails(c)
             \/ Fails(c) \/ Refuse(c)
    BY <2>8, EndingSteps
  <2> QED BY <1>4, <2>1, <2>2, <2>3, <2>4, <2>5, <2>6, <2>7, <2>8 DEF Attempt
<1> QED BY <1>1, <1>2, <1>3, <1>4 DEF Next

-----------------------------------------------------------------------------
(* The theorems.                                                            *)

\* The inductive invariant of tool calls over a limiter and an MCP server.
THEOREM InductiveHolds ==
  Spec => []Inductive
  BY Starts, NextKeeps, PTL DEF Spec

\* Buckets, clients, pipes and attempts hold values of their types.
THEOREM CallsTypeOK ==
  Spec => []TypeOK
<1>1. Inductive => TypeOK
  BY DEF Inductive
<1> QED BY <1>1, InductiveHolds, PTL

\* A caller that gets an answer gets the one to its own request, however late
\* the answers to abandoned requests are (client.go:336-338).
THEOREM OwnResponseOnly ==
  Spec => []OwnResponse
<1>1. Inductive => OwnResponse
  BY DEF Inductive
<1> QED BY <1>1, InductiveHolds, PTL

\* Two goroutines never read from one pipe (client.go:314-331).
THEOREM OneDecoderOnly ==
  Spec => []OneDecoder
<1>1. Inductive => OneDecoder
  BY DEF Inductive, DecodersHeld, OneDecoder
<1> QED BY <1>1, InductiveHolds, PTL

\* A server runs the tool of a call no more often than the call has attempts,
\* also when it answers after the call gave up (executor.go:158-169).
THEOREM NeverTooOften ==
  Spec => []RunsWithinAttempts
<1>1. Inductive => RunsWithinAttempts
  <2> SUFFICES ASSUME Inductive, NEW c \in Callers PROVE executed[c] <= MaxAttempts(c)
    BY DEF RunsWithinAttempts
  <2>1. /\ IsFiniteSet(Outstanding(c))
        /\ executed[c] + Cardinality(Outstanding(c)) <= Left(c)
        /\ Cardinality(Outstanding(c)) \in Nat
    BY FS_CardinalityType DEF Inductive, OneRequestAnAttempt, Left
  <2>2. /\ executed[c] \in Nat /\ attempt[c] \in Nat /\ attempt[c] \in 1..MaxAttempts(c)
        /\ MaxAttempts(c) \in Int
    BY TypesHere, AtLeastOne DEF Inductive, TypeOK
  <2>3. Left(c) <= attempt[c] /\ Left(c) \in Int
    BY <2>2 DEF Left
  <2> QED BY <2>1, <2>2, <2>3
<1> QED BY <1>1, InductiveHolds, PTL

\* A host gets no more requests with a token than its rate and burst allow, and
\* for each of them no more without one than it has other callers: however they
\* sleep for one token and overtake each other (ratelimit.go:29-51 and 90-102).
THEOREM RateIsHeld ==
  Spec => []RateHeld
<1>1. Inductive => RateHeld
  <2> SUFFICES ASSUME Inductive PROVE RateHeld
    OBVIOUS
  <2>1. /\ ideal + free >= Refilled /\ Refilled \in 0..Burst /\ Burst \in Nat
        /\ ideal \in Int /\ free \in Nat /\ Cardinality(Overtaken) \in Nat
        /\ free + Cardinality(Overtaken) <= FreeRides(paid) /\ FreeRides(paid) \in Int
    BY Parts, LimiterNumbers
  <2> QED BY <2>1 DEF RateHeld
<1> QED BY <1>1, InductiveHolds, PTL

\* A client is replaced only when it is poisoned: two callers that find one
\* stale client do not replace the new one (registry.go:85-88).
THEOREM ReplacedWhenPoisoned ==
  Spec => OnlyPoisonedReplaced
<1> DEFINE A == \A c \in Callers :
                  pc[c] = "recreate" /\ pc'[c] = "starting" => client[cur].poisoned
<1>1. Inductive /\ [Next]_vars => [A]_mcp
  <2> SUFFICES ASSUME Inductive, [Next]_vars, ~UNCHANGED mcp,
                      NEW c \in Callers, pc[c] = "recreate", pc'[c] = "starting"
               PROVE  client[cur].poisoned
    OBVIOUS
  <2>1. client[mine[c]].poisoned /\ pc \in [Callers -> AllPcs]
    BY DEF Inductive, GivenUp, TypeOK, AllPcs
  <2>2. CloseStale(c)
    <3>1. PICK d \in Callers : Attempt(d)
      BY <2>1 DEF Next, Passes, Serves, Ended, Expire, McpEnvironment, Respond, Notify, Die,
         LeftoverDecodes, mcp, vars
    <3>2. d = c
      <4>1. \A e \in Callers : e # d => pc'[e] = pc[e]
        BY <2>1, <3>1, CallGoesOn, Parts DEF Attempt, Limit, WakeUp, CancelledAsleep, HttpAttempt,
           Succeeds, ToolFails, Fails, Refuse, BacksOff, CancelledInBackoff, TryAgain, Dispatch,
           Goes, Ends, Returns
      <4> QED BY <4>1
    <3> QED BY <2>1, <3>1, <3>2 DEF Attempt, Enters, Limit, WakeUp, CancelledAsleep, HttpAttempt,
           Succeeds, ToolFails, Fails, Refuse, BacksOff, CancelledInBackoff, TryAgain, McpCall,
           Get, Send, Receive, ReceiveEof, GiveUp, UseFresh, StartClient, StartFails, Goes
  <2> QED BY <2>1, <2>2 DEF CloseStale, StillStale
<1>2. OnlyPoisonedReplaced <=> [][A]_mcp
  BY DEF OnlyPoisonedReplaced
<1> QED BY <1>1, <1>2, InductiveHolds, PTL DEF Spec
=============================================================================
