----------------------------- MODULE HostLimiter -----------------------------
(***************************************************************************)
(* The token bucket of one host (internal/tool/ratelimit.go).  Time goes   *)
(* in ticks, Interval of them to a token.  take refills from the time that *)
(* has passed; a caller that finds no token sleeps until the next one is   *)
(* due and goes, whether it is still there or another sleeper has had it.   *)
(* `ideal` is the bucket the comments promise: a token every interval, and *)
(* one taken for every request that is let through.                        *)
(***************************************************************************)
EXTENDS ToolCallers, Integers, FiniteSetsExt

CONSTANTS
  Burst,     \* tokens of a full bucket
  Interval   \* ticks between two tokens

ASSUME LimiterOK == Burst \in Nat \ {0} /\ Interval \in Nat \ {0}

VARIABLES
  limited,   \* the callers whose host has this bucket
  tokens,    \* as of the last take
  age,       \* ticks since `last`, no more than a full refill needs
  sleep,     \* ticks each caller still has to sleep, -1: it does not wait
  ideal,     \* what a real bucket would hold; negative: overdrawn
  paid,      \* history: requests let through with a token
  free       \* history: requests let through without one

limiter == <<limited, tokens, age, sleep, ideal, paid, free>>

Awake == -1
Asleep == {c \in Callers : sleep[c] # Awake}

LimiterInit ==
  /\ tokens = Burst /\ age = 0
  /\ sleep = [c \in Callers |-> Awake]
  /\ ideal = Burst /\ paid = 0 /\ free = 0

LimiterTypeOK ==
  /\ limited \subseteq Callers /\ paid \in Nat /\ free \in Nat
  /\ tokens \in 0..Burst /\ age \in 0..(Burst + 1) * Interval - 1
  /\ sleep \in [Callers -> Awake..Interval]
  /\ ideal \in Int /\ ideal <= Burst

-----------------------------------------------------------------------------
\* The refill at the beginning of take.
Refilled == Min({Burst, tokens + age \div Interval})

Take ==
  /\ tokens' = Max({Refilled - 1, 0})
  /\ age' = age % Interval

\* A request is let through, with the token there is or without one.
LetThrough ==
  /\ ideal' = ideal - 1
  /\ IF Refilled > 0 THEN paid' = paid + 1 /\ free' = free
                     ELSE free' = free + 1 /\ paid' = paid

\* The first half of Wait: a token at once, or sleep until the next is due.
AskToken(c) ==
  /\ c \in limited /\ sleep[c] = Awake
  /\ Take
  /\ IF Refilled > 0
     THEN LetThrough /\ UNCHANGED sleep
     ELSE /\ sleep' = [sleep EXCEPT ![c] = Interval - (age % Interval)]
          /\ UNCHANGED <<ideal, paid, free>>
  /\ UNCHANGED limited

\* Mutant: the caller wakes up and leaves the token where it is.
WakeWithoutTake(c) ==
  /\ sleep[c] = 0
  /\ sleep' = [sleep EXCEPT ![c] = Awake]
  /\ LetThrough
  /\ UNCHANGED <<limited, tokens, age>>

\* The second half: it takes the token that was due, and goes in any case.
Wake(c) ==
  /\ sleep[c] = 0
  /\ sleep' = [sleep EXCEPT ![c] = Awake]
  /\ Take /\ LetThrough
  /\ UNCHANGED limited

GiveUpWaiting(c) ==
  /\ sleep[c] # Awake
  /\ sleep' = [sleep EXCEPT ![c] = Awake]
  /\ UNCHANGED <<limited, tokens, age, ideal, paid, free>>

\* Time passes; a sleeper may be kept from running after his time.
Tick ==
  /\ limited # {}
  /\ age' = (IF age + 1 = (Burst + 1) * Interval THEN age + 1 - Interval ELSE age + 1)
  /\ ideal' = (IF (age + 1) % Interval = 0 THEN Min({Burst, ideal + 1}) ELSE ideal)
  /\ sleep' = [c \in Callers |-> IF sleep[c] > 0 THEN sleep[c] - 1 ELSE sleep[c]]
  /\ UNCHANGED <<limited, tokens, paid, free>>

\* The sleepers whose token another caller has taken: when their time is over
\* there may be none.
Overtaken == {c \in Asleep : age + sleep[c] < Interval}

\* How many requests n tokens may let through without one, at most.
FreeRides(n) == n * (Cardinality(limited) - 1)

\* Each token is awaited by the other callers at most, and those it does not
\* reach have gone or are still asleep.
BucketFollows ==
  /\ Asleep \subseteq limited
  /\ ideal + free >= Refilled
  /\ free + Cardinality(Overtaken) <= FreeRides(paid)

\* ratelimit.go:13-15: no stretch of time has more requests with a token than a
\* full bucket and a token for each interval in it; and however the callers that
\* sleep for one token overtake each other, are kept from running or give up, a
\* token takes along no more than one request of every other caller of the host.
RateHeld ==
  /\ ideal + free >= 0
  /\ free <= FreeRides(paid)
=============================================================================
