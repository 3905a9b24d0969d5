----------------------------- MODULE DurableFifo -----------------------------
(***************************************************************************)
(* What a caller of internal/queue may rely on, stated without the file:   *)
(* a first-in first-out sequence of entries that outlives the process.     *)
(* An entry whose Enqueue reported an error is "unsure": it may stay, and  *)
(* a crash may take it.  No other entry leaves except into a caller's      *)
(* hands, and no entry changes its place.  The promise ends with the first *)
(* DequeueByIDs or Drain that fails ("intact" is false from then on).      *)
(***************************************************************************)
EXTENDS Selection, Functions

CONSTANT Entries     \* every entry any caller may ever enqueue

VARIABLES pending,   \* the entries in the queue, oldest first
          unsure,    \* entries whose Enqueue reported an error
          handed,    \* entries a removing operation returned to its caller
          intact     \* no DequeueByIDs and no Drain has failed

fifoVars == <<pending, unsure, handed, intact>>

Without(s, S) == Select(s, Range(s) \ S)

Init ==
  /\ pending = <<>>
  /\ unsure = {}
  /\ handed = {}
  /\ intact = TRUE

Put(e) ==
  /\ e \notin Range(pending) \cup unsure \cup handed
  /\ pending' = Append(pending, e)
  /\ unsure' \in {unsure, unsure \cup {e}}
  /\ UNCHANGED handed

\* A caller takes some of the entries; the others keep their order.
Take(S) ==
  /\ S # {}
  /\ pending' = Without(pending, S)
  /\ handed' = handed \cup S
  /\ UNCHANGED unsure

\* A crash may take entries nobody was told are safe, and no others.
Lose(S) ==
  /\ S \subseteq unsure
  /\ pending' = Without(pending, S)
  /\ UNCHANGED <<unsure, handed>>

Next ==
  \/ /\ intact' = TRUE
     /\ \/ \E e \in Entries : Put(e)
        \/ \E S \in SUBSET Range(pending) : Take(S) \/ Lose(S)
  \/ intact' = FALSE

Spec == Init /\ [][Next]_fifoVars
=============================================================================
