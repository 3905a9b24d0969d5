------------------------------ MODULE Selection ------------------------------
(***************************************************************************)
(* The loop that filters a slice, for i := range items { if ... { kept =   *)
(* append(kept, items[i]) } }, as a function of how far it has come.  It   *)
(* is SelectSeq with a set for the test, so that SelectionProofs can prove *)
(* what it returns.                                                        *)
(***************************************************************************)
EXTENDS Integers, Sequences

\* The items of s that are in S, in the order they have in s.
Select(s, S) ==
  LET upTo[i \in 0..Len(s)] ==
        IF i = 0 THEN <<>>
        ELSE IF s[i] \in S THEN Append(upTo[i - 1], s[i]) ELSE upTo[i - 1]
  IN  upTo[Len(s)]
=============================================================================
