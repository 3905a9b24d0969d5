------------------------------- MODULE Session -------------------------------
(***************************************************************************)
(* The context window of one run of an agent (internal/session/session.go): *)
(* a sequence of messages and what Add, Reset, summarize and               *)
(* CompactLatestHidePage make of it.  Every message weighs one token, so   *)
(* `used` is the length of the window and the threshold a number of        *)
(* messages.                                                               *)
(***************************************************************************)
EXTENDS Integers, Sequences, SequencesExt, FiniteSetsExt

\* A message: its role, the turn it was added in, and what the session tells
\* apart in it: "page" is a page of a hide, "advance" a prompt to call
\* hide_next, "navigate" the calls of a round with a hide tool among them.
Message(role, turn, content) == [role |-> role, turn |-> turn, content |-> content]

Contents == {"identity", "skill", "prompt", "advance", "nudge", "text", "calls",
             "navigate", "page", "result", "summary"}
Messages(T) ==
  [role : {"system", "user", "assistant", "tool"}, turn : T, content : Contents]

IsSystem(m) == m.role = "system"

\* summarize collapses everything but the last system message into one
\* message of the assistant.
Summarized(s) ==
  LET rest == {i \in DOMAIN s : ~IsSystem(s[i])}
      system == DOMAIN s \ rest
      summary == Message("assistant", Min({s[i].turn : i \in rest}), "summary")
  IN  IF rest = {} THEN s
      ELSE IF system = {} THEN <<summary>>
      ELSE <<s[Max(system)], summary>>

Settled(s, threshold) == IF Len(s) >= threshold THEN Summarized(s) ELSE s

Add(s, m, threshold) == Settled(Append(s, m), threshold)

\* Mutant: a summary outlives the reset.
ResetKeepsSummary(s) ==
  SelectSeq(s, LAMBDA m : IsSystem(m) \/ m.content = "summary")

Reset(s) ==
  IF s # <<>> /\ IsSystem(Head(s)) THEN <<Head(s)>> ELSE <<>>

IsHidePageMessage(m) == m.content = "page" /\ m.role \in {"user", "tool"}

IsHideNavigationScaffold(m) == m.content \in {"advance", "navigate"}

\* Mutant: the scaffold is cut up to the page, which stays.
CompactKeepsPage(s, threshold) ==
  LET pages == {i \in 1..Len(s) - 1 : IsHidePageMessage(s[i])}
      page  == Max(pages)
      start == Min({i \in 1..page :
                      \A j \in i..page - 1 : IsHideNavigationScaffold(s[j])})
  IN  IF s = <<>> \/ Last(s).role # "assistant" \/ pages = {} THEN s
      ELSE Settled(SubSeq(s, 1, start - 1) \o <<s[page], Last(s)>>, threshold)

\* The last page, the calls that asked for it and all that follows go; the
\* assistant's summary of the page, the last message, stays.
CompactLatestHidePage(s, threshold) ==
  LET pages == {i \in 1..Len(s) - 1 : IsHidePageMessage(s[i])}
      page  == Max(pages)
      start == Min({i \in 1..page :
                      \A j \in i..page - 1 : IsHideNavigationScaffold(s[j])})
  IN  IF s = <<>> \/ Last(s).role # "assistant" \/ pages = {} THEN s
      ELSE Settled(Append(SubSeq(s, 1, start - 1), Last(s)), threshold)
=============================================================================
