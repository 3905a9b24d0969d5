---------------------------- MODULE AgentRunMC ----------------------------
(***************************************************************************)
(* Agents for the model checker: one with a required tool and a turn that  *)
(* clears the context, one whose declared turn brings a buffered tool, and *)
(* the reflection turns of a curing over a hide of two pages.              *)
(***************************************************************************)
EXTENDS AgentRun

PlainTurn ==
  [prompt |-> "prompt", clear |-> FALSE, skill |-> FALSE,
   declared |-> FALSE, tools |-> {}, require |-> {}]

Base ==
  [identity |-> TRUE, reflect |-> FALSE, cached |-> FALSE, base |-> {"act"},
   preload |-> 0, rounds |-> 2, threshold |-> 20, routes |-> {}, turns |-> <<PlainTurn>>]

Acting == [PlainTurn EXCEPT !.require = {"act"}]
Buffering == [PlainTurn EXCEPT !.declared = TRUE, !.tools = {"big", "act"}]
Page == [PlainTurn EXCEPT !.prompt = "page"]
Advance == [PlainTurn EXCEPT !.prompt = "advance"]

\* A tool with the default, one execution, and one with two.
Repeats == [t \in {"act", "big"} |-> IF t = "act" THEN 2 ELSE 0]

AllSetups ==
  { [Base EXCEPT !.turns = <<Acting, [Acting EXCEPT !.clear = TRUE]>>],
    [Base EXCEPT !.turns = <<Acting, [Acting EXCEPT !.clear = TRUE]>>, !.threshold = 5],
    [Base EXCEPT !.turns = <<Buffering, [Acting EXCEPT !.clear = TRUE, !.skill = TRUE]>>,
                 !.identity = FALSE, !.routes = {"queue"}],
    [Base EXCEPT !.turns = <<Page, Advance, PlainTurn>>, !.base = {}, !.preload = 2,
                 !.reflect = TRUE],
    [Base EXCEPT !.turns = <<Page, Advance>>, !.preload = 3],
    [Base EXCEPT !.cached = TRUE],
    [Base EXCEPT !.base = {}, !.turns = <<Acting>>] }
============================================================================
