------------------------------ MODULE MCTannery ------------------------------
(***************************************************************************)
(* Backpressure under two clients; a delivery that comes twice to two      *)
(* queues; the operator's calls on failed items; a workflow run.           *)
(***************************************************************************)
EXTENDS Tannery, TLC

CONSTANTS a, b

q1 == <<"q1">>
q2 == <<"q2">>
None == <<>>

Def(name, q) == [name |-> name, queue |-> q, prefix |-> None]
Route(event, name, q) ==
  [source |-> "git", event |-> event, curing |-> name, queue |-> q, pattern |-> None]

Defs   == {Def("one", q1), Def("two", q2)}
Routes == << Route("", "one", q1), Route("push", "two", q2) >>

\* Both routes lead to one queue.
OneQueue == << Route("", "one", q1), Route("push", "one", q1) >>

Webhook(event, delivery, sends) ==
  [kind |-> "webhook", source |-> "git", event |-> event, delivery |-> delivery, sends |-> sends,
   curing |-> "", queue |-> None]
Intake(curing, sends) ==
  [kind |-> "intake", source |-> "api", event |-> "", delivery |-> 0, sends |-> sends,
   curing |-> curing, queue |-> None]

Base == [queues |-> {q1}, maxDepth |-> [q \in {q1, q2} |-> 0], attempts |-> 1,
         routes |-> Routes, defs |-> Defs, clients |-> (a :> Intake("one", 1)), ops |-> {},
         faults |-> 0, crashes |-> 0, workflow |-> FALSE, timeout |-> FALSE]

Both == [Base EXCEPT !.queues = {q1, q2}]

AllSetups ==
  { [Both EXCEPT !.clients = (a :> Webhook("push", 0, 2)) @@ (b :> Intake("two", 1)),
                 !.maxDepth = [q \in {q1, q2} |-> 1], !.attempts = 2],
    [Both EXCEPT !.clients = (a :> Webhook("push", 0, 1)) @@ (b :> Intake("one", 1)),
                 !.routes = OneQueue, !.maxDepth = [q \in {q1, q2} |-> 1], !.crashes = 1,
                 !.faults = 1],
    [Both EXCEPT !.clients = (a :> Webhook("push", 7, 2)), !.faults = 1, !.crashes = 1],
    [Both EXCEPT !.ops = {"requeue", "drain", "delete"}, !.faults = 2, !.crashes = 1],
    [Both EXCEPT !.clients = (a :> Intake("one", 2)), !.ops = {"requeue"}, !.faults = 1],
    [Both EXCEPT !.clients = (a :> Intake("one", 2)), !.attempts = 2, !.ops = {"cli"},
                 !.faults = 1, !.crashes = 2],
    [Both EXCEPT !.workflow = TRUE],
    [Both EXCEPT !.workflow = TRUE, !.timeout = TRUE] }

\* An item that is tried again while the command looks.
EarlySetups == { [Both EXCEPT !.attempts = 2, !.workflow = TRUE] }
==============================================================================
