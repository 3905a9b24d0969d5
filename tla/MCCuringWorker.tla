--------------------------- MODULE MCCuringWorker ---------------------------
(* Two curings in a pipeline: triage forwards its artifacts to report.     *)
EXTENDS CuringWorker, TLC

CONSTANTS triage, report, none

MCQueues == {triage, report}
Pipeline == (triage :> report) @@ (report :> none)

TriageOnly == {triage}
Both       == {triage, report}

OneEach == [q \in MCQueues |-> 1]
TwoTriage == (triage :> 2) @@ (report :> 1)
TwoEach == [q \in MCQueues |-> 2]
=============================================================================
