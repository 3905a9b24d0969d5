--------------------------- MODULE MCQueueManager ---------------------------
EXTENDS QueueManager

CONSTANTS p1, p2, p3

MCProducers == {p1, p2, p3}
OneChecks   == {p1}

\* One delivery that is sent several times.
SameId == [p \in Producers |-> p1]

Static    == [producers |-> MCProducers, singleUse |-> FALSE]
SingleUse == [producers |-> {p1}, singleUse |-> TRUE]

BothModes     == {Static, SingleUse}
SingleUseOnly == {SingleUse}
=============================================================================
