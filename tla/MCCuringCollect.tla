--------------------------- MODULE MCCuringCollect ---------------------------
EXTENDS CuringCollect

CONSTANTS e1, e2, left, right, none

MCEvents == {e1, e2}
MCLegs   == {left, right}

Setup(out, events, faults) == [out |-> out, events |-> events, faults |-> faults]

\* Two events share the static queue; the single-use queues do not meet.
AllSetups ==
  {Setup("static", {e1, e2}, {"collect", "panic"}),
   Setup("static", {e1},     {"collect", "crash"}),
   Setup("single", {e1, e2}, {"collect"}),
   Setup("single", {e1},     {"collect", "panic", "crash"}),
   Setup("single", {e1},     {"collect", "panic", "save"}),
   Setup("single", {e1},     {"collect", "delete"})}

FailingGroups    == {Setup("static", {e1}, {"collect"})}
FailingEvictions == {Setup("single", {e1}, {"save"})}
=============================================================================
