----------------------------- MODULE MCCuringFan -----------------------------
EXTENDS CuringFan, TLC

CONSTANTS e1, left, right, none

MCEvents == {e1}
MCLegs   == {left, right}

Setup(out, faults) == [out |-> out, events |-> MCEvents, faults |-> faults]

\* The legs are alike, and no property here is about time to come.
LegSymmetry == Permutations(MCLegs)

AllSetups ==
  {Setup("none",   {"intake", "leg", "panic", "crash", "delete", "names"}),
   Setup("single", {"leg", "collect", "panic", "crash", "save"}),
   Setup("single", {"collect", "save", "delete"}),
   Setup("single", {"output", "names"})}

Smooth        == {Setup("single", {})}
FailingLegs   == {Setup("single", {"leg"})}
=============================================================================
