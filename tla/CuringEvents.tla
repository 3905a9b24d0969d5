---------------------------- MODULE CuringEvents ----------------------------
(***************************************************************************)
(* What the workers of a fan-out (CuringPrefix) and of the fan-in behind   *)
(* it (CuringCollect) share: an event is known by its hide, whose ID is    *)
(* also the correlation ID of all its items; every route of the event is a *)
(* leg.                                                                    *)
(***************************************************************************)
EXTENDS Integers, Sequences, FiniteSets

CONSTANTS
  Events, Legs, NoEvent,
  Setups         \* the configurations that are checked

Faults == {"intake", "leg", "output", "collect", "panic", "crash", "save", "delete", "names"}

ASSUME EventAssumption ==
  /\ NoEvent \notin Events
  /\ Setups \subseteq [out : {"none", "single", "static"}, events : SUBSET Events,
                      faults : SUBSET Faults]

\* Where the legs send their output: nowhere, to a queue for every event, or to
\* one for all; the events that come; and what may go wrong.
VARIABLE setup

\* The item a leg of an event is worked on with; also the name of its
\* single-use queue, and of the item that carries its output.
Keys == Events \X Legs

MayFail(what) == what \in setup.faults
=============================================================================
