------------------------------- MODULE Routing -------------------------------
(***************************************************************************)
(* Where an intake goes (internal/curing/router.go, intake.go) and what is *)
(* checked of the routes before the tannery starts (internal/config/       *)
(* tannery.go, ValidateTannery).  A queue name is the sequence of its      *)
(* parts; "{{hide_id}}" is a part of a pattern.  An empty name, source or  *)
(* event is "" or <<>>, as in the YAML.                                    *)
(*                                                                         *)
(*   a route      [source, event, curing, queue, pattern]                  *)
(*   a definition [name, queue, prefix]                                    *)
(*   a request    [curing, queue, source, event]                           *)
(***************************************************************************)
EXTENDS Integers, Sequences, FiniteSets, SequencesExt, Selection

CONSTANTS HideId,   \* the template token
          NoRoute, Refused

HasPrefix(name, prefix) == IsPrefix(prefix, name)

Matches(r, source, event) == r.source = source /\ r.event \in {"", event}

\* Router.MatchAll, and Match: the first of them.
MatchAll(routes, source, event) ==
  Select(routes, {r \in Range(routes) : Matches(r, source, event)})

Match(routes, source, event) ==
  LET all == MatchAll(routes, source, event)
  IN  IF all = <<>> THEN NoRoute ELSE Head(all)

-----------------------------------------------------------------------------
Routing(curing, queue, pattern) == [curing |-> curing, queue |-> queue, pattern |-> pattern]

Routed(r) == r.queue # <<>> \/ r.pattern # <<>>

\* A declared queue, or one in the namespace of a curing.
CheckQueue(defs, queues, name) ==
  \/ name \in queues
  \/ \E d \in defs : d.prefix # <<>> /\ HasPrefix(name, d.prefix)

\* The curing that consumes the queue, when there is exactly one.
Owner(defs, queue) ==
  LET owners == {d \in defs : d.queue = queue}
  IN  IF Cardinality(owners) = 1 THEN (CHOOSE d \in owners : TRUE).name ELSE ""

ByCuring(req, defs, queues) ==
  LET named == {d \in defs : d.name = req.curing}
      def   == CHOOSE d \in named : TRUE
  IN  IF named = {} THEN Refused
      ELSE IF req.queue # <<>>
        THEN IF CheckQueue(defs, queues, req.queue)
               THEN Routing(def.name, req.queue, <<>>) ELSE Refused
        ELSE IF def.queue # <<>> THEN Routing(def.name, def.queue, <<>>) ELSE Refused

\* The rule of POST /intake and of `leather ingest`.
ResolveRouting(req, routes, defs, queues) ==
  IF req.curing # "" THEN ByCuring(req, defs, queues)
  ELSE IF req.queue # <<>>
    THEN IF CheckQueue(defs, queues, req.queue)
           THEN Routing(Owner(defs, req.queue), req.queue, <<>>) ELSE Refused
  ELSE LET r == Match(routes, req.source, req.event)
       IN  IF r = NoRoute THEN Routing("", <<>>, <<>>)
                          ELSE Routing(r.curing, r.queue, r.pattern)

-----------------------------------------------------------------------------
\* The literal text of a pattern in front of its first token.
Literal(pattern) ==
  LET tokens == {i \in DOMAIN pattern : pattern[i] = HideId}
  IN  IF tokens = {} THEN pattern
      ELSE SubSeq(pattern, 1, (CHOOSE i \in tokens : \A j \in tokens : i <= j) - 1)

PatternOK(pattern, prefixes) ==
  /\ Literal(pattern) # <<>>
  /\ prefixes # {} =>
       \E p \in prefixes : HasPrefix(Literal(pattern), p) \/ HasPrefix(p, Literal(pattern))

RouteOK(r, defs, queues) ==
  /\ \E d \in defs : d.name = r.curing
  /\ IF r.pattern = <<>>
       THEN r.queue \in queues
       ELSE PatternOK(r.pattern, {d.prefix : d \in defs} \ {<<>>})

ValidateTannery(routes, defs, queues) ==
  /\ \A i \in DOMAIN routes : RouteOK(routes[i], defs, queues)
  /\ routes # <<>> => defs # {}
==============================================================================
