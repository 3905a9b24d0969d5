---------------------------- MODULE MCToolCalls ----------------------------
(***************************************************************************)
(* Two agents on one MCP server, one of them with a retry; and two callers *)
(* of one limited HTTP host.                                               *)
(***************************************************************************)
EXTENDS ToolCalls, TLC

CONSTANTS a, b

Mcp(retry) == [type |-> "mcp", retry |-> retry, limited |-> FALSE]
Http(retry) == [type |-> "http", retry |-> retry, limited |-> TRUE]

AllSetups ==
  { (a :> Mcp(0)) @@ (b :> Mcp(2)),
    (a :> Http(3)) @@ (b :> Http(0)) }
============================================================================
