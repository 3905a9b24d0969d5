----------------------------- MODULE ToolCallers -----------------------------
(* The concurrent tool calls that share the limiter and the MCP server.      *)
EXTENDS FiniteSets

CONSTANTS
  Callers,
  None      \* no caller

ASSUME NoCaller == None \notin Callers

ASSUME CallersFinite == IsFiniteSet(Callers)
=============================================================================
