------------------------------ MODULE MCAgentTurn ------------------------------
(* A small instance of AgentTurn for TLC. *)
EXTENDS AgentTurn

(* The reply before this one was cut off in a turn with two calls of which  *)
(* one had its result.                                                      *)
CutOffHistory == <<User, Interrupted(<<1, 2>>), ToolResult(1, <<0, 1>>)>>
=============================================================================
