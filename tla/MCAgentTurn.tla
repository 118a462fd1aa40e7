----------------------------- MODULE MCAgentTurn ------------------------------
(* Two rounds of up to two calls, one of them after the server has gone wrong. *)
EXTENDS AgentTurn
===============================================================================
