---------------------------- MODULE MCAgentConfig ----------------------------
(* Two agents, three starts of the bot, two faults.                           *)
EXTENDS AgentConfig
==============================================================================
