--------------------------- MODULE MCAgentRegistry ---------------------------
(* One agent built at most twice: the second generation meets the threads the *)
(* first left behind.                                                         *)
EXTENDS AgentRegistry
==============================================================================
