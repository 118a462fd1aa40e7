---------------------------- MODULE MCChatHistory ----------------------------
(* Short and long messages; the long ones pass the threshold in pairs, so the *)
(* third turn of a conversation already summarises a summary.                 *)
EXTENDS ChatHistory

MCSize == {1, 3}
==============================================================================
