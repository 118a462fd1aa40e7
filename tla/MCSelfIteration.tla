--------------------------- MODULE MCSelfIteration ----------------------------
(* Two engines, two runs of at most two edits, one file they may edit and one  *)
(* they may not, three rows of two conversations.                              *)
EXTENDS SelfIteration, TLC

EngineSymmetry == Permutations(Engine)
===============================================================================
