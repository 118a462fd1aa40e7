---------------------------- MODULE MCPolicyEngine ----------------------------
(* Two workers, a midnight, two actors: a worker inside the reset at midnight  *)
(* can set the day back after the other has marked it.                         *)
EXTENDS PolicyEngine, TLC

PolicySymmetry == Permutations(Worker) \cup Permutations(Actor)
===============================================================================
