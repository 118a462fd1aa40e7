---------------------------- MODULE MCWebAccounts ----------------------------
(* Two browsers, one GitHub account and two QQ accounts.                      *)
EXTENDS WebAccounts, TLC

CONSTANTS b1, b2, g1, q1, q2, n1

Symmetry == Permutations({b1, b2}) \cup Permutations({q1, q2})
==============================================================================
