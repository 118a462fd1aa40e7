---------------------------- MODULE MCWorkerPool ----------------------------
(* Two conversations and three messages: two of the first conversation, of   *)
(* which one arrives without a key, and one of the second; two threads call  *)
(* enqueue (the program has one, the pool relies on no bound).  Three slot   *)
(* objects: one more than a correct pool ever makes.                         *)
EXTENDS WorkerPool, TLC

CONSTANTS g, c, m1, m2, m3

MCKeyOf == (m1 :> NoKey) @@ (m2 :> g) @@ (m3 :> c)
==============================================================================
