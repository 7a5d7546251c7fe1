---------------------------- MODULE MCLoganQueue ----------------------------
(* LoganQueue on small instances: the callers are interchangeable. *)
EXTENDS LoganQueue, TLC

Callers == Permutations(Producers)
=============================================================================
