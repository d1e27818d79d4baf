---------------------------- MODULE MCGraphCache ----------------------------
(* GraphCache for TLC: processes are alike, and nothing checked under  *)
(* this symmetry is a liveness property.                                   *)
EXTENDS GraphCache, TLC

ProcessSymmetry == Permutations(Process)
=============================================================================
