--------------------------- MODULE MCSummaryCache ---------------------------
(* SummaryCache for TLC: processes are alike, and nothing checked under this *)
(* symmetry is a liveness property.                                          *)
EXTENDS SummaryCache, TLC

ProcessSymmetry == Permutations(Process)
=============================================================================
