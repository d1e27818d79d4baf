----------------------------- MODULE MCJobQueue -----------------------------
(* Small instances of JobQueue for TLC. *)
EXTENDS JobQueue
CONSTANTS r1, r2, k1, k2

MCCall ==
  {[resource |-> r1, key |-> k1, priority |-> 10],
   [resource |-> r1, key |-> k2, priority |-> 30],
   [resource |-> r2, key |-> k2, priority |-> 20]}
MCResource == {r1, r2}
MCUserKey == {k1, k2}
MCPriority == {10, 20, 30}
=============================================================================
