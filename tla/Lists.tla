--------------------------------- MODULE Lists ---------------------------------
(***************************************************************************)
(* Lists that are filtered, as Array.filter does: rows and saved graphs    *)
(* (Desk), the charts that wait for a place to load in (Tiles).            *)
(***************************************************************************)
EXTENDS Integers, Sequences

\* What of a sequence is in a set, in its order.
Selected(s, S) ==
  LET F[n \in 0 .. Len(s)] ==
        IF n = 0 THEN <<>> ELSE IF s[n] \in S THEN Append(F[n - 1], s[n]) ELSE F[n - 1]
  IN F[Len(s)]

=============================================================================
