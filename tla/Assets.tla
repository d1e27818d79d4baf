-------------------------------- MODULE Assets --------------------------------
(***************************************************************************)
(* The assets of an address (api/src/services/addresses.ts): the coin of   *)
(* its chain, and what tokens may be selected besides.                     *)
(***************************************************************************)
EXTENDS FiniteSets

CONSTANT Token

Native == "native"

ASSUME AssetAssumptions == Native \notin Token /\ IsFiniteSet(Token)

=============================================================================
