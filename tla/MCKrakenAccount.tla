--------------------------- MODULE MCKrakenAccount ---------------------------
(* The endpoints of the checked instance. *)
EXTENDS KrakenAccount
MCEndpoint == <<"tradeVolume">>
=============================================================================
