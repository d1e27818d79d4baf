-------------------------------- MODULE MCMarket --------------------------------
(* Prices that rise and fall within a bucket of two, and differ by provider. *)
EXTENDS Market, TLC

MCCoverage == {<<"coingecko", "USD">>, <<"coingecko", "CAD">>, <<"coinbase", "USD">>}
MCPrices ==
  (<<"coingecko", "USD">> :> <<2, 1, 2>>) @@ (<<"coingecko", "CAD">> :> <<3, 2, 2>>) @@
  (<<"coinbase", "USD">> :> <<2, 3, 1>>)
MCCourse == {[x \in Moments |-> MCPrices[<<x[1], x[2]>>][x[3] + 1]]}
=============================================================================
