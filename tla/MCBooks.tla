-------------------------------- MODULE MCBooks --------------------------------
(* A small account and the addresses it was paid from. *)
EXTENDS Books

MCTrade ==
  {[id |-> 1, at |-> 1, asset |-> "btc", side |-> "buy", quantity |-> 3,
    cost |-> 7, fee |-> 1, quote |-> "cad"],
   [id |-> 2, at |-> 5, asset |-> "btc", side |-> "sell", quantity |-> 2,
    cost |-> 4, fee |-> 1, quote |-> "usd"]}
MCEntry ==
  {[id |-> 3, at |-> 2, asset |-> "btc", type |-> "deposit", quantity |-> 2],
   [id |-> 4, at |-> 4, asset |-> "btc", type |-> "earn", quantity |-> 1]}
Price(provider, kind, value) ==
  [at |-> 4, provider |-> provider, asset |-> "btc", quote |-> "cad",
   kind |-> kind, value |-> value]
MCPoint == {Price("kraken", "native", 3), Price("coingecko", "derived", 4)}

\* Both deposits may be the first payment; only one of them names it.
MCLedger ==
  {[id |-> 3, at |-> 2, asset |-> "btc", type |-> "deposit", quantity |-> 2,
    fee |-> NoFee, tx |-> ""],
   [id |-> 4, at |-> 3, asset |-> "btc", type |-> "deposit", quantity |-> 2,
    fee |-> NoFee, tx |-> "tx"]}
MCEvent ==
  {[id |-> 1, at |-> 3, asset |-> "btc", out |-> TRUE, quantity |-> 2,
    fee |-> 1, tx |-> "tx", final |-> FALSE],
   [id |-> 2, at |-> 2, asset |-> "btc", out |-> TRUE, quantity |-> 3,
    fee |-> NoFee, tx |-> "", final |-> TRUE]}
=============================================================================
