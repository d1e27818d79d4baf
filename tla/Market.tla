-------------------------------- MODULE Market --------------------------------
(***************************************************************************)
(* The prices: how they come to be stored (MarketHistory) and what is made *)
(* of those that are (Series).                                             *)
(*                                                                         *)
(* Both look at market_points, the one at which buckets of one granularity *)
(* of one provider there are, the other at what rows of any say.  They     *)
(* share no variable, and a behaviour has the steps of one of them.        *)
(***************************************************************************)
EXTENDS MarketHistory, Series

VARIABLE side \* whose behaviour this is

marketVars == <<vars, seriesVars, side>>

Storing(A) == side = "history" /\ A /\ UNCHANGED <<seriesVars, side>>
Charting(A) == side = "series" /\ A /\ UNCHANGED <<vars, side>>

\* Of the side that stays as it is, one start will do.
MarketInit ==
  /\ side \in {"history", "series"}
  /\ Init
  /\ side = "series" => ~ enabled /\ provider = CHOOSE p \in Providers : TRUE
  /\ SeriesInit
  /\ side = "history" => course = CHOOSE c \in Course : TRUE

MarketNext == Storing(Next) \/ Charting(SeriesNext)

\* The timer fires every minute, and the queue claims what it can.
MarketFairness ==
  /\ WF_marketVars(Storing(Schedule)) /\ WF_marketVars(Storing(CancelWaiting))
  /\ WF_marketVars(Storing(Work))

MarketSpec == MarketInit /\ [][MarketNext]_marketVars /\ MarketFairness

=============================================================================
