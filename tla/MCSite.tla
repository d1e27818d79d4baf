-------------------------------- MODULE MCSite --------------------------------
(* Two of most things; a dashboard page beside a page of any kind. *)
EXTENDS Site

MCKindsOf ==
  (1 :> {"dashboard"}) @@ (2 :> {"dashboard", "markets", "kraken", "settings"})
MCBefore ==
  {[graphs |-> <<Saved(1, FALSE), Saved(2, FALSE)>>, desk |-> << << <<1>>, <<2>> >> >>]}
\* A dashboard of three charts, and one of a chart and a table.
MCBoards == << <<1, 2, 3>>, <<4, 5>> >>
MCChartKind == (1 :> "market") @@ (2 :> "portfolio") @@ (3 :> "kraken") @@ (4 :> "addresses")
MCTableKind == 5 :> "market"
=============================================================================
