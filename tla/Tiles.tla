--------------------------------- MODULE Tiles ---------------------------------
(***************************************************************************)
(* The charts and tables of the dashboard that is shown                    *)
(* (wui/src/lib/components/SavedDashboardChart.svelte, SavedDashboardTable *)
(* .svelte).  Charts are mounted anew whenever the page is loaded or       *)
(* another dashboard is shown, and wait for one of a few places to load in *)
(* (lib/dashboard-load-queue.ts); tables load at once and once.            *)
(*                                                                         *)
(* A tile that is taken down while it waits is passed over; one that is    *)
(* loading keeps its place until its requests are answered.                *)
(***************************************************************************)
EXTENDS Lists, SequencesExt, FiniteSets

CONSTANTS
  Boards,     \* of each dashboard, its tiles in order, each once
  ChartKind,  \* of each chart "portfolio", "market", "kraken" or "addresses"
  TableKind,  \* of each table "market", "kraken", "earn" or "addresses"
  Currencies, \* the currencies that the charts of prices are asked for
  LoadPlaces, \* loads of charts at a time
  MaxMounts,  \* bound: loads of the page and dashboards shown
  MaxNews,    \* bound: changes of what the server would answer
  MaxFailed   \* bound: requests that fail

Charts == DOMAIN ChartKind
Tables == DOMAIN TableKind

ASSUME TilesAssumptions ==
  /\ 0 \notin DOMAIN Boards
  /\ \A b \in DOMAIN Boards : Boards[b] \in Seq(Charts \cup Tables) /\ IsInjective(Boards[b])
  /\ Charts \cap Tables = {} /\ LoadPlaces \in Nat \ {0}
  /\ MaxMounts \in Nat /\ MaxNews \in Nat /\ MaxFailed \in Nat

VARIABLES
  board,    \* the dashboard that is shown
  rangeEnd, \* graphRangeEndMs: tells one mounting of the charts from the next
  queued,   \* charts that wait for a place: [tile, mount]
  tileLoads, \* loads under way: [tile, mount, asks (requests not answered), oldest]
  occupied, \* the queue's count of places that are taken
  tiles,    \* of each tile: the age of what it shows, or why it shows nothing
  news,     \* changes of what the server would answer
  since,    \* history: news when the charts were mounted
  failing   \* count for the bound

tilesVars == <<board, rangeEnd, queued, tileLoads, occupied, tiles, news, since, failing>>

Blank == -1
Broken == -2

-----------------------------------------------------------------------------
(* What each kind of tile asks for. *)

PortfolioChart == {"portfolio"}
\* One request for each currency, all at once.
MarketChart == Currencies
KrakenChart == {"kraken"}
AddressesChart == {"addresses"}

MarketsTable == {"catalog", "watchlist"}
KrakenTable == {"holdings"}
KrakenEarnTable == {"earn"}
AddressesTable == {"addresses"}

ChartAsks(chart) ==
  CASE ChartKind[chart] = "portfolio" -> PortfolioChart
    [] ChartKind[chart] = "market"    -> MarketChart
    [] ChartKind[chart] = "kraken"    -> KrakenChart
    [] ChartKind[chart] = "addresses" -> AddressesChart

TableAsks(table) ==
  CASE TableKind[table] = "market" -> MarketsTable
    [] TableKind[table] = "earn"   -> KrakenEarnTable
    [] TableKind[table] = "kraken" -> KrakenTable
    [] OTHER                       -> AddressesTable

LoadOf(tile, mount, asks) == [tile |-> tile, mount |-> mount, asks |-> asks, oldest |-> news]

-----------------------------------------------------------------------------
(* Mounting, and the queue. *)

ChartsOf(b) == Selected(Boards[b], Charts)
TableTiles(b) == Range(Boards[b]) \cap Tables

\* A load that has begun goes on; one that has not is passed over.
There(w) == w.mount = rangeEnd' /\ w.tile \in Range(Boards[board'])

\* startNext(), with `taken` places: the first that are still there, and the rest.
StartNext(waiting, going, taken) ==
  LET alive == Selected(waiting, {w \in Range(waiting) : There(w)})
      free  == IF taken < LoadPlaces THEN LoadPlaces - taken ELSE 0
      n     == IF Len(alive) < free THEN Len(alive) ELSE free
  IN  /\ queued' = SubSeq(alive, n + 1, Len(alive))
      /\ tileLoads' = going \cup {LoadOf(alive[i].tile, rangeEnd', ChartAsks(alive[i].tile)) :
                                i \in 1 .. n}
      /\ occupied' = taken + n

\* The tables of a dashboard that was shown already stay as they are.
MountTables(b) ==
  IF b = board THEN {} ELSE {LoadOf(t, rangeEnd', TableAsks(t)) : t \in TableTiles(b)}

\* Mutant: what stays on the page keeps what it shows.
KeptOn(t, b) == b = board

Stays(t, b) == t \in Tables /\ b = board

\* The page is loaded, or a dashboard selected or next in the cycle.
Mount ==
  /\ rangeEnd < MaxMounts /\ rangeEnd' = rangeEnd + 1 /\ since' = news
  /\ \E b \in DOMAIN Boards :
       /\ board' = b
       /\ tiles' = [t \in Charts \cup Tables |->
                      IF t \in Range(Boards[b]) /\ Stays(t, b) THEN tiles[t] ELSE Blank]
       /\ StartNext(queued \o [i \in DOMAIN ChartsOf(b) |->
                                 [tile |-> ChartsOf(b)[i], mount |-> rangeEnd']],
                    tileLoads \cup MountTables(b), occupied)
  /\ UNCHANGED <<news, failing>>

TilesInit ==
  /\ board = 0 /\ rangeEnd = 0 /\ queued = <<>> /\ tileLoads = {} /\ occupied = 0
  /\ tiles = [t \in Charts \cup Tables |-> Blank]
  /\ news = 0 /\ since = 0 /\ failing = 0

-----------------------------------------------------------------------------
(* Loading. *)

\* The tile of the load is on the page; a table may have been mounted long ago.
Mounted(l) ==
  /\ l.tile \in Range(Boards[board])
  /\ IF l.tile \in Charts THEN l.mount = rangeEnd
     ELSE \A other \in tileLoads : other.tile = l.tile => other.mount <= l.mount

LoadEnds(l, shows) ==
  /\ tiles' = IF Mounted(l) /\ ~ (l.tile \in Tables /\ tiles[l.tile] # Blank)
              THEN [tiles EXCEPT ![l.tile] = shows] ELSE tiles
  /\ UNCHANGED <<board, rangeEnd>>
  /\ IF l.tile \in Charts THEN StartNext(queued, tileLoads \ {l}, occupied - 1)
     ELSE tileLoads' = tileLoads \ {l} /\ UNCHANGED <<queued, occupied>>

\* A chart is drawn from all the answers; it is as old as the oldest of them.
RequestAnswered(l) ==
  /\ \E ask \in l.asks :
       IF l.asks = {ask} THEN LoadEnds(l, l.oldest)
       ELSE /\ tileLoads' = (tileLoads \ {l}) \cup {[l EXCEPT !.asks = @ \ {ask}]}
            /\ UNCHANGED <<board, rangeEnd, queued, occupied, tiles>>
  /\ UNCHANGED <<news, since, failing>>

\* Mutant: a load that fails keeps its place.
KeepsPlace(l) ==
  /\ tiles' = IF Mounted(l) THEN [tiles EXCEPT ![l.tile] = Broken] ELSE tiles
  /\ tileLoads' = tileLoads \ {l} /\ UNCHANGED <<board, rangeEnd, queued, occupied>>

TileFails(l) == LoadEnds(l, Broken)

\* One that fails is enough; the other requests of the load are not waited for.
TileRequestFails(l) ==
  /\ failing < MaxFailed /\ failing' = failing + 1 /\ TileFails(l)
  /\ UNCHANGED <<news, since>>

\* Something is imported.
News ==
  /\ news < MaxNews /\ news' = news + 1
  /\ UNCHANGED <<board, rangeEnd, queued, tileLoads, occupied, tiles, since, failing>>

-----------------------------------------------------------------------------

TilesNext ==
  \/ Mount \/ News
  \/ \E l \in tileLoads : RequestAnswered(l) \/ TileRequestFails(l)

TilesSpec == TilesInit /\ [][TilesNext]_tilesVars

-----------------------------------------------------------------------------
(* Properties. *)

Waits(t) == \E i \in DOMAIN queued : queued[i].tile = t
Loads(t) == \E l \in tileLoads : l.tile = t /\ l.mount = rangeEnd

\* However dashboards follow each other and loads fail: the queue counts just the loads
\* of charts that are under way, those of charts that are gone included; a chart on the
\* page that shows nothing waits or loads, and waits only while all places are taken; and
\* what a chart shows is as new as what the page has loaded last ("refresh reloads cached
\* application data", docs/user-guide.md:36; a table of a dashboard that stays is not
\* loaded again).
ChartsServed ==
  /\ occupied = Cardinality({l \in tileLoads : l.tile \in Charts}) /\ occupied <= LoadPlaces
  /\ queued # <<>> => occupied = LoadPlaces
  /\ board # 0 => \A t \in Range(ChartsOf(board)) :
       /\ tiles[t] = Blank => Waits(t) \/ Loads(t)
       /\ tiles[t] \notin {Blank, Broken} => tiles[t] >= since
=============================================================================
