------------------------------- MODULE ChartPage -------------------------------
(***************************************************************************)
(* A chart of the web interface: what the user selects, the loads that     *)
(* fetch it, and the finer detail a zoom fetches (wui/src/routes/          *)
(* addresses, markets and kraken).                                         *)
(*                                                                         *)
(* Answers come in any order.  The pages of the addresses and the markets  *)
(* number their loads and take the answer of the last one only; the one of *)
(* the Kraken account takes every answer.                                  *)
(***************************************************************************)
EXTENDS Integers, FiniteSets

CONSTANTS
  MaxAsked,   \* bound: selections, reloads and zooms
  MaxErrors \* bound: failing requests

ASSUME ChartAssumptions == MaxAsked \in Nat /\ MaxErrors \in Nat

VARIABLES
  chart,    \* which page: "addresses", "markets" (watched), "portfolio" or "kraken"
  wanted,   \* number of the selection: the range, the granularity, the assets
  withAssets, \* whether it names an asset
  choosing, \* selections whose saving is awaited, and their load begun then
  loads,    \* loads under way: [id, stage, of (the selection they ask for)]
  loadId,   \* of the last load
  overview, \* what is shown: [id (history: of the load), of], of = 0 if it is nothing
  newest,   \* history: highest id of a load whose answer was shown
  zooms,    \* zooms under way
  zoomId,   \* of the last zoom
  detail,   \* zoom that is shown in the overview, or 0
  newestZoom, \* history: highest one whose answer was shown
  busy,     \* "loading"
  failed,   \* history: what is wanted could not be saved, or loaded
  asked, errors \* counts for the bounds

chartVars == <<chart, wanted, withAssets, choosing, loads, loadId, overview, newest, zooms,
               zoomId, detail, newestZoom, busy, failed, asked, errors>>

NothingShown == [id |-> 0, of |-> 0]

-----------------------------------------------------------------------------
(* Loads. *)

\* What a load asks for after the settings it begins with.
FirstStage == IF chart \in {"addresses", "kraken"} THEN "settings" ELSE "series"

\* A load begins; with no asset there is nothing to ask for.
BeginLoad ==
  /\ loadId' = loadId + 1 /\ failed' = FALSE
  /\ IF withAssets
     THEN /\ loads' = loads \cup {[id |-> loadId', stage |-> FirstStage, of |-> wanted]}
          /\ busy' = TRUE /\ UNCHANGED <<overview, newest, detail>>
     ELSE /\ overview' = NothingShown /\ detail' = 0 /\ busy' = FALSE
          /\ UNCHANGED <<loads, newest>>

ChartInit ==
  /\ chart \in {"addresses", "markets", "portfolio", "kraken"}
  /\ wanted = 1 /\ withAssets = TRUE /\ choosing = {1} /\ loads = {} /\ loadId = 0
  /\ overview = NothingShown /\ newest = 0 /\ zooms = {} /\ zoomId = 0 /\ detail = 0
  /\ newestZoom = 0 /\ busy = FALSE /\ failed = FALSE /\ asked = 0 /\ errors = 0

Asked == asked < MaxAsked /\ asked' = asked + 1

\* The selection changes; the load comes once it is saved.
Select ==
  /\ Asked /\ wanted' = wanted + 1 /\ choosing' = choosing \cup {wanted'}
  /\ \/ UNCHANGED withAssets
     \/ chart = "markets" /\ withAssets' = ~ withAssets
  /\ UNCHANGED <<chart, loads, loadId, overview, newest, zooms, zoomId, newestZoom,
                 detail, busy, failed, errors>>

ChoiceSaved(n) ==
  /\ n \in choosing /\ choosing' = choosing \ {n} /\ BeginLoad
  /\ UNCHANGED <<chart, wanted, withAssets, zooms, zoomId, newestZoom, asked, errors>>

Fails == errors < MaxErrors /\ errors' = errors + 1

\* It cannot be saved: the error ends the handler, and nothing is loaded.
ChoiceLost(n) ==
  /\ n \in choosing /\ choosing' = choosing \ {n} /\ Fails
  /\ failed' = (failed \/ n = wanted)
  /\ UNCHANGED <<chart, wanted, withAssets, loads, loadId, overview, newest, zooms,
                 zoomId, newestZoom, detail, busy, asked>>

\* After a change on the page, or a refresh, the same is loaded again.
Reload ==
  /\ Asked /\ BeginLoad
  /\ UNCHANGED <<chart, wanted, withAssets, choosing, zooms, zoomId, newestZoom,
                 errors>>

\* The settings are there: the window is the one of this moment.
SettingsAnswered(l) ==
  /\ l \in loads /\ l.stage = "settings"
  /\ loads' = (loads \ {l}) \cup {[l EXCEPT !.stage = "series", !.of = wanted]}
  /\ UNCHANGED <<chart, wanted, withAssets, choosing, loadId, overview, newest, zooms,
                 zoomId, newestZoom, detail, busy, failed, asked, errors>>

\* Mutant: every answer is taken.
EveryLoad(id) == TRUE

\* Whether what comes back is still taken.
CurrentLoad(id) == chart = "kraken" \/ id = loadId

SeriesAnswered(l) ==
  /\ l \in loads /\ l.stage = "series" /\ loads' = loads \ {l}
  /\ IF CurrentLoad(l.id)
     THEN /\ overview' = [id |-> l.id, of |-> l.of] /\ detail' = 0 /\ busy' = FALSE
          /\ newest' = IF l.id > newest THEN l.id ELSE newest
     ELSE UNCHANGED <<overview, newest, detail, busy>>
  /\ UNCHANGED <<chart, wanted, withAssets, choosing, loadId, zooms, zoomId, newestZoom,
                 failed, asked, errors>>

\* The markets clear the chart, the others leave it as it is.
LoadFails(l) ==
  /\ l \in loads /\ loads' = loads \ {l} /\ Fails
  /\ IF CurrentLoad(l.id)
     THEN /\ failed' = TRUE /\ busy' = FALSE
          /\ IF chart \in {"markets", "portfolio"}
             THEN overview' = NothingShown /\ detail' = 0
             ELSE UNCHANGED <<overview, detail>>
     ELSE UNCHANGED <<failed, busy, overview, detail>>
  /\ UNCHANGED <<chart, wanted, withAssets, choosing, loadId, newest, zooms, zoomId,
                 newestZoom, asked>>

-----------------------------------------------------------------------------
(* Zooms, into an overview that is coarser than what was selected. *)

Zoom ==
  /\ Asked /\ overview # NothingShown
  /\ zoomId' = zoomId + 1 /\ zooms' = zooms \cup {zoomId'} /\ busy' = TRUE
  /\ UNCHANGED <<chart, wanted, withAssets, choosing, loads, loadId, overview, newest,
                 detail, newestZoom, failed, errors>>

\* Mutant: every zoom's answer is taken.
EveryZoom(id) == TRUE

LastZoom(id) == id = zoomId

\* The detail goes into the overview that is there by now.
ZoomAnswered(id) ==
  /\ id \in zooms /\ zooms' = zooms \ {id}
  /\ IF LastZoom(id)
     THEN /\ detail' = (IF overview = NothingShown THEN 0 ELSE id) /\ busy' = FALSE
          /\ newestZoom' = IF id > newestZoom THEN id ELSE newestZoom
     ELSE UNCHANGED <<detail, busy, newestZoom>>
  /\ UNCHANGED <<chart, wanted, withAssets, choosing, loads, loadId, overview, newest,
                 zoomId, failed, asked, errors>>

ZoomFails(id) ==
  /\ id \in zooms /\ zooms' = zooms \ {id} /\ Fails
  /\ busy' = IF LastZoom(id) THEN FALSE ELSE busy
  /\ UNCHANGED <<chart, wanted, withAssets, choosing, loads, loadId, overview, newest,
                 zoomId, newestZoom, detail, failed, asked>>

-----------------------------------------------------------------------------

ChartNext ==
  \/ Select \/ Reload \/ Zoom
  \/ \E n \in choosing : ChoiceSaved(n) \/ ChoiceLost(n)
  \/ \E l \in loads : SettingsAnswered(l) \/ SeriesAnswered(l) \/ LoadFails(l)
  \/ \E id \in zooms : ZoomAnswered(id) \/ ZoomFails(id)

-----------------------------------------------------------------------------
(* Properties. *)

AtRest == choosing = {} /\ loads = {} /\ zooms = {}

\* Once everything is answered the chart shows what was selected last, unless that
\* failed, whatever order the answers came in; no detail of an earlier zoom over that of
\* a later one; and no spinner.  On the Kraken page it does if the answer shown is the
\* one that was asked for last: an earlier load that is answered later takes its place.
LatestShown ==
  AtRest =>
    /\ ~ busy
    /\ detail \in {0, newestZoom}
    /\ ~ failed /\ (chart = "kraken" => overview.id = newest) =>
         overview.of = IF withAssets THEN wanted ELSE 0
=============================================================================
