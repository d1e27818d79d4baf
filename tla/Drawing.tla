-------------------------------- MODULE Drawing --------------------------------
(***************************************************************************)
(* The component that draws a chart (wui/src/lib/components/PortfolioChart *)
(* .svelte) on the page of the Kraken account: which line is drawn on      *)
(* which axis and how that is saved and restored, the zoom that asks for   *)
(* detail once it has settled, the popups, and the focus that comes back   *)
(* after a load.                                                           *)
(*                                                                         *)
(* While the page loads, the plot is inert and its handlers return at      *)
(* once, but the selects above it can be used.  The order in which the     *)
(* page's answers come is ChartPage's.  The overview is coarser than what  *)
(* was asked for: else there is no detail.  The charts of a dashboard are  *)
(* mounted with what was saved and keep no choice.                         *)
(***************************************************************************)
EXTENDS Integers, FiniteSets

CONSTANTS
  Line,       \* lines the server may answer
  Windows,    \* what the zoom may select: numbers from 1 on
  MaxTouched, \* bound: what the user does
  MaxDrawn    \* bound: loads that begin by themselves, and requests that fail

ASSUME DrawingAssumptions ==
  /\ Windows \subseteq Nat \ {0} /\ MaxTouched \in Nat /\ MaxDrawn \in Nat

VARIABLES
  lines,    \* `displayedKrakenSeries`: the lines that are there
  axes,     \* [all (useAllLeftSeriesByDefault), left, right, unit (the right axis has one)]
  lastRight, \* lines that were on the right axis last
  display,  \* what the database has for this chart: [axes, known (history: lines there
            \* when it was saved), number]
  saves,    \* requests to save one, under way
  shownAs,  \* history: number of the display that the page shows
  displays, \* displays that were numbered
  asking,   \* what the page waits for: the series, the detail of a window, or nothing
  zoomed,   \* window selected, or 0
  settling, \* window that the timer will ask for, or 0
  askedFor, \* window asked for last, or 0
  detailOf, \* history: window whose detail is drawn, or 0
  spoilt,   \* history: the detail was replaced, could not be loaded, or was not asked for
            \* since the page was loading when the zoom had settled
  focus,    \* where the focus is: "plot", "control" or "none"
  navigating,   \* chartInteractionActive
  restore,  \* restoreInteractionAfterBusy
  frames,   \* animation frames that were asked for
  owed,     \* history: the focus was in the plot when a load began, and is not back
  hurried,  \* history: the next load began before it was back
  popup,    \* "none", "hover" or "pinned"
  inspecting, \* the keyboard inspector is on
  touched, drawn \* counts for the bounds

axesVars == <<axes, lastRight, shownAs, displays, saves>>
zoomVars == <<zoomed, settling, askedFor, detailOf, spoilt>>
focusVars == <<focus, navigating, restore, frames, owed, hurried>>
popupVars == <<popup, inspecting>>
drawingVars == <<lines, axesVars, display, asking, zoomVars, focusVars, popupVars,
                 touched, drawn>>

Idle == -1
AllSeries == 0
Busy == asking # Idle

Touched == touched < MaxTouched /\ touched' = touched + 1
Drawn == drawn < MaxDrawn /\ drawn' = drawn + 1

-----------------------------------------------------------------------------
(* The axes. *)

OnLeft(a, line) == IF a.all THEN line \notin a.right ELSE line \in a.left
OnRight(a, line) == line \in a.right
Axis(a, line) ==
  IF a.unit /\ OnRight(a, line) THEN "right" ELSE IF OnLeft(a, line) THEN "left" ELSE "hidden"

\* What is left on the left axis by default follows the lines that are there.
LeftOf(a) == IF a.all THEN lines \ a.right ELSE a.left

\* What is sent to be saved: of the lines that are there.
Displayed(a) ==
  [all |-> FALSE, left |-> {line \in lines : OnLeft(a, line)},
   right |-> {line \in lines : OnRight(a, line)}, unit |-> a.unit]

\* The same goes into a graph for the dashboards.
GraphSaved == Displayed(axes)

\* What a chart is mounted with.
MountedWith(a) == [a EXCEPT !.left = @ \ a.right]

\* It is drawn at once, but saved only if the page does not load.
ViewChanged(a) ==
  /\ axes' = a /\ displays' = displays + 1 /\ shownAs' = displays'
  /\ saves' = IF Busy THEN saves
              ELSE saves \cup {[axes |-> Displayed(a), known |-> lines, number |-> displays']}

Drawing(a) ==
  /\ Touched /\ ViewChanged(a)
  /\ UNCHANGED <<lines, display, asking, zoomVars, focusVars, popupVars, drawn>>

Toggled(S, line) == IF line \in S THEN S \ {line} ELSE S \cup {line}

ChooseLeft(line) ==
  LET left == Toggled(LeftOf(axes), line)
  IN /\ Drawing([axes EXCEPT !.all = FALSE, !.left = left, !.right = @ \ left])
     /\ lastRight' = lastRight \ left

\* Mutant: the lines that were on the left by default are not.
ChooseRightOnly(line) ==
  LET right == Toggled(axes.right, line)
  IN /\ axes.unit
     /\ Drawing([axes EXCEPT !.all = FALSE, !.right = right])
     /\ lastRight' = lastRight \cup right

ChooseRight(line) ==
  LET right == Toggled(axes.right, line)
  IN /\ axes.unit
     /\ Drawing([axes EXCEPT !.all = FALSE, !.left = LeftOf(axes) \ right, !.right = right])
     /\ lastRight' = lastRight \cup right

ChooseUnit == Drawing([axes EXCEPT !.unit = ~ @]) /\ UNCHANGED lastRight

\* A line that is shown again returns to its axis, if that has a unit.
ToggleLegend(line) ==
  /\ ~ Busy
  /\ IF Axis(axes, line) # "hidden"
     THEN /\ lastRight' = IF OnRight(axes, line) THEN lastRight \cup {line}
                          ELSE lastRight \ {line}
          /\ Drawing([axes EXCEPT !.all = FALSE, !.left = LeftOf(axes) \ {line},
                                  !.right = @ \ {line}])
     ELSE /\ IF line \in lastRight /\ axes.unit
             THEN Drawing([axes EXCEPT !.all = FALSE, !.left = LeftOf(axes) \ {line},
                                       !.right = @ \cup {line}])
             ELSE Drawing([axes EXCEPT !.all = FALSE, !.left = LeftOf(axes) \cup {line},
                                       !.right = @ \ {line}])
          /\ UNCHANGED lastRight

\* Requests may overtake each other.
DisplaySaved(save) ==
  /\ save \in saves /\ saves' = saves \ {save} /\ display' = save
  /\ UNCHANGED <<lines, axes, lastRight, shownAs, displays, asking, zoomVars, focusVars,
                 popupVars, touched, drawn>>

DisplayLost(save) ==
  /\ Drawn /\ save \in saves /\ saves' = saves \ {save}
  /\ UNCHANGED <<lines, axes, lastRight, shownAs, displays, display, asking, zoomVars,
                 focusVars, popupVars, touched>>

-----------------------------------------------------------------------------
(* Loading, and the focus. *)

InPlot == navigating \/ focus = "plot"

\* `busy` rises: where the user was is remembered, and what pops up goes.  The plot is
\* inert from now on, and loses the focus.
BusyRises ==
  IF Busy THEN UNCHANGED <<focusVars, popupVars>>
  ELSE /\ restore' = InPlot
       /\ owed' = (owed \/ InPlot) /\ hurried' = (hurried \/ (owed /\ ~ InPlot))
       /\ navigating' = FALSE /\ focus' = (IF focus = "plot" THEN "none" ELSE focus)
       /\ popup' = "none" /\ inspecting' = FALSE
       /\ UNCHANGED frames

\* It falls: the next frame may give the focus back.
BusyFalls ==
  /\ frames' = IF restore THEN frames + 1 ELSE frames
  /\ UNCHANGED <<focus, navigating, restore, owed, hurried, popupVars>>

\* A refresh, or an import that the page hears of.
LoadAgain ==
  /\ Drawn /\ asking' = AllSeries /\ BusyRises
  /\ UNCHANGED <<lines, axesVars, display, zoomVars, touched>>

\* The buttons above the chart, for a line that the server answered (here, any).
ToggleKrakenSeries(line) ==
  /\ Touched /\ lines' = Toggled(lines, line)
  /\ UNCHANGED <<axesVars, display, asking, zoomVars, focusVars, popupVars, drawn>>

Answers ==
  /\ Busy /\ asking' = Idle /\ BusyFalls
  /\ UNCHANGED <<axesVars, display, zoomed, settling, askedFor, touched>>

SeriesDrawn ==
  /\ asking = AllSeries /\ Answers /\ lines' \in SUBSET Line
  /\ detailOf' = 0 /\ spoilt' = (spoilt \/ zoomed # 0) /\ UNCHANGED drawn

\* The detail goes into the overview, in the place of any other.
DetailDrawn ==
  /\ asking \in Windows /\ Answers /\ detailOf' = asking
  /\ UNCHANGED <<lines, spoilt, drawn>>

NothingDrawn ==
  /\ Drawn /\ Answers /\ spoilt' = (spoilt \/ zoomed # 0)
  /\ UNCHANGED <<lines, detailOf>>

Enters == focus' = "plot" /\ navigating' = TRUE /\ owed' = FALSE /\ hurried' = FALSE

\* Unless another control was selected meanwhile.
Frame ==
  /\ frames > 0 /\ frames' = frames - 1
  /\ IF Busy \/ ~ restore THEN UNCHANGED <<focus, navigating, restore, owed, hurried>>
     ELSE /\ restore' = FALSE
          /\ IF focus = "control" THEN UNCHANGED <<focus, navigating, owed, hurried>>
             ELSE Enters
  /\ UNCHANGED <<lines, axesVars, display, asking, zoomVars, popupVars, touched, drawn>>

EnterPlot ==
  /\ Touched /\ ~ Busy /\ focus # "plot" /\ Enters
  /\ UNCHANGED <<lines, axesVars, display, asking, zoomVars, restore, frames, popupVars,
                 drawn>>

LeavePlot ==
  /\ Touched /\ focus' \in {"control", "none"} \ {focus} /\ navigating' = FALSE
  /\ owed' = FALSE /\ hurried' = FALSE
  /\ UNCHANGED <<lines, axesVars, display, asking, zoomVars, restore, frames, popupVars,
                 drawn>>

-----------------------------------------------------------------------------
(* Popups. *)

Popping ==
  /\ Touched /\ ~ Busy
  /\ UNCHANGED <<lines, axesVars, display, asking, zoomVars, focusVars, drawn>>

Hover == Popping /\ popup = "none" /\ popup' = "hover" /\ UNCHANGED inspecting

Freeze == Popping /\ popup = "hover" /\ popup' = "pinned" /\ UNCHANGED inspecting

\* An event is pinned with one click; the next click releases what is pinned.
ClickEvent ==
  Popping /\ popup' = (IF popup = "pinned" THEN "none" ELSE "pinned") /\ UNCHANGED inspecting

\* Escape ends the inspection as well.
Release ==
  /\ Popping /\ popup = "pinned" /\ popup' = "none" /\ inspecting' \in {inspecting, FALSE}

\* It begins with the popup of a point, and takes it away in the end.
Inspect ==
  /\ Popping /\ inspecting' = ~ inspecting
  /\ popup' = IF popup = "pinned" \/ (inspecting' /\ lines = {}) THEN popup
              ELSE IF inspecting' THEN "hover" ELSE "none"

-----------------------------------------------------------------------------
(* The zoom. *)

Whole == zoomed' = 0 /\ settling' = 0 /\ askedFor' = 0 /\ spoilt' = FALSE

\* The button works while the page loads as well.
ResetZoom ==
  /\ Touched /\ zoomed # 0 /\ Whole
  /\ UNCHANGED <<lines, axesVars, display, asking, detailOf, focusVars, popupVars, drawn>>

\* Each movement begins the wait anew.
ZoomTo(window) ==
  /\ Touched /\ ~ Busy /\ lines # {}
  /\ zoomed' = window /\ settling' = window
  /\ UNCHANGED <<lines, axesVars, display, asking, askedFor, detailOf, spoilt, focusVars,
                 popupVars, drawn>>

\* What is asked for already is not asked for again.
ZoomSettled ==
  /\ settling # 0 /\ settling' = 0
  /\ IF Busy \/ settling = askedFor
     THEN spoilt' = (spoilt \/ settling # askedFor)
          /\ UNCHANGED <<askedFor, asking, focusVars, popupVars>>
     ELSE askedFor' = settling /\ asking' = settling /\ BusyRises /\ spoilt' = FALSE
  /\ UNCHANGED <<lines, axesVars, display, zoomed, detailOf, touched, drawn>>

\* The range, the granularity or the mode changes; custom ranges may make no sense.
StateChanged ==
  /\ Touched /\ Whole
  /\ \/ asking' = AllSeries /\ BusyRises
     \/ UNCHANGED <<asking, focusVars, popupVars>>
  /\ UNCHANGED <<lines, axesVars, display, detailOf, drawn>>

-----------------------------------------------------------------------------

FirstDisplay ==
  [axes |-> [all |-> TRUE, left |-> {}, right |-> {}, unit |-> FALSE],
   known |-> Line, number |-> 0]

DrawingInit ==
  /\ lines = {} /\ axes = FirstDisplay.axes /\ lastRight = {} /\ display = FirstDisplay
  /\ saves = {} /\ shownAs = 0 /\ displays = 0 /\ asking = AllSeries
  /\ zoomed = 0 /\ settling = 0 /\ askedFor = 0 /\ detailOf = 0 /\ spoilt = FALSE
  /\ focus = "none" /\ navigating = FALSE /\ restore = FALSE /\ frames = 0
  /\ owed = FALSE /\ hurried = FALSE /\ popup = "none" /\ inspecting = FALSE
  /\ touched = 0 /\ drawn = 0

\* The page is loaded anew, with what the database has by then.
Reopen ==
  /\ Touched /\ lines' = {} /\ axes' = MountedWith(display.axes) /\ lastRight' = axes'.right
  /\ shownAs' = display.number /\ asking' = AllSeries
  /\ Whole /\ detailOf' = 0
  /\ focus' = "none" /\ navigating' = FALSE /\ restore' = FALSE /\ frames' = 0
  /\ owed' = FALSE /\ hurried' = FALSE /\ popup' = "none" /\ inspecting' = FALSE
  /\ UNCHANGED <<display, saves, displays, drawn>>

DrawingNext ==
  \/ \E line \in lines : ChooseLeft(line) \/ ChooseRight(line) \/ ToggleLegend(line)
  \/ \E save \in saves : DisplaySaved(save) \/ DisplayLost(save)
  \/ \E line \in Line : ToggleKrakenSeries(line)
  \/ \E window \in Windows : ZoomTo(window)
  \/ ChooseUnit \/ LoadAgain \/ SeriesDrawn \/ DetailDrawn \/ NothingDrawn \/ Frame
  \/ EnterPlot \/ LeavePlot \/ Hover \/ Freeze \/ ClickEvent \/ Release \/ Inspect
  \/ ResetZoom \/ ZoomSettled \/ StateChanged \/ Reopen

-----------------------------------------------------------------------------
(* Properties. *)

SameAxes(a, b, S) == \A line \in S : Axis(a, line) = Axis(b, line)

\* "Assigning a line to one axis removes it from the other" (docs/user-guide.md:245), and
\* what the page shows is what it shows when it is opened again, once its last choice has
\* been saved, and what a graph saved now will show (docs/user-guide.md:261).  A choice
\* made while the page loads is not saved, and one says nothing of lines that are not
\* there.
AxesKept ==
  /\ LeftOf(axes) \cap axes.right = {} /\ display.axes.left \cap display.axes.right = {}
  /\ SameAxes(axes, MountedWith(GraphSaved), lines)
  /\ shownAs = display.number =>
       SameAxes(axes, MountedWith(display.axes), lines \cap display.known)

\* "After zoom settles, the visible window is fetched again at the requested detail"
\* (docs/user-guide.md:286), unless something was loading then, or has been loaded since.
DetailThere ==
  ~ Busy /\ settling = 0 /\ zoomed # 0 => detailOf = zoomed \/ spoilt

\* "While a chart is loading it is dimmed, inert, and has no hover or pinned popup. If
\* loading began while the plot itself was active, the plot regains focus and wheel
\* navigation when rendering finishes, unless you selected another control in the
\* meantime" (docs/user-guide.md:291), or the next load began before the next frame.
FocusReturns ==
  /\ Busy => popup = "none" /\ ~ inspecting /\ ~ navigating
  /\ navigating => focus = "plot"
  /\ ~ Busy /\ frames = 0 /\ owed => hurried

DrawingTrue == AxesKept /\ DetailThere /\ FocusReturns
=============================================================================
