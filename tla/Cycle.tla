-------------------------------- MODULE Cycle --------------------------------
(***************************************************************************)
(* The two clocks of the dashboard page (wui/src/routes/dashboard): one    *)
(* shows the dashboards in turn, the other loads everything anew.  Both    *)
(* are set again by the loads, by what the user selects, and, the first,   *)
(* put off by the mouse.                                                   *)
(*                                                                         *)
(* Times count down in ticks; Off is a timer that is not set.  A timer     *)
(* that is due runs before the next tick; an answer may take any time.     *)
(***************************************************************************)
EXTENDS Integers

CONSTANTS
  MaxShown,    \* bound: dashboards
  CycleEvery,  \* the cycle interval
  RefreshEvery, \* the refresh interval
  MouseRest,   \* ten seconds without the mouse
  MaxTouches   \* bound: what the user does

ASSUME CycleAssumptions ==
  /\ MaxShown \in Nat \ {0} /\ CycleEvery \in Nat \ {0} /\ RefreshEvery \in Nat \ {0}
  /\ MouseRest \in Nat /\ MaxTouches \in Nat

VARIABLES
  here,     \* the page is open
  shown,    \* number of dashboards
  active,   \* the one that is shown
  cycling, refreshing, \* what is enabled
  stored,   \* the same, as the server keeps it
  nextIn,   \* until nextCycleAt
  mouseIn,  \* until the mouse has rested
  cycleTimer, refreshTimer,
  loading,  \* {} or {what the load under way will bring}
  saving,   \* a change of the dashboards is being saved
  touches   \* count for the bound

cycleVars == <<here, shown, active, cycling, refreshing, stored, nextIn, mouseIn, cycleTimer,
               refreshTimer, loading, saving, touches>>

Off == -1
Later(a, b) == IF a > b THEN a ELSE b
Sooner(a, b) == IF a < b THEN a ELSE b

CycleInit ==
  /\ here = TRUE /\ shown = 1 /\ active = 1 /\ cycling = FALSE /\ refreshing = FALSE
  /\ stored \in [shown : 1 .. MaxShown, cycling : BOOLEAN, refreshing : BOOLEAN]
  /\ nextIn = 0 /\ mouseIn = 0 /\ cycleTimer = Off /\ refreshTimer = Off
  /\ loading = {stored} /\ saving = FALSE /\ touches = 0

\* scheduleCycle(), for a next cycle at that time.
ScheduleCycle(at) ==
  /\ nextIn' = at
  /\ cycleTimer' = IF cycling' /\ shown' >= 2 THEN Later(at, mouseIn') ELSE Off

ResetCycle == ScheduleCycle(CycleEvery)

ScheduleRefresh == refreshTimer' = IF refreshing' THEN RefreshEvery ELSE Off

-----------------------------------------------------------------------------
(* Time, and what it brings. *)

Less(timer) == IF timer = Off THEN Off ELSE timer - 1

Tick ==
  /\ cycleTimer # 0 /\ refreshTimer # 0
  /\ nextIn' = Later(0, nextIn - 1) /\ mouseIn' = Later(0, mouseIn - 1)
  /\ cycleTimer' = Less(cycleTimer) /\ refreshTimer' = Less(refreshTimer)
  /\ UNCHANGED <<here, shown, active, cycling, refreshing, stored, loading, saving,
                 touches>>

\* Mutant: the timer is not set again.
ShowNextOnce ==
  /\ cycleTimer = 0 /\ active' = (active % shown) + 1
  /\ cycleTimer' = Off
  /\ UNCHANGED <<here, shown, cycling, refreshing, stored, nextIn, mouseIn, refreshTimer,
                 loading, saving, touches>>

ShowNext ==
  /\ cycleTimer = 0 /\ active' = (active % shown) + 1
  /\ UNCHANGED <<here, shown, cycling, refreshing, stored, mouseIn, refreshTimer, loading,
                 saving, touches>>
  /\ ScheduleCycle(CycleEvery)

\* The interval goes on; a load that is still under way is enough.
Refresh ==
  /\ refreshTimer = 0 /\ refreshTimer' = RefreshEvery
  /\ loading' = IF loading = {} THEN {stored} ELSE loading
  /\ UNCHANGED <<here, shown, active, cycling, refreshing, stored, nextIn, mouseIn, cycleTimer,
                 saving, touches>>

\* The load is answered.  It sets both clocks, on a page that was left as well.
LoadAnswered ==
  /\ \E s \in loading :
       /\ shown' = s.shown /\ cycling' = s.cycling /\ refreshing' = s.refreshing
       /\ active' = Sooner(active, s.shown)
  /\ loading' = {}
  /\ UNCHANGED <<here, stored, mouseIn, saving, touches>>
  /\ ScheduleRefresh /\ ResetCycle

LoadFailed ==
  /\ loading # {} /\ loading' = {} /\ touches < MaxTouches /\ touches' = touches + 1
  /\ UNCHANGED <<here, shown, active, cycling, refreshing, stored, nextIn, mouseIn, cycleTimer,
                 refreshTimer, saving>>

-----------------------------------------------------------------------------
(* The user. *)

Touch == here /\ touches < MaxTouches /\ touches' = touches + 1

SelectDashboard ==
  /\ Touch /\ active' \in 1 .. shown
  /\ UNCHANGED <<here, shown, cycling, refreshing, stored, mouseIn, refreshTimer, loading,
                 saving>>
  /\ ResetCycle

\* The cycle is put off if it would come before the mouse has rested.
MouseMoves ==
  /\ Touch /\ mouseIn' = MouseRest
  /\ UNCHANGED <<here, shown, active, cycling, refreshing, stored, refreshTimer, loading,
                 saving>>
  /\ IF cycling /\ nextIn < MouseRest THEN ScheduleCycle(nextIn)
     ELSE UNCHANGED <<nextIn, cycleTimer>>

\* The options are saved while both clocks are set.
SaveDisplay ==
  /\ Touch /\ cycling' \in BOOLEAN /\ refreshing' \in BOOLEAN
  /\ stored' = [stored EXCEPT !.cycling = cycling', !.refreshing = refreshing']
  /\ UNCHANGED <<here, shown, active, mouseIn, loading, saving>>
  /\ ScheduleRefresh /\ ResetCycle

\* A dashboard is added at the end, or the one that is shown removed ...
ChangeDashboards ==
  /\ Touch /\ ~ saving /\ saving' = TRUE
  /\ \/ shown < MaxShown /\ shown' = shown + 1 /\ active' = shown + 1
     \/ shown > 1 /\ shown' = shown - 1 /\ active' = Sooner(active, shown - 1)
  /\ stored' = [stored EXCEPT !.shown = shown']
  /\ UNCHANGED <<here, cycling, refreshing, nextIn, mouseIn, cycleTimer, refreshTimer, loading>>

\* ... and once that is saved the cycle begins anew.
ChangeSaved ==
  /\ saving /\ saving' = FALSE
  /\ UNCHANGED <<here, shown, active, cycling, refreshing, stored, mouseIn, refreshTimer,
                 loading, touches>>
  /\ ResetCycle

\* A load or a save that is under way sets the timers again when it is answered.
Leave ==
  /\ here /\ here' = FALSE /\ refreshTimer' = Off /\ cycleTimer' = Off
  /\ UNCHANGED <<shown, active, cycling, refreshing, stored, nextIn, mouseIn, loading, saving,
                 touches>>

-----------------------------------------------------------------------------

CycleNext ==
  \/ Tick \/ ShowNext \/ Refresh \/ LoadAnswered \/ LoadFailed \/ SelectDashboard
  \/ MouseMoves \/ SaveDisplay \/ ChangeDashboards \/ ChangeSaved \/ Leave

-----------------------------------------------------------------------------
(* Properties. *)

\* With the refresh, if it is on, less often than the cycle, and the page left in peace,
\* every dashboard is shown again and again (docs/user-guide.md:45, "Cycle can
\* automatically advance through the numbered dashboards at the selected interval").
\* Each load begins the cycle anew: with a refresh as often or more often, it starves.
EveryDashboardShown ==
  \A d \in 1 .. MaxShown :
    <>[](/\ here /\ cycling /\ shown >= 2 /\ d <= shown
         /\ refreshing => CycleEvery < RefreshEvery)
      => []<>(active = d)
=============================================================================
