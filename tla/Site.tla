--------------------------------- MODULE Site ---------------------------------
(***************************************************************************)
(* What surrounds the core: how a process comes up and lets the user in    *)
(* (Startup), the backup (Backup), the sidecar that offers it all as tools *)
(* (Mcp), and the pages of the web interface with what they arrange        *)
(* (Desk), load (ChartPage, Tiles), draw (Drawing) and show in turn        *)
(* (Cycle).                                                                *)
(*                                                                         *)
(* Each looks at its own part of the database or of a page and lets the    *)
(* others do anything: they share no variable.  A behaviour has the steps  *)
(* of one of them, and a property of any holds of all together if it holds *)
(* here.                                                                   *)
(***************************************************************************)
EXTENDS Backup, Startup, Desk, ChartPage, Cycle, Mcp, Tiles, Drawing

VARIABLE part \* whose behaviour this is

vars ==
  <<backupVars, startupVars, deskVars, chartVars, cycleVars, mcpVars, tilesVars,
    drawingVars, part>>

BackingUp(A) ==
  /\ part = "backup" /\ A
  /\ UNCHANGED <<startupVars, deskVars, chartVars, cycleVars, mcpVars, tilesVars,
                 drawingVars, part>>
Starting(A) ==
  /\ part = "startup" /\ A
  /\ UNCHANGED <<backupVars, deskVars, chartVars, cycleVars, mcpVars, tilesVars,
                 drawingVars, part>>
Arranging(A) ==
  /\ part = "desk" /\ A
  /\ UNCHANGED <<backupVars, startupVars, chartVars, cycleVars, mcpVars, tilesVars,
                 drawingVars, part>>
Charting(A) ==
  /\ part = "chart" /\ A
  /\ UNCHANGED <<backupVars, startupVars, deskVars, cycleVars, mcpVars, tilesVars,
                 drawingVars, part>>
Cycling(A) ==
  /\ part = "cycle" /\ A
  /\ UNCHANGED <<backupVars, startupVars, deskVars, chartVars, mcpVars, tilesVars,
                 drawingVars, part>>
Calling(A) ==
  /\ part = "mcp" /\ A
  /\ UNCHANGED <<backupVars, startupVars, deskVars, chartVars, cycleVars, tilesVars,
                 drawingVars, part>>
Filling(A) ==
  /\ part = "tiles" /\ A
  /\ UNCHANGED <<backupVars, startupVars, deskVars, chartVars, cycleVars, mcpVars,
                 drawingVars, part>>
Drafting(A) ==
  /\ part = "drawing" /\ A
  /\ UNCHANGED <<backupVars, startupVars, deskVars, chartVars, cycleVars, mcpVars,
                 tilesVars, part>>

\* Of the parts that stay as they are, one start will do.
Same(state, states) == state = CHOOSE s \in states : TRUE

Init ==
  /\ part \in {"backup", "startup", "desk", "chart", "cycle", "mcp", "tiles", "drawing"}
  /\ BackupInit
  /\ part # "backup" => Tracked(db) = {Lowest(Address)} /\ HistoryOf(db, Lowest(Address)) = {}
  /\ StartupInit
  /\ part # "startup" => kind = "sqlite" /\ Same(configured, [Replica -> Password])
  /\ DeskInit
  /\ part # "desk" => Same(kindOf, OpenPages)
  /\ ChartInit
  /\ part # "chart" => chart = "markets"
  /\ CycleInit
  /\ part # "cycle" => Same(stored, [shown : {1}, cycling : {FALSE}, refreshing : {FALSE}])
  /\ McpInit
  /\ part # "mcp" => ~ readOnly
  /\ TilesInit /\ DrawingInit

Next ==
  \/ BackingUp(BackupNext) \/ Starting(StartupNext) \/ Arranging(DeskNext)
  \/ Charting(ChartNext) \/ Cycling(CycleNext) \/ Calling(McpNext) \/ Filling(TilesNext)
  \/ Drafting(DrawingNext)

\* A process that is up does what it has begun, and the supervisor starts it again.  Time
\* passes, timers that are due run, and requests are answered or fail.
Fairness ==
  /\ WF_vars(BackingUp(BackupSteps) \/ Cycling(Tick \/ ShowNext \/ Refresh))
  /\ WF_vars(Cycling(LoadAnswered \/ LoadFailed \/ ChangeSaved))

Spec == Init /\ [][Next]_vars /\ Fairness

=============================================================================
