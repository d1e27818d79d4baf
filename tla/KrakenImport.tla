---------------------------- MODULE KrakenImport ----------------------------
(***************************************************************************)
(* Import of a paged Kraken history - trades, ledgers, closed orders -     *)
(* into the database (api/src/services/kraken.ts: syncTrades, syncLedgers, *)
(* syncClosedOrders, cursorState, updateCursor).                           *)
(*                                                                         *)
(* Kraken lists the entries after a start time, newest first, by offset    *)
(* and with a count.  A walk goes from the newest entry to the start, a    *)
(* page and a transaction at a time; the cursor row says where to go on    *)
(* after an interruption and, once complete, from when the next walk has   *)
(* to ask.  Entries come in while a walk is under way, and may show up     *)
(* some time after the instant they bear.  An entry is named by that       *)
(* instant.  Nobody else writes the cursor row: there is one kraken.sync   *)
(* job at a time (JobQueue), so an answer and the transaction that stores  *)
(* it make one step.                                                       *)
(***************************************************************************)
EXTENDS Integers, FiniteSets

CONSTANTS
  MaxTime,    \* bound: instants
  PageSize,   \* entries in an answer of Kraken, 50
  Overlap,    \* how far before the newest entry the next walk begins: one hour
  Lag,        \* how late an entry may show up
  MaxTrouble  \* bound: failed queries and process ends

ASSUME Assumptions ==
  /\ MaxTime \in Nat /\ PageSize \in Nat \ {0}
  /\ Overlap \in Nat /\ Lag \in Nat /\ Lag < Overlap
  /\ MaxTrouble \in Nat

VARIABLES
  now,
  history,       \* what Kraken lists
  imported,      \* kraken_trades, kraken_ledgers or the observed orders
  cursor,        \* kraken_sync_cursors.cursor_json: offset and startSeconds
  completeness,  \* kraken_sync_cursors.completeness
  newest,        \* kraken_sync_cursors.newest_at_ms, 0 for NULL
  walking,       \* is a walk under way?
  offset, start, \* the walk's variables; start 0 asks for everything
  trouble,       \* count for the bound
  closed,        \* are they the closed orders?
  skipped        \* history: what a failed query of the closed orders left behind for good

world == <<now, history>>
row == <<cursor, completeness, newest>>
walk == <<walking, offset, start>>
vars == <<world, imported, row, walk, trouble, closed, skipped>>

Time == 1 .. MaxTime

TypeOK ==
  /\ now \in 1 .. MaxTime
  /\ history \subseteq 1 .. now
  /\ imported \subseteq history
  /\ cursor \in [offset : Nat, start : Nat]
  /\ completeness \in {"syncing", "partial", "complete"}
  /\ newest \in 0 .. now
  /\ walking \in BOOLEAN /\ offset \in Nat /\ start \in Nat
  /\ trouble \in 0 .. MaxTrouble
  /\ closed \in BOOLEAN /\ skipped \subseteq history

\* An account with some history, and no cursor row yet.
Init ==
  /\ now \in 1 .. MaxTime
  /\ history \in SUBSET (1 .. now)
  /\ imported = {}
  /\ cursor = [offset |-> 0, start |-> 0]
  /\ completeness = "syncing"
  /\ newest = 0
  /\ walking = FALSE /\ offset = 0 /\ start = 0
  /\ trouble = 0
  /\ closed \in BOOLEAN /\ skipped = {}

-----------------------------------------------------------------------------
(* Kraken                                                                   *)

Tick ==
  /\ now < MaxTime
  /\ now' = now + 1
  /\ UNCHANGED <<history, imported, row, walk, trouble, closed, skipped>>

Occur(t) ==
  /\ t \in 1 .. now /\ t >= now - Lag /\ t \notin history
  /\ history' = history \cup {t}
  /\ UNCHANGED <<now, imported, row, walk, trouble, closed, skipped>>

\* How many of S come before t in the listing.
Before(t, S) == Cardinality({u \in S : u > t})

Listing == {t \in history : t > start}
Rest == {t \in Listing : Before(t, Listing) >= offset}
Page == {t \in Rest : Before(t, Rest) < PageSize}

-----------------------------------------------------------------------------
(* A walk                                                                   *)

\* Mutant: the next walk asks from the newest entry on.
NextStartAtNewest == newest

\* From when the next walk asks.
NextStart == IF newest > Overlap THEN newest - Overlap ELSE 0

Resumed == completeness = "syncing"

Begin ==
  /\ ~ walking
  /\ walking' = TRUE
  /\ offset' = IF Resumed THEN cursor.offset ELSE 0
  /\ start' = IF Resumed THEN cursor.start ELSE NextStart
  /\ UNCHANGED <<world, imported, row, trouble, closed, skipped>>

NextOffset == offset + Cardinality(Page)

\* Mutant: the walk is complete one page early.
LastEarly == NextOffset + PageSize >= Cardinality(Listing)

Last == Page = {} \/ NextOffset >= Cardinality(Listing)

\* An answer arrives and is stored, with the cursor, in a transaction.
StorePage ==
  /\ walking
  /\ imported' = imported \cup Page
  /\ newest' \in Page \cup {newest} /\ \A t \in Page \cup {newest} : t <= newest'
  /\ completeness' = IF Last THEN "complete" ELSE "syncing"
  /\ cursor' = [offset |-> IF Last THEN 0 ELSE NextOffset, start |-> start]
  /\ walking' = ~ Last
  /\ offset' = NextOffset
  /\ UNCHANGED <<world, start, trouble, closed, skipped>>

\* The query of trades or ledgers fails, or the process ends: the job ends,
\* and runs again.
Interrupted ==
  /\ walking /\ trouble < MaxTrouble
  /\ walking' = FALSE
  /\ trouble' = trouble + 1
  /\ UNCHANGED <<world, imported, row, offset, start, closed, skipped>>

\* What the walk had still to bring, other than what it goes on with, and no
\* later walk asks for.
LeftBehind == {t \in Listing \ imported : t <= now - Overlap /\ (Resumed => t \notin Rest)}

\* The query of closed orders fails: the error is noted in the row, with now
\* as the newest time, for want of another.
Noted ==
  /\ closed /\ walking /\ trouble < MaxTrouble
  /\ cursor' = [offset |-> offset, start |-> start]
  /\ completeness' = IF offset > 0 \/ Resumed THEN "syncing" ELSE "partial"
  /\ newest' = now
  /\ skipped' = skipped \cup LeftBehind
  /\ walking' = FALSE
  /\ trouble' = trouble + 1
  /\ UNCHANGED <<world, imported, offset, start, closed>>

Next ==
  \/ Tick
  \/ \E t \in Time : Occur(t)
  \/ Begin \/ StorePage \/ Interrupted \/ Noted

Spec == Init /\ [][Next]_vars

\* The scheduler queues kraken.sync again and again, and the worker works.
Fairness == WF_vars(Begin) /\ WF_vars(StorePage)

FairSpec == Spec /\ Fairness

-----------------------------------------------------------------------------
(* Properties                                                               *)

\* t is still to come in the walk that the row would resume.
Ahead(t) == t > cursor.start /\ Before(t, {u \in history : u > cursor.start}) >= cursor.offset

\* Nothing is lost: an entry that has not been imported is still ahead of the
\* walk the cursor row would resume, or after the time the next walk asks
\* from (docs/spec.md:1569-1579: "import all available spot trade history",
\* "import available closed-order and recent funding history", "The initial
\* import is resumable").  Of the closed orders a failed query leaves out what
\* is older than the overlap (kraken.ts:1173), and nothing else does.
NothingLost ==
  \A t \in history \ (imported \cup skipped) : t > NextStart \/ (Resumed /\ Ahead(t))

\* A history reported complete is imported up to where the next walk asks from
\* (docs/spec.md:1574-1576: "import available closed-order and recent funding
\* history", "record per-endpoint cursors and completeness"), but for what
\* failed queries of the closed orders left behind.
CompleteMeansAll ==
  completeness = "complete" => \A t \in history \ (imported \cup skipped) : t > NextStart

\* Every entry gets imported, however late it shows up, whatever comes in
\* during the walk and wherever the walk is interrupted, unless it is one that
\* a failed query of the closed orders left behind.
EverythingArrives == \A t \in Time : t \in history ~> t \in imported \cup skipped
=============================================================================
