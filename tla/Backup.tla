-------------------------------- MODULE Backup --------------------------------
(***************************************************************************)
(* The backup a user downloads and restores (api/src/services/exports.ts). *)
(*                                                                         *)
(* A job reads the tables one after the other, a page at a time, by offset *)
(* and without a transaction, while syncs, deletions, captures and the     *)
(* retention go on; it writes a file that must not exist yet, and is       *)
(* tried again after a failure or the end of the process.  A restore       *)
(* replaces the groups that were chosen in one transaction.                *)
(*                                                                         *)
(* Two of the six groups stand for all: the addresses, whose tables refer  *)
(* to each other and hold a cursor beside what it speaks of, and the       *)
(* portfolio, a table by itself.  An address has one history at its        *)
(* provider, transactions 1, 2, ...                                        *)
(***************************************************************************)
EXTENDS Integers, Sequences, FiniteSets, SequencesExt

CONSTANTS
  Address,    \* tracked addresses there may be
  Key,        \* row ids, by which rows are listed; they are random (utils/ids.ts:3)
  MaxHistory, \* bound: transactions of an address at its provider
  PageRows,   \* rows of a page
  MaxAttempts, \* of a job
  MaxChanges, \* bound: what others do to the tables
  MaxTrouble  \* bound: failures and deaths

ASSUME BackupAssumptions ==
  /\ Address \subseteq Nat \ {0} /\ Key \subseteq Nat /\ MaxHistory \in Nat
  /\ PageRows \in Nat \ {0} /\ MaxAttempts \in Nat \ {0}
  /\ MaxChanges \in Nat /\ MaxTrouble \in Nat

VARIABLES
  db,       \* the tables: sets of [key, of, number]; `of` is the address referred to, or 0
  unused,   \* addresses nobody has added yet
  syncs,    \* syncs under way: [address, cursor], as read at their start
  changes,  \* count for the bound
  up,       \* whether the process runs
  status,   \* of the row in application_exports
  job,      \* of the application.export job
  attempts, \* of the job
  file,     \* the artifact: "none", "partial" or "whole"
  place,    \* where the attempt is: [table (its number), offset]
  archive,  \* what it has written: for each table, rows in the order they came
  downloaded, \* whether the user has downloaded it
  before,   \* history: db when the first page was read
  quiet,    \* history: nothing has changed while the pages were read
  shrunk,   \* history: rows were deleted while the pages were read
  crossed,  \* history: addresses were restored while a sync was under way
  trouble   \* count for the bound

tables == <<db, unused, syncs, changes>>
exporting == <<status, job, attempts, file, place, archive>>
backupVars == <<tables, exporting, up, downloaded, before, quiet, shrunk, crossed, trouble>>

-----------------------------------------------------------------------------
(* The groups and their tables. *)

Group == {"addresses", "portfolio"}

\* Mutant: the history is read, and inserted, ahead of the cursors.
CursorsLast(group) ==
  IF group = "addresses"
  THEN <<"tracked_addresses", "chain_transactions", "address_sync_state">>
  ELSE <<"portfolio_snapshots">>

\* Mutant: what refers to an address comes ahead of it.
ChildrenFirst(group) ==
  IF group = "addresses"
  THEN <<"address_sync_state", "chain_transactions", "tracked_addresses">>
  ELSE <<"portfolio_snapshots">>

InsertOrder(group) ==
  IF group = "addresses"
  THEN <<"tracked_addresses", "address_sync_state", "chain_transactions">>
  ELSE <<"portfolio_snapshots">>

Listed == InsertOrder("addresses") \o InsertOrder("portfolio")
Table == ToSet(Listed)
TablesOf(groups) == UNION {ToSet(InsertOrder(g)) : g \in groups}
References == Table \ {"tracked_addresses", "portfolio_snapshots"}

Row(key, of, number) == [key |-> key, of |-> of, number |-> number]

Ids(rows) == {r.key : r \in rows}
Tracked(d) == Ids(d["tracked_addresses"])
Cursor(d, a) ==
  IF \E r \in d["address_sync_state"] : r.of = a
  THEN (CHOOSE r \in d["address_sync_state"] : r.of = a).number ELSE 0
HistoryOf(d, a) == {r.number : r \in {s \in d["chain_transactions"] : s.of = a}}
FreeKey(t) == {k \in Key : \A r \in db[t] : r.key # k}

Least(m, n) == IF m < n THEN m ELSE n

Empty == [t \in Table |-> {}]
Nowhere == [table |-> 0, offset |-> 0]

BackupInit ==
  /\ \E first \in Address, k \in Key, synced \in BOOLEAN :
       /\ db = [Empty EXCEPT
                  !["tracked_addresses"] = {Row(first, 0, 0)},
                  !["address_sync_state"] = IF synced THEN {Row(first, first, 1)} ELSE {},
                  !["chain_transactions"] = IF synced THEN {Row(k, first, 1)} ELSE {}]
       /\ unused = Address \ {first}
  /\ syncs = {} /\ changes = 0 /\ up = TRUE
  /\ status = "none" /\ job = "none" /\ attempts = 0 /\ file = "none"
  /\ place = Nowhere /\ archive = [t \in Table |-> <<>>] /\ downloaded = FALSE
  /\ before = Empty /\ quiet = TRUE /\ shrunk = FALSE /\ crossed = FALSE /\ trouble = 0

-----------------------------------------------------------------------------
(* What goes on beside it. *)

Reading == place # Nowhere

Changes(d, fewer) ==
  /\ changes < MaxChanges /\ changes' = changes + 1
  /\ db' = d
  /\ quiet' = (quiet /\ ~ Reading) /\ shrunk' = (shrunk \/ (fewer /\ Reading))

Around == UNCHANGED <<exporting, up, downloaded, before, crossed, trouble>>

AddAddress ==
  \E a \in unused :
    /\ Changes([db EXCEPT !["tracked_addresses"] = @ \cup {Row(a, 0, 0)}], FALSE)
    /\ unused' = unused \ {a}
    /\ Around /\ UNCHANGED syncs

\* All that refers to the address goes with it.
DeleteAddress ==
  /\ \E a \in Tracked(db) :
       Changes([t \in Table |-> {r \in db[t] :
                  r.of # a /\ (t = "tracked_addresses" => r.key # a)}], TRUE)
  /\ Around /\ UNCHANGED <<unused, syncs>>

\* A sync reads the cursor of its address ...
BeginSync ==
  /\ up /\ \E a \in Tracked(db) :
       /\ \A s \in syncs : s.address # a
       /\ Cursor(db, a) < MaxHistory
       /\ syncs' = syncs \cup {[address |-> a, cursor |-> Cursor(db, a)]}
  /\ Around /\ UNCHANGED <<db, unused, changes, quiet, shrunk>>

Put(rows, row) == {r \in rows : r.of # row.of} \cup {row}

\* ... and stores the next transaction and the cursor together.  Without its address
\* it stores nothing.
StoreSync ==
  /\ \E s \in syncs :
       /\ syncs' = syncs \ {s}
       /\ IF s.address \in Tracked(db)
          THEN \E k \in FreeKey("chain_transactions") :
                 LET next == s.cursor + 1
                     new == IF next \in HistoryOf(db, s.address) THEN {}
                            ELSE {Row(k, s.address, next)}
                 IN Changes([db EXCEPT
                      !["chain_transactions"] = @ \cup new,
                      !["address_sync_state"] = Put(@, Row(s.address, s.address, next))], FALSE)
          ELSE UNCHANGED <<db, changes, quiet, shrunk>>
  /\ Around /\ UNCHANGED unused

Capture ==
  /\ \E k \in FreeKey("portfolio_snapshots") :
       Changes([db EXCEPT !["portfolio_snapshots"] = @ \cup {Row(k, 0, 0)}], FALSE)
  /\ Around /\ UNCHANGED <<unused, syncs>>

Retire ==
  /\ \E r \in db["portfolio_snapshots"] :
       Changes([db EXCEPT !["portfolio_snapshots"] = @ \ {r}], TRUE)
  /\ Around /\ UNCHANGED <<unused, syncs>>

-----------------------------------------------------------------------------
(* The export. *)

\* POST /api/exports/application: the row, and then its job.
Create ==
  /\ up /\ status = "none" /\ status' = "queued"
  /\ UNCHANGED <<tables, job, attempts, file, place, archive, up, downloaded, before,
                 quiet, shrunk, crossed, trouble>>

Enqueue ==
  /\ up /\ status = "queued" /\ job = "none" /\ job' = "queued"
  /\ UNCHANGED <<tables, status, attempts, file, place, archive, up, downloaded, before,
                 quiet, shrunk, crossed, trouble>>

\* The count of attempts only matters up to the last one.
Tried == Least(attempts + 1, MaxAttempts)

\* The job's next attempt creates its file.
Open ==
  /\ up /\ job \in {"queued", "retry"} /\ file = "none"
  /\ job' = "running" /\ attempts' = Tried
  /\ status' = "running" /\ file' = "partial"
  /\ place' = [table |-> 1, offset |-> 0] /\ archive' = [t \in Table |-> <<>>]
  /\ before' = db /\ quiet' = TRUE /\ shrunk' = FALSE
  /\ UNCHANGED <<tables, up, downloaded, crossed, trouble>>

\* The rows of a table in the order of their ids, from an offset on.
PlaceOf(t, k) == Cardinality({q \in Ids(db[t]) : q <= k})
RowAt(t, n) == CHOOSE r \in db[t] : PlaceOf(t, r.key) = n
PageOf(t, offset) ==
  [i \in 1 .. Least(PageRows, Cardinality(Ids(db[t])) - offset) |-> RowAt(t, offset + i)]

\* A page after the other, until one is empty.
ReadPage ==
  /\ up /\ place.table \in 1 .. Len(Listed)
  /\ LET t == Listed[place.table]
         rows == PageOf(t, place.offset)
     IN IF rows = <<>>
        THEN /\ place' = [table |-> place.table + 1, offset |-> 0]
             /\ UNCHANGED archive
        ELSE /\ place' = [place EXCEPT !.offset = @ + Len(rows)]
             /\ archive' = [archive EXCEPT ![t] = @ \o rows]
  /\ UNCHANGED <<tables, status, job, attempts, file, up, downloaded, before, quiet,
                 shrunk, crossed, trouble>>

\* The manifest, the end of the file, and the row.
Finish ==
  /\ up /\ place.table = Len(Listed) + 1
  /\ file' = "whole" /\ status' = "completed" /\ place' = Nowhere
  /\ UNCHANGED <<tables, job, attempts, archive, up, downloaded, before, quiet, shrunk,
                 crossed, trouble>>

JobDone ==
  /\ up /\ job = "running" /\ status = "completed" /\ job' = "completed"
  /\ UNCHANGED <<tables, status, attempts, file, place, archive, up, downloaded, before,
                 quiet, shrunk, crossed, trouble>>

\* Mutant: an attempt that fails leaves the row as it is.
FailedSilently(tries) ==
  /\ status' = "running" /\ place' = Nowhere
  /\ job' = IF tries < MaxAttempts THEN "retry" ELSE "failed"

\* What the catch does, and the queue after it.
Failed(tries) ==
  /\ status' = "failed" /\ place' = Nowhere
  /\ job' = IF tries < MaxAttempts THEN "retry" ELSE "failed"

\* A query or the file fails, or the progress of a finished archive cannot be noted.
Fail ==
  /\ up /\ job = "running" /\ trouble < MaxTrouble /\ trouble' = trouble + 1
  /\ Failed(attempts)
  /\ UNCHANGED <<tables, attempts, file, archive, up, downloaded, before, quiet, shrunk,
                 crossed>>

\* The file is there from an earlier attempt: all was written before the error came ...
Refused ==
  /\ up /\ job \in {"queued", "retry"} /\ file # "none"
  /\ attempts' = Tried /\ Failed(attempts')
  /\ UNCHANGED <<tables, file, archive, up, downloaded, before, quiet, shrunk, crossed,
                 trouble>>

Down == up' = FALSE /\ syncs' = {} /\ place' = Nowhere

\* ... or it comes while nobody awaits the archive, and ends the process.
RefusedFatally ==
  /\ up /\ job \in {"queued", "retry"} /\ file # "none"
  /\ attempts' = Tried /\ status' = "running" /\ job' = "running" /\ Down
  /\ UNCHANGED <<db, unused, changes, file, archive, downloaded, before, quiet, shrunk,
                 crossed, trouble>>

Die ==
  /\ up /\ trouble < MaxTrouble /\ trouble' = trouble + 1 /\ Down
  /\ UNCHANGED <<db, unused, changes, status, job, attempts, file, archive, downloaded,
                 before, quiet, shrunk, crossed>>

\* The queue puts back what was running, whatever the attempts.
Boot ==
  /\ ~ up /\ up' = TRUE
  /\ job' = IF job = "running" THEN "retry" ELSE job
  /\ UNCHANGED <<tables, status, attempts, file, place, archive, downloaded, before,
                 quiet, shrunk, crossed, trouble>>

-----------------------------------------------------------------------------
(* The restore. *)

\* GET /api/exports/application/:id/download, before the artifact expires.
Download ==
  /\ up /\ status = "completed" /\ ~ downloaded /\ downloaded' = TRUE
  /\ UNCHANGED <<tables, exporting, up, before, quiet, shrunk, crossed, trouble>>

\* Mutant: the cursors are not deleted.
EmptiedBut(groups) ==
  [t \in Table |-> IF t \in TablesOf(groups) \ {"address_sync_state"} THEN {} ELSE db[t]]

\* DELETE FROM, table by table.
Emptied(groups) == [t \in Table |-> IF t \in TablesOf(groups) THEN {} ELSE db[t]]

\* An id that is there already, or an address that is not, is an error.
Fits(d, t, row) ==
  /\ \A r \in d[t] : r.key # row.key
  /\ t \in References => row.of \in Tracked(d)

InsertRow(result, t, row) ==
  IF result.ok /\ Fits(result.db, t, row)
  THEN [result EXCEPT !.db[t] = @ \cup {row}]
  ELSE [result EXCEPT !.ok = FALSE]

InsertTable(result, t) ==
  LET F[n \in 0 .. Len(archive[t])] ==
        IF n = 0 THEN result ELSE InsertRow(F[n - 1], t, archive[t][n])
  IN F[Len(archive[t])]

\* What the transaction of a restore would come to.
Restored(groups) ==
  LET F[n \in 0 .. Len(Listed)] ==
        IF n = 0 THEN [db |-> Emptied(groups), ok |-> TRUE]
        ELSE IF Listed[n] \in TablesOf(groups) THEN InsertTable(F[n - 1], Listed[n])
        ELSE F[n - 1]
  IN F[Len(Listed)]

Chosen == (SUBSET Group) \ {{}}

\* An error rolls everything back.  The syncs under way know nothing of it.
Restore ==
  /\ up /\ downloaded
  /\ \E groups \in Chosen :
       LET result == Restored(groups)
       IN /\ result.ok /\ db' = result.db
          /\ crossed' = (crossed \/ (syncs # {} /\ "addresses" \in groups))
  /\ UNCHANGED <<unused, syncs, changes, exporting, up, downloaded, before, quiet, shrunk,
                 trouble>>

-----------------------------------------------------------------------------

BackupNext ==
  \/ AddAddress \/ DeleteAddress \/ BeginSync \/ StoreSync \/ Capture \/ Retire
  \/ Create \/ Enqueue \/ Open \/ ReadPage \/ Finish \/ JobDone \/ Fail
  \/ Refused \/ RefusedFatally \/ Die \/ Boot \/ Download \/ Restore

\* Whatever the process does while it is up, and the supervisor that starts it.
BackupSteps == Open \/ ReadPage \/ Finish \/ JobDone \/ Refused \/ Boot

-----------------------------------------------------------------------------
(* Properties. *)

\* What a backup promises (docs/operations.md:84, "A confirmed restore atomically
\* replaces every row in the selected groups, but the ZIP is not a
\* transaction-consistent substitute"): read while nothing changed, it restores any
\* choice of its groups to what they were, whatever has become of the database; read
\* while rows were only added, a restore that succeeds brings back every row there was.
RestoresWhole ==
  downloaded => \A groups \in Chosen :
    LET result == Restored(groups)
    IN \A t \in TablesOf(groups) :
         /\ quiet => result.ok /\ result.db[t] = before[t]
         /\ ~ shrunk /\ result.ok => Ids(before[t]) \subseteq Ids(result.db[t])

\* A cursor, be it restored, speaks for nothing that is missing: what it says is
\* imported would never be asked for again.  Deletions while the pages were read, and
\* a sync under way at the restore, do break it.
ClaimsHeld ==
  ~ shrunk /\ ~ crossed =>
    \A a \in Tracked(db) : 1 .. Cursor(db, a) \subseteq HistoryOf(db, a)

\* Both: what a backup of rows that stay brings back, and what no restore may claim.
BackupTrue == RestoresWhole /\ ClaimsHeld

Settled == status \in {"completed", "failed"} /\ job \in {"completed", "failed"}

\* The page polls "until it is downloadable or failed" (docs/user-guide.md:329): an
\* export whose job was enqueued gets there, unless the process goes down.
ExportSettles == [](job # "none" => <>(Settled \/ ~ up))

=============================================================================
