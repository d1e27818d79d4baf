---------------------------- MODULE KrakenAccount ----------------------------
(***************************************************************************)
(* What a refresh of the Kraken account keeps of it                        *)
(* (api/src/services/kraken.ts, retention.ts), and what the Earn page      *)
(* makes of that.                                                          *)
(*                                                                         *)
(* A kraken.sync job asks one endpoint after the other, page by page, and  *)
(* the account goes on changing meanwhile: funds move between spot and the *)
(* strategies of Earn, orders and positions come and go.  An endpoint that *)
(* fails ends the attempt, or only its own part of it.  The last step      *)
(* writes the snapshot of the present half hour.  There is one such job at *)
(* a time (JobQueue), and one asset here.  A movement of Earn is in the    *)
(* ledger at its instant; how the pages of the ledger are walked is the    *)
(* subject of KrakenImport, here the walk is whole or it is interrupted.   *)
(***************************************************************************)
EXTENDS Integers, Sequences, FiniteSets, FiniteSetsExt, Functions

CONSTANTS
  Item,        \* what the endpoints list, numbers: the order of their pages
  Endpoint,    \* the endpoints asked between Earn and the snapshot, in order
  HalfHour,    \* instants in the half hour that shares a snapshot
  Retention,   \* the setting retentionDays, in instants
  Suffixed,    \* may the balances show what is in Earn, under names with a suffix?
  MaxInstant,  \* bound: instants
  MaxMoves,    \* bound: changes of the account
  MaxFailures  \* bound: failing queries and processes that end

\* What the code does about an endpoint that lists something: whether it asks
\* page by page, whether what is listed no more is recorded as absent, and what
\* an error ends.
EarnAllocations == [paged |-> TRUE,  marks |-> TRUE,  error |-> "attempt"]
OperationStatus == [paged |-> TRUE,  marks |-> FALSE, error |-> "page"]
Margin          == [paged |-> FALSE, marks |-> TRUE,  error |-> "attempt"]
OpenOrders      == [paged |-> FALSE, marks |-> TRUE,  error |-> "endpoint"]
TradeBalance    == [paged |-> FALSE, marks |-> FALSE, error |-> "endpoint"]
Funding         == [paged |-> TRUE,  marks |-> FALSE, error |-> "endpoint"]
TradeVolume     == [paged |-> TRUE,  marks |-> TRUE,  error |-> "page"]
CreditLines     == [paged |-> FALSE, marks |-> FALSE, error |-> "endpoint"]

Policy ==
  [allocations |-> EarnAllocations, operations |-> OperationStatus, margin |-> Margin,
   openOrders |-> OpenOrders, tradeBalance |-> TradeBalance, funding |-> Funding,
   tradeVolume |-> TradeVolume, creditLines |-> CreditLines]

ASSUME AccountAssumptions ==
  /\ Item \subseteq Nat \ {0} /\ IsFiniteSet(Item)
  /\ Endpoint \in Seq(DOMAIN Policy \ {"allocations"})
  /\ HalfHour \in Nat \ {0} /\ Retention \in Nat \ {0} /\ Suffixed \subseteq BOOLEAN
  /\ MaxInstant \in Nat /\ MaxMoves \in Nat /\ MaxFailures \in Nat

VARIABLES
  instant,   \* now
  spot,      \* Kraken: the balance outside of Earn
  earn,      \* Kraken: the allocation to each strategy
  listed,    \* Kraken: what the other endpoints list
  suffixed,  \* Kraken: do the balances show Earn?
  ledger,    \* Kraken: the movements of Earn, by instant
  kept,      \* kraken_ledgers: the same, as far as it is imported
  complete,  \* kraken_sync_cursors: is the walk of the ledgers complete?
  allocated, \* kraken_earn_allocations.quantity
  rates,     \* kraken_earn_strategy_rates: half hours there are rates of
  seen,      \* kraken_account_observations: the newest of each entity
  snapshot,  \* kraken_snapshots with their balances, by half hour
  told,      \* have the graphs been told of all that is stored?
  run,       \* the attempt of the kraken.sync job under way
  moved,     \* history: has the account moved since the run read the balances?
  blurred,   \* history: half hours whose snapshot an Earn movement came close to
  churned,   \* history: what came, went or was cut during the present walk
  spoilt,    \* history: half hours in which an attempt has failed
  moves, failures \* counts for the bounds

account == <<spot, earn, listed, suffixed, ledger>>
stored == <<kept, complete, allocated, rates, seen, snapshot>>
past == <<moved, blurred, churned, spoilt>>
bounds == <<moves, failures>>
accountVars == <<instant, account, stored, told, run, past, bounds>>

Instant == 0 .. MaxInstant
Half == 0 .. MaxInstant \div HalfHour

HalfOf(t) == t \div HalfHour

InEarn(allocation) == SumFunction(allocation)

Never == -1
Unknown == -1
Absent == [present |-> FALSE, at |-> Never]
NoSnapshot == [spot |-> Unknown, earn |-> Unknown]

\* The steps of the handler.
Steps == <<"ledgers", "balances", "allocations", "strategies">> \o Endpoint
           \o <<"snapshot", "announce">>
Lists == {"allocations"} \cup Range(Endpoint)
Resting == [step |-> 0, page |-> 0, ids |-> {}, warned |-> FALSE,
            balances |-> NoSnapshot, allocations |-> [i \in Item |-> 0],
            changed |-> FALSE, differs |-> FALSE, half |-> 0]
At(step) == run.step # 0 /\ Steps[run.step] = step
Advance(r) == [r EXCEPT !.step = @ + 1, !.page = 0, !.ids = {}, !.warned = FALSE]

\* What an endpoint lists now.
Listed(e) == IF e = "allocations" THEN {i \in Item : earn[i] > 0} ELSE listed

AccountTypeOK ==
  /\ instant \in Instant /\ spot \in Nat /\ earn \in [Item -> Nat] /\ listed \subseteq Item
  /\ suffixed \in BOOLEAN /\ ledger \in [Instant -> Int] /\ kept \in [Instant -> Int]
  /\ complete \in BOOLEAN /\ allocated \in [Item -> Nat] /\ rates \subseteq Half
  /\ seen \in [Lists -> [Item -> [present : BOOLEAN, at : Instant \cup {Never}]]]
  /\ snapshot \in [Half -> [spot : Nat \cup {Unknown}, earn : Nat \cup {Unknown}]]
  /\ told \in BOOLEAN /\ moved \in BOOLEAN
  /\ run \in [step : 0 .. Len(Steps), page : Item \cup {0}, ids : SUBSET Item,
              warned : BOOLEAN, balances : [spot : Nat \cup {Unknown}, earn : Nat \cup {Unknown}],
              allocations : [Item -> Nat], changed : BOOLEAN, differs : BOOLEAN, half : Half]
  /\ blurred \subseteq Half /\ churned \subseteq Item
  /\ spoilt \subseteq Half /\ moves \in 0 .. MaxMoves /\ failures \in 0 .. MaxFailures

AccountInit ==
  /\ instant = 0 /\ spot = 1 /\ earn = [i \in Item |-> 0] /\ listed = {}
  /\ suffixed \in Suffixed
  /\ ledger = [t \in Instant |-> 0] /\ kept = ledger
  /\ complete = FALSE /\ allocated = earn /\ rates = {}
  /\ seen = [e \in Lists |-> [i \in Item |-> Absent]]
  /\ snapshot = [h \in Half |-> NoSnapshot]
  /\ told = TRUE /\ run = Resting
  /\ moved = FALSE /\ blurred = {} /\ churned = {} /\ spoilt = {}
  /\ moves = 0 /\ failures = 0

(***************************************************************************)
(* The account, and the clock.                                             *)
(***************************************************************************)
Moves ==
  /\ moves < MaxMoves /\ moves' = moves + 1
  /\ moved' = (run.step > 2)
  /\ UNCHANGED <<instant, stored, told, run, spoilt, suffixed, failures>>

\* What comes or goes before the walk's first page is not missed by it.
Churned(ids) == IF run.page = 0 THEN churned ELSE churned \cup ids

EarnMoves(i, amount, fromSpot) ==
  /\ earn[i] + amount >= 0 /\ spot - fromSpot >= 0
  /\ earn' = [earn EXCEPT ![i] = @ + amount]
  /\ spot' = spot - fromSpot
  /\ ledger' = [ledger EXCEPT ![instant] = @ + amount]
  /\ blurred' = blurred \cup {HalfOf(instant)}
  /\ churned' = Churned(IF (earn[i] > 0) = (earn'[i] > 0) THEN {} ELSE {i})
  /\ UNCHANGED listed
  /\ Moves

Allocate(i) == EarnMoves(i, 1, 1)
Deallocate(i) == EarnMoves(i, -1, -1)
Reward(i) == EarnMoves(i, 1, 0)

\* A trade, a deposit or a withdrawal.
SpotMoves(amount) ==
  /\ spot + amount >= 0 /\ spot' = spot + amount
  /\ UNCHANGED <<earn, listed, ledger, blurred, churned>>
  /\ Moves

ListingChanges(i) ==
  /\ listed' = IF i \in listed THEN listed \ {i} ELSE listed \cup {i}
  /\ churned' = Churned({i})
  /\ UNCHANGED <<spot, earn, ledger, blurred>>
  /\ Moves

InstantPasses ==
  /\ instant < MaxInstant /\ instant' = instant + 1
  /\ UNCHANGED <<account, stored, told, run, past, bounds>>

(***************************************************************************)
(* The run.                                                                *)
(***************************************************************************)
\* The job is claimed.  Nothing of an earlier attempt is kept: the fingerprint
\* of what the graphs show is taken now.
Start ==
  /\ run.step = 0
  /\ run' = [Resting EXCEPT !.step = 1]
  /\ UNCHANGED <<instant, account, stored, told, past, bounds>>

\* The attempt ends, for an error or with the process.
Ends ==
  /\ failures < MaxFailures /\ failures' = failures + 1
  /\ run' = Resting /\ moved' = FALSE /\ churned' = {}
  /\ spoilt' = spoilt \cup {HalfOf(instant)}
  /\ UNCHANGED <<instant, account, blurred, moves>>

\* The process may end between any two transactions.
ProcessEnds ==
  /\ run.step # 0
  /\ Ends
  /\ UNCHANGED <<stored, told>>

\* The ledgers are imported from the newest on; what stays undone is resumed
\* by the next attempt.
ImportLedgers ==
  /\ At("ledgers")
  /\ kept' = ledger /\ complete' = TRUE
  /\ told' = (told /\ kept = ledger)
  /\ run' = [Advance(run) EXCEPT !.differs = @ \/ kept # ledger]
  /\ UNCHANGED <<instant, account, allocated, rates, seen, snapshot, moved, blurred, churned,
                 spoilt, bounds>>

\* Mutant: a walk of the ledgers that is interrupted counts as complete.
LedgersFailUnnoticed ==
  /\ At("ledgers")
  /\ \E since \in Instant :
       kept' = [t \in Instant |-> IF t >= since THEN ledger[t] ELSE kept[t]]
  /\ complete' = TRUE
  /\ told' = (told /\ kept' = kept)
  /\ Ends
  /\ UNCHANGED <<allocated, rates, seen, snapshot>>

LedgersFail ==
  /\ At("ledgers")
  /\ \E since \in Instant :
       /\ kept' = [t \in Instant |-> IF t >= since THEN ledger[t] ELSE kept[t]]
       /\ complete' = FALSE
  /\ told' = (told /\ kept' = kept)
  /\ Ends
  /\ UNCHANGED <<allocated, rates, seen, snapshot>>

\* BalanceEx, or Balance when that fails; both know the same balances.
ReadBalances ==
  /\ At("balances")
  /\ run' = [Advance(run) EXCEPT
               !.balances = [spot |-> spot, earn |-> IF suffixed THEN InEarn(earn) ELSE 0]]
  /\ UNCHANGED <<instant, account, stored, told, past, bounds>>

\* The newest observation of each thing an endpoint lists, once a page that
\* listed "page" is in; the last page of a walk that began at the beginning
\* also records as absent what none of its pages listed.
Recorded(e, page, ids, marks) ==
  [i \in Item |->
     IF i \in page THEN [present |-> TRUE, at |-> instant]
     ELSE IF marks /\ i \notin ids /\ seen[e][i].present THEN [present |-> FALSE, at |-> instant]
     ELSE seen[e][i]]

\* The page after the cursor, and whether there is another.
PageOf(e) ==
  LET rest == {i \in Listed(e) : i > run.page}
  IN IF ~Policy[e].paged \/ rest = {} THEN rest ELSE {Min(rest)}
LastPage(e) == \A i \in Listed(e) : i > run.page => i \in PageOf(e)

\* Mutant: every page marks what it does not list.
MarksAlways(e) == Policy[e].marks /\ ~run.warned

\* Only the last page of a walk without a warning marks.
Marks(e) == LastPage(e) /\ Policy[e].marks /\ ~run.warned

\* One page of an endpoint, in one transaction with its cursor.  The rows of
\* the allocations are upserted as well, and never cleared.
ReadPage(e) ==
  LET page == PageOf(e)
      ids == run.ids \cup page
  IN /\ At(e)
     /\ seen' = [seen EXCEPT ![e] = Recorded(e, page, ids, Marks(e))]
     /\ allocated' = IF e = "allocations"
                 THEN [i \in Item |-> IF i \in page THEN earn[i] ELSE allocated[i]] ELSE allocated
     /\ LET r == [run EXCEPT !.ids = ids,
                    !.page = IF page = {} THEN @ ELSE Max(page),
                    !.allocations = IF e = "allocations"
                       THEN [i \in Item |-> IF i \in page THEN earn[i] ELSE @[i]] ELSE @,
                    !.differs = @ \/ allocated' # allocated]
        IN run' = IF LastPage(e) THEN Advance(r) ELSE r
     /\ churned' = IF LastPage(e) THEN {} ELSE churned
     /\ told' = (told /\ allocated' = allocated)
     /\ UNCHANGED <<instant, account, kept, complete, rates, snapshot, moved, blurred,
                    spoilt, bounds>>

\* An error ends the attempt, so that the last snapshot stays, or the
\* endpoint, or only the page.
PageFails(e) ==
  /\ At(e)
  /\ UNCHANGED <<stored, told>>
  /\ IF Policy[e].error = "attempt"
       THEN Ends
       ELSE /\ failures < MaxFailures /\ failures' = failures + 1
            /\ run' = IF Policy[e].error = "endpoint" \/ LastPage(e)
                        THEN Advance(run)
                        ELSE [run EXCEPT !.warned = TRUE, !.page = Max(PageOf(e))]
            /\ churned' = IF run'.step = run.step THEN churned ELSE {}
            /\ UNCHANGED <<instant, account, moved, blurred, spoilt, moves>>

\* The rates of the strategies, kept by half hour; an error ends the walk and
\* not the attempt.  The status of the operations follows, its errors ignored.
ReadStrategies ==
  /\ At("strategies")
  /\ rates' = rates \cup {HalfOf(instant)}
  /\ told' = (told /\ rates' = rates)
  /\ run' = [Advance(run) EXCEPT !.differs = @ \/ rates' # rates]
  /\ UNCHANGED <<instant, account, kept, complete, allocated, seen, snapshot, past, bounds>>

StrategiesFail ==
  /\ At("strategies")
  /\ failures < MaxFailures /\ failures' = failures + 1
  /\ run' = Advance(run)
  /\ UNCHANGED <<instant, account, stored, told, past, moves>>

\* Mutant: the allocations are added whether or not the balances show them.
WithEarnTwice(balances, allocations) ==
  [balances EXCEPT !.earn = @ + InEarn(allocations)]

\* includeKrakenEarnBalances: what the balances do not show of Earn is added.
WithEarn(balances, allocations) ==
  [balances EXCEPT !.earn = @ + Max({0, InEarn(allocations) - @})]

\* writeSnapshot: the snapshot of the half hour is replaced as a whole.
WriteSnapshot ==
  /\ At("snapshot")
  /\ LET h == HalfOf(instant)
         value == WithEarn(run.balances, run.allocations)
     IN /\ snapshot' = [snapshot EXCEPT ![h] = value]
        /\ told' = (told /\ snapshot' = snapshot)
        /\ run' = [Advance(run) EXCEPT !.changed = snapshot' # snapshot, !.half = h]
        /\ blurred' = IF moved THEN blurred \cup {h} ELSE blurred
  /\ UNCHANGED <<instant, account, kept, complete, allocated, rates, seen, moved, churned,
                 spoilt, bounds>>

\* Mutant: only another snapshot is announced.
AnnouncesSnapshot(r) == r.changed

\* The result names a graph change when the snapshot is another one, or when
\* the fingerprint is not that of the start of this attempt.
Announces(r) == r.changed \/ r.differs

Announce ==
  /\ At("announce")
  /\ told' = (told \/ Announces(run))
  /\ run' = Resting /\ moved' = FALSE
  /\ UNCHANGED <<instant, account, stored, blurred, churned, spoilt, bounds>>

\* retention.ts: what has not been seen within the retention goes, and the
\* snapshots of half hours before it.
Cutoff == instant - Retention

ApplyRetention ==
  /\ \E e \in Lists, i \in Item : seen[e][i].at \in 0 .. Cutoff - 1
  /\ churned' = Churned({i \in Item : \E e \in Lists : seen[e][i].at \in 0 .. Cutoff - 1})
  /\ seen' = [e \in Lists |-> [i \in Item |->
                IF seen[e][i].at < Cutoff THEN Absent ELSE seen[e][i]]]
  /\ snapshot' = [h \in Half |-> IF h * HalfHour < Cutoff THEN NoSnapshot ELSE snapshot[h]]
  /\ UNCHANGED <<instant, account, kept, complete, allocated, rates, told, run, moved, blurred,
                 spoilt, bounds>>

AccountNext ==
  \/ \E i \in Item : Allocate(i) \/ Deallocate(i) \/ Reward(i) \/ ListingChanges(i)
  \/ \E amount \in {-1, 1} : SpotMoves(amount)
  \/ InstantPasses \/ Start \/ ProcessEnds
  \/ ImportLedgers \/ LedgersFail \/ ReadBalances
  \/ \E e \in Lists : ReadPage(e) \/ PageFails(e)
  \/ ReadStrategies \/ StrategiesFail
  \/ WriteSnapshot \/ Announce \/ ApplyRetention

AccountSpec == AccountInit /\ [][AccountNext]_accountVars

(***************************************************************************)
(* The Earn page: the quantity in Earn at an instant, from the ledger's    *)
(* movements and the snapshots that show Earn; at one instant the          *)
(* movements come first.  While the ledgers are incomplete nothing is      *)
(* known before the first such snapshot.  A quantity that would become     *)
(* negative is a gap.                                                      *)
(***************************************************************************)
Anchors(t) == t % HalfHour = 0 /\ snapshot[HalfOf(t)].earn > 0

Applied(quantity, delta) ==
  IF quantity = Unknown \/ quantity + delta < 0 THEN Unknown ELSE quantity + delta

Quantity[t \in Instant] ==
  LET before == IF t = 0 THEN (IF complete THEN 0 ELSE Unknown) ELSE Quantity[t - 1]
  IN IF Anchors(t) THEN snapshot[HalfOf(t)].earn ELSE Applied(before, kept[t])

\* What has been in Earn at the end of an instant.
Truth[t \in Instant] == ledger[t] + IF t = 0 THEN 0 ELSE Truth[t - 1]

(***************************************************************************)
(* A snapshot shows the whole account when nothing moved since its run     *)
(* read the balances: what is in Earn is counted, and counted once,        *)
(* whatever failed before and whether or not the balances show it.         *)
(***************************************************************************)
SnapshotWhole ==
  (At("announce") /\ ~moved /\ snapshot[run.half] # NoSnapshot)
    => snapshot[run.half] = [spot |-> spot, earn |-> InEarn(earn)]

(***************************************************************************)
(* A walk that ends without a warning leaves present exactly what its      *)
(* endpoint lists, or at least that when it marks nothing; and what is     *)
(* listed all along is at no page of a walk recorded as absent.  What      *)
(* comes or goes during the walk is left aside.                            *)
(***************************************************************************)
ListingKept ==
  [][\A e \in Lists : (At(e) /\ run' # run /\ failures' = failures) =>
       \A i \in Item \ churned :
         LET ends == run'.step = run.step + 1 /\ ~run.warned
             present == seen'[e][i].present
         IN /\ (i \in Listed(e) /\ (ends \/ seen[e][i].present)) => present
            /\ (i \notin Listed(e) /\ ends /\ Policy[e].marks) => ~present]_accountVars

(***************************************************************************)
(* Once the ledgers have been walked to their end, the Earn page shows     *)
(* what was in Earn at every instant before the newest movement imported,  *)
(* and up to now when no movement is missing: the movements the snapshots  *)
(* already hold are not applied twice, and retention loses nothing.  A     *)
(* half hour whose snapshot a movement came close to may show something    *)
(* else, until the next one that shows Earn: its snapshot is taken to be   *)
(* of the first instant of the half hour, and is not.                      *)
(***************************************************************************)
LastAnchor(t) == {u \in 0 .. t : Anchors(u)}
Clear(t) == LastAnchor(t) = {} \/ HalfOf(Max(LastAnchor(t))) \notin blurred
Settled(t) == kept = ledger \/ \E u \in t + 1 .. instant : kept[u] # 0

EarnAgrees ==
  complete => \A t \in 0 .. instant : (Settled(t) /\ Clear(t)) => Quantity[t] = Truth[t]

\* What the page of the account owes: SnapshotWhole and EarnAgrees.
AccountTrue == SnapshotWhole /\ EarnAgrees

(***************************************************************************)
(* When a run has ended well, the graphs have been told of all that is     *)
(* stored, unless an attempt of this half hour has failed before it: what  *)
(* that one stored is in the fingerprint the next one starts from.         *)
(***************************************************************************)
AllTold ==
  [][(At("announce") /\ run'.step = 0 /\ failures' = failures)
       => told' \/ spoilt \cap {run.half, HalfOf(instant)} # {}]_accountVars
=============================================================================
