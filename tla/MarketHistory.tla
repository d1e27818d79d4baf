---------------------------- MODULE MarketHistory ----------------------------
(***************************************************************************)
(* How the price history of one asset of one provider comes to be cached   *)
(* (api/src/scheduler.ts, services/market.ts, services/retention.ts).      *)
(*                                                                         *)
(* A scheduler cycle queues a poll of the last few buckets and, when the   *)
(* cursor of a coarser profile does not reach as far back as the settings  *)
(* ask for, a backfill of the whole profile.  A market.sync job fetches    *)
(* its range window by window, oldest first.  The cursor keeps the oldest  *)
(* and the newest bucket stored, nothing of what lies between them.        *)
(*                                                                         *)
(* Time is counted in buckets of the profile.                              *)
(***************************************************************************)
EXTENDS Integers, FiniteSets

CONSTANTS
  Providers,    \* of "coingecko", "coinbase", "kraken"
  Boundary,     \* the oldest bucket that the provider has
  Window,       \* buckets of one request (coinbase 300, coingecko 30 days)
  Profile,      \* buckets of the deepest profile of coingecko
  Overlap,      \* buckets before the present one that a poll asks for
  Forever,      \* a setting without a limit
  Depths,       \* choices of marketHistoryBackfillDays, with Forever
  Retentions,   \* choices of retentionDays, with Forever
  MaxTime,      \* bound: buckets gone by
  MaxChanges,   \* bound: settings changed, assets switched, ranges asked for by hand
  MaxTrouble    \* bound: failed attempts, failed jobs, ends of the process

ASSUME Assumptions ==
  /\ Providers \subseteq {"coingecko", "coinbase", "kraken"}
  /\ Boundary \in Nat /\ Window \in Nat \ {0} /\ Profile \in Nat \ {0} /\ Overlap \in Nat
  /\ Forever \notin Nat
  /\ Forever \in Depths /\ Depths \ {Forever} \subseteq Nat \ {0}
  /\ Forever \in Retentions /\ Retentions \ {Forever} \subseteq Nat \ {0}
  /\ MaxTime \in Nat /\ Boundary <= MaxTime
  /\ MaxChanges \in Nat /\ MaxTrouble \in Nat

VARIABLES
  provider,   \* the provider of this history
  now,        \* the present bucket
  enabled,    \* watched_assets.enabled
  cancelling, \* patchAsset() is done with the asset, not with its jobs
  depth,      \* the setting marketHistoryBackfillDays
  retention,  \* the setting retentionDays
  points,     \* buckets of market_points, of the profile's granularity
  recent,     \* buckets whose points of the polls' granularity are there
  cursor,     \* market_sync_cursors of the profile
  job,        \* the market.sync job of the profile's resource
  cycle,      \* Scheduler.scheduleCycle()
  cutoff,     \* history: nothing older than this bucket has survived
  until,      \* history: the end of the range that made the cursor complete
  changes,    \* count for the bound
  trouble     \* count for the bound

settings == <<enabled, cancelling, depth, retention>>
cache == <<points, recent, cursor>>
history == <<cutoff, until>>
bounds == <<changes, trouble>>
vars == <<provider, now, settings, cache, job, cycle, history, bounds>>

Bucket == 0 .. MaxTime
Unset == -1

NoJob == [pc |-> "none", from |-> 0, to |-> 0, next |-> 0]
Idle == [pc |-> "idle", from |-> 0, to |-> 0]

TypeOK ==
  /\ provider \in Providers
  /\ now \in Bucket
  /\ enabled \in BOOLEAN /\ cancelling \in BOOLEAN
  /\ depth \in Depths /\ retention \in Retentions
  /\ points \subseteq Boundary .. now
  /\ recent \subseteq Boundary .. now
  /\ cursor \in [oldest : Bucket \cup {Unset}, complete : BOOLEAN]
  /\ job \in [pc : {"none", "queued", "check", "fetch"},
              from : Bucket, to : Bucket, next : Bucket]
  /\ cycle \in [pc : {"idle", "retention", "poll", "cursor", "queue"},
                from : Bucket, to : Bucket]
  /\ cutoff \in Bucket /\ until \in Bucket \cup {Unset}
  /\ changes \in 0 .. MaxChanges /\ trouble \in 0 .. MaxTrouble

Init ==
  /\ provider \in Providers
  /\ now = Boundary
  /\ enabled \in BOOLEAN /\ cancelling = FALSE
  /\ depth = Forever /\ retention = Forever
  /\ points = {} /\ recent = {}
  /\ cursor = [oldest |-> Unset, complete |-> FALSE]
  /\ job = NoJob
  /\ cycle = Idle
  /\ cutoff = 0 /\ until = Unset
  /\ changes = 0 /\ trouble = 0

Changed == changes < MaxChanges /\ changes' = changes + 1
Trouble == trouble < MaxTrouble /\ trouble' = trouble + 1

Least(a, b) == IF a < b THEN a ELSE b
Most(a, b) == IF a > b THEN a ELSE b

-----------------------------------------------------------------------------
(* What is asked for                                                        *)

\* effectiveMarketHistoryBackfillDays.
Effective ==
  IF depth = Forever THEN retention
  ELSE IF retention = Forever THEN depth ELSE Least(depth, retention)

\* The deepest profile: the history of coingecko is limited, the others are asked
\* for all there is.
ProfileLimit == IF provider = "coingecko" THEN Profile ELSE Forever

HistoryFrom ==
  LET days == IF Effective = Forever THEN ProfileLimit
              ELSE IF ProfileLimit = Forever THEN Effective
              ELSE Least(Effective, ProfileLimit)
  IN  IF days = Forever THEN 0 ELSE Most(0, now - days)

\* The last bucket of the request that begins at `first`: windows of coingecko
\* share their ends, those of coinbase do not, kraken answers at once.
WindowEnd(first, to) ==
  CASE provider = "coingecko" -> Least(to, first + Window)
    [] provider = "coinbase"  -> Least(to, first + Window - 1)
    [] OTHER                  -> to

\* Mutant: windows leave a bucket out between them.
NextAfterGap(last) == last + 2

NextWindow(last) == IF provider = "coingecko" THEN last ELSE last + 1

\* What the provider has of a range: from a date on everything that is over.
Provided(from, to) == {b \in from .. to : b >= Boundary /\ b <= now}

-----------------------------------------------------------------------------
(* The scheduler                                                            *)

\* Intervals are due; the settings are read.  Retention comes first, once a day
\* and not on a day it has begun.
CycleStarts ==
  /\ cycle.pc = "idle"
  /\ \E pc \in {"retention", "poll"} :
       cycle' = [pc |-> pc, from |-> HistoryFrom, to |-> now]
  /\ UNCHANGED <<provider, now, settings, cache, job, history, bounds>>

Pruned(b) == b < now - retention

\* Once a day everything older than the retention window is deleted; cursors
\* stay as they are.
ApplyRetention ==
  /\ cycle.pc = "retention"
  /\ IF retention = Forever THEN UNCHANGED <<points, recent, cutoff>>
     ELSE /\ points' = {b \in points : ~ Pruned(b)}
          /\ recent' = {b \in recent : ~ Pruned(b)}
          /\ cutoff' = Most(cutoff, now - retention)
  /\ cycle' = [cycle EXCEPT !.pc = "poll"]
  /\ UNCHANGED <<provider, now, settings, cursor, job, until, bounds>>

\* enqueue(): a job of this resource that is open will do.
Queued(from, to) ==
  IF job.pc # "none" THEN job
  ELSE [pc |-> "queued", from |-> from, to |-> to, next |-> from]

\* The watch list is read, and the poll queued: a job of one request, of a resource
\* of its own.  It is done here in a step, or fails.
Poll ==
  /\ cycle.pc = "poll"
  /\ IF enabled
     THEN /\ cycle' = [cycle EXCEPT !.pc = "cursor"]
          /\ \/ /\ recent' = recent \cup Provided(Most(0, cycle.to - Overlap), cycle.to)
                /\ UNCHANGED trouble
             \/ Trouble /\ UNCHANGED recent
     ELSE cycle' = Idle /\ UNCHANGED <<recent, trouble>>
  /\ UNCHANGED <<provider, now, settings, points, cursor, job, history, changes>>

\* coingecko's hourly history is counted as well: less than half of what can be
\* expected is too little.
LooksSparse(from, to) ==
  /\ provider = "coingecko"
  /\ 2 * Cardinality(points \cap from .. to) < Most(1, to - from)

\* Mutant: any history will do, however short.
ReachesAnything(from) == cursor.oldest # Unset

Reaches(from) == cursor.oldest # Unset /\ cursor.oldest <= from + 1

\* queueBackfillIfNeeded(): "Cached history already reaches the requested start."
ReadCursor ==
  LET skip == \/ cycle.from = 0 /\ cursor.complete
              \/ Reaches(cycle.from) /\ ~ LooksSparse(cycle.from, cycle.to)
  IN  /\ cycle.pc = "cursor"
      /\ cycle' = IF skip \/ ~ enabled THEN Idle ELSE [cycle EXCEPT !.pc = "queue"]
      /\ UNCHANGED <<provider, now, settings, cache, job, history, bounds>>

\* queueBackfill() asks whether the asset is enabled and then enqueues: a job of a
\* disabled asset may slip in, and is cancelled by its handler.
QueueBackfill ==
  /\ cycle.pc = "queue"
  /\ job' = Queued(cycle.from, cycle.to)
  /\ cycle' = Idle
  /\ UNCHANGED <<provider, now, settings, cache, history, bounds>>

-----------------------------------------------------------------------------
(* The market.sync handler                                                  *)

\* planSynchronizationWindows() begins with the first window again, after a
\* retry as well.
Claim ==
  /\ job.pc = "queued"
  /\ job' = [job EXCEPT !.pc = "check", !.next = job.from]
  /\ UNCHANGED <<provider, now, settings, cache, cycle, history, bounds>>

Wanted == enabled

\* cancelIfDisabled(), before each window.
CheckEnabled ==
  /\ job.pc = "check"
  /\ job' = IF Wanted THEN [job EXCEPT !.pc = "fetch"] ELSE NoJob
  /\ UNCHANGED <<provider, now, settings, cache, cycle, history, bounds>>

\* The hull of what there was and what comes in.
Hull(c, found) ==
  IF found = {} THEN c
  ELSE [c EXCEPT !.oldest = LET first == CHOOSE b \in found : \A x \in found : b <= x
                            IN  IF @ = Unset THEN first ELSE Least(@, first)]

\* Mutant: the cursor is complete with the first window.
CompleteAtOnce(last) == job.from = 0

Completes(last) == job.from = 0 /\ last >= job.to

\* One request is answered and stored, in a transaction with the cursor.  After
\* the last window of a range without a beginning the cursor is complete.
StoreWindow ==
  LET last == WindowEnd(job.next, job.to)
      found == Provided(job.next, last)
      hull == Hull(cursor, found)
  IN  /\ job.pc = "fetch"
      /\ points' = points \cup found
      /\ cursor' = [hull EXCEPT !.complete = @ \/ Completes(last)]
      /\ until' = IF Completes(last) THEN Most(until, job.to) ELSE until
      /\ job' = IF last >= job.to THEN NoJob
                ELSE [job EXCEPT !.pc = "check", !.next = NextWindow(last)]
      /\ UNCHANGED <<provider, now, settings, recent, cycle, cutoff, bounds>>

\* The attempt fails and the job waits for the next one, or has failed for good.
AttemptFails ==
  /\ Trouble
  /\ job.pc \in {"check", "fetch"}
  /\ job' \in {NoJob, [job EXCEPT !.pc = "queued"]}
  /\ UNCHANGED <<provider, now, settings, cache, cycle, history, changes>>

\* The process ends and starts again: handlers begin anew, the cycle is lost.
Restart ==
  /\ Trouble
  /\ job' = IF job.pc = "none" THEN NoJob ELSE [job EXCEPT !.pc = "queued"]
  /\ cycle' = Idle
  /\ UNCHANGED <<provider, now, settings, cache, history, changes>>

-----------------------------------------------------------------------------
(* The user, and time                                                       *)

\* patchAsset(), removeAsset(): the jobs that wait are cancelled next.
Disable ==
  /\ Changed
  /\ enabled
  /\ enabled' = FALSE /\ cancelling' = TRUE
  /\ UNCHANGED <<provider, now, depth, retention, cache, job, cycle, cutoff, until, trouble>>

CancelWaiting ==
  /\ cancelling
  /\ cancelling' = FALSE
  /\ job' = IF job.pc = "queued" THEN NoJob ELSE job
  /\ UNCHANGED <<provider, now, enabled, depth, retention, cache, cycle, history, bounds>>

\* patchAsset(), addAsset(), addTopAssets().
Enable ==
  /\ Changed
  /\ ~ enabled
  /\ enabled' = TRUE
  /\ UNCHANGED <<provider, now, cancelling, depth, retention, cache, job, cycle, history, trouble>>

PatchSettings ==
  /\ Changed
  /\ depth' \in Depths /\ retention' \in Retentions
  /\ <<depth, retention>>' # <<depth, retention>>
  /\ UNCHANGED <<provider, now, enabled, cancelling, cache, job, cycle, history, trouble>>

\* POST /api/market/backfill and /api/market/repair, of any range.
AskForRange ==
  /\ Changed
  /\ enabled /\ job.pc = "none"
  /\ \E from \in 0 .. now : job' = Queued(from, now)
  /\ UNCHANGED <<provider, now, settings, cache, cycle, history, trouble>>

Tick ==
  /\ now < MaxTime
  /\ now' = now + 1
  /\ UNCHANGED <<provider, settings, cache, job, cycle, history, bounds>>

-----------------------------------------------------------------------------

Schedule ==
  CycleStarts \/ ApplyRetention \/ Poll \/ ReadCursor \/ QueueBackfill

Work == Claim \/ CheckEnabled \/ StoreWindow

Next ==
  \/ Schedule
  \/ Work \/ AttemptFails \/ Restart
  \/ Disable \/ CancelWaiting \/ Enable \/ PatchSettings \/ AskForRange
  \/ Tick

\* The timer fires every minute, and the queue claims what it can: cycles and
\* handlers run on.  Nothing makes the user act, or time pass beyond the bound.
Fairness == WF_vars(Schedule) /\ WF_vars(CancelWaiting) /\ WF_vars(Work)

Spec == Init /\ [][Next]_vars /\ Fairness

-----------------------------------------------------------------------------
(* Properties                                                               *)

\* A backfill that ends with its last window has stored everything the
\* provider has of its range, over retries, restarts, switched assets and
\* changed settings; retention may have taken some of it.
FinishedIsWhole ==
  [][job.pc = "fetch" /\ job' = NoJob /\ trouble' = trouble =>
       \A b \in Provided(job.from, job.to) : b \in points' \/ b < cutoff]_vars

\* A complete cursor, which keeps everything older from being asked for again,
\* was earned: all there is up to the end of some range has been stored.
CompleteMeansWhole ==
  cursor.complete => \A b \in Boundary .. until : b \in points \/ b < cutoff

\* A backfill under way leaves nothing out before the window it is at.
WholeSoFar ==
  job.pc \in {"check", "fetch"} =>
    \A b \in Provided(job.from, job.next - 1) : b \in points \/ b < cutoff

\* Both: whatever interrupts a backfill, what counts as cached has been stored.
HistoryWhole == CompleteMeansWhole /\ WholeSoFar

\* The history of an enabled asset comes to reach as far back as the settings
\* ask for, or as the provider has it, whatever was changed in between.
HistoryReaches ==
  []<>(~ enabled \/ (cursor.oldest # Unset /\ cursor.oldest <= Most(Boundary, HistoryFrom + 1)))

=============================================================================
