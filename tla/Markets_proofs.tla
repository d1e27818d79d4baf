---------------------------- MODULE Markets_proofs ----------------------------
(***************************************************************************)
(* Of any provider, window, settings and number of buckets: what counts as *)
(* cached of a market has been stored, whatever interrupts the backfills   *)
(* between their windows (MarketHistory).  Of any prices and rows: what a  *)
(* graph, a table and a total make of them is what the providers said      *)
(* (Fractions, Series).  Of any history of an account: whatever the        *)
(* method, what its profit and loss is made of balances (CostBasis, Pnl).  *)
(*                                                                         *)
(* Each part has its own inductive invariant.                              *)
(***************************************************************************)
EXTENDS Market, Pnl, FiniteSetTheorems, WellFoundedInduction, TLAPS

-----------------------------------------------------------------------------
(* Numbers and finite sets. *)

LEMMA NaturalsReached ==
  ASSUME NEW S, 0 \in S, \A n \in Nat : n \in S => n + 1 \in S
  PROVE  Nat \subseteq S
<1> DEFINE T == Nat \ S
<1> SUFFICES ASSUME T # {} PROVE FALSE
  OBVIOUS
<1>1. PICK b \in T : \A x \in T : ~ (<<x, b>> \in OpToRel(<, Nat))
  <2>1. T \subseteq Nat
    OBVIOUS
  <2> HIDE DEF T
  <2> QED
    BY <2>1, NatLessThanWellFounded, WFMin
<1>2. b \in Nat /\ b # 0 /\ \A x \in T : ~ (x < b)
  BY <1>1 DEF OpToRel
<1>3. b - 1 \in Nat /\ b - 1 < b /\ (b - 1) + 1 = b
  BY <1>2
<1> QED
  BY <1>2, <1>3

LEMMA RangeFinite ==
  ASSUME NEW f, NEW D, IsFiniteSet(D), f = [x \in D |-> f[x]]
  PROVE  IsFiniteSet({f[x] : x \in D})
<1> DEFINE T == {f[x] : x \in D}
<1>1. f \in Surjection(D, T)
  BY DEF Surjection
<1> HIDE DEF T
<1>2. IsFiniteSet(T)
  BY <1>1, FS_Surjection
<1> QED
  BY <1>2 DEF T

-----------------------------------------------------------------------------
(* The history of an asset (MarketHistory). *)

\* A range ends with a bucket that has begun, and a window begins within it.
RangesPast ==
  /\ cycle.from <= cycle.to /\ cycle.to <= now
  /\ job.from <= job.to /\ job.next <= job.to /\ job.to <= now

\* Only a backfill that is over, of a range without a beginning, sets `until`.
NotYet == ~ cursor.complete => until = Unset
EndsPast == until <= now

CachedInv ==
  TypeOK /\ RangesPast /\ NotYet /\ EndsPast /\ WholeSoFar /\ CompleteMeansWhole

-----------------------------------------------------------------------------
(* The operators *)

LEMMA Numbers ==
  /\ Boundary \in Nat /\ Window \in Nat /\ Window >= 1 /\ Overlap \in Nat
  /\ MaxTime \in Nat /\ Boundary <= MaxTime
  /\ \A r \in Retentions : r # Forever => r \in Nat
  /\ \A d \in Depths : d # Forever => d \in Nat
  /\ Profile \in Nat /\ Bucket \subseteq Nat
BY Assumptions DEF Bucket

LEMMA LeastMost ==
  ASSUME NEW a \in Int, NEW b \in Int
  PROVE  /\ Least(a, b) \in {a, b} /\ Least(a, b) <= a /\ Least(a, b) <= b
         /\ Most(a, b) \in {a, b} /\ Most(a, b) >= a /\ Most(a, b) >= b
BY DEF Least, Most

\* What is asked for begins with a bucket that has begun.
LEMMA HistoryFromType ==
  ASSUME TypeOK
  PROVE  HistoryFrom \in 0 .. now
<1> DEFINE days == IF Effective = Forever THEN ProfileLimit
                   ELSE IF ProfileLimit = Forever THEN Effective
                   ELSE Least(Effective, ProfileLimit)
<1>1. Effective = Forever \/ Effective \in Nat
  <2>1. /\ depth = Forever \/ depth \in Nat
        /\ retention = Forever \/ retention \in Nat
    BY Numbers DEF TypeOK
  <2> QED BY <2>1 DEF Effective, Least
<1>2. ProfileLimit = Forever \/ ProfileLimit \in Nat
  BY Numbers DEF ProfileLimit
<1>3. days = Forever \/ days \in Nat
  BY <1>1, <1>2 DEF Least
<1>4. now \in Nat
  BY Numbers DEF TypeOK
<1>5. HistoryFrom = IF days = Forever THEN 0 ELSE Most(0, now - days)
  BY DEF HistoryFrom
<1> HIDE DEF days
<1>6. CASE days = Forever
  BY <1>4, <1>5, <1>6
<1>7. CASE days # Forever
  BY <1>3, <1>4, <1>5, <1>7 DEF Most
<1> QED BY <1>6, <1>7

\* A window ends within the range, and the next one begins right behind it or with the
\* bucket that it ended with.
LEMMA Windows ==
  ASSUME NEW first \in Nat, NEW to \in Nat, first <= to
  PROVE  LET last == WindowEnd(first, to)
         IN  /\ last \in Nat /\ first <= last /\ last <= to
             /\ last < to => /\ NextWindow(last) \in Nat /\ NextWindow(last) <= to
                             /\ NextWindow(last) - 1 <= last
<1> DEFINE last == WindowEnd(first, to)
<1>1. last \in Nat /\ first <= last /\ last <= to
  BY Numbers DEF WindowEnd, Least
<1>2. last < to => /\ NextWindow(last) \in Nat /\ NextWindow(last) <= to
                   /\ NextWindow(last) - 1 <= last
  BY <1>1 DEF NextWindow
<1> QED BY <1>1, <1>2

LEMMA OldestExists ==
  ASSUME NEW S \in SUBSET Nat, S # {}
  PROVE  LET first == CHOOSE b \in S : \A x \in S : b <= x
         IN  first \in S
<1>1. PICK b \in S : \A x \in S : ~ (<<x, b>> \in OpToRel(<, Nat))
  BY NatLessThanWellFounded, WFMin
<1>2. \A x \in S : x \in Nat /\ b \in Nat /\ ~ (x < b)
  BY <1>1 DEF OpToRel
<1>3. \A x \in S : b <= x
  BY <1>2
<1> QED BY <1>3

\* The hull keeps what the cursor says of its completeness.
LEMMA HullType ==
  ASSUME NEW c \in [oldest : Bucket \cup {Unset}, complete : BOOLEAN],
         NEW found \in SUBSET Bucket
  PROVE  /\ Hull(c, found) \in [oldest : Bucket \cup {Unset}, complete : BOOLEAN]
         /\ Hull(c, found).complete = c.complete
<1>1. CASE found = {}
  BY <1>1 DEF Hull
<1>2. CASE found # {}
  <2> DEFINE first == CHOOSE b \in found : \A x \in found : b <= x
  <2>1. first \in Bucket
    BY <1>2, OldestExists, Numbers
  <2>2. Hull(c, found) =
          [c EXCEPT !.oldest = IF c.oldest = Unset THEN first ELSE Least(c.oldest, first)]
    BY <1>2 DEF Hull
  <2> HIDE DEF first
  <2>3. (IF c.oldest = Unset THEN first ELSE Least(c.oldest, first)) \in Bucket \cup {Unset}
    BY <2>1 DEF Least
  <2> QED BY <2>2, <2>3
<1> QED BY <1>1, <1>2

-----------------------------------------------------------------------------
(* The steps *)

LEMMA CachedInit == Init => CachedInv
<1> SUFFICES ASSUME Init PROVE CachedInv
  OBVIOUS
<1> USE Numbers DEF Init, NoJob, Idle, Unset, Bucket
<1>1. TypeOK
  <2>1. Forever \in Depths /\ Forever \in Retentions /\ MaxChanges \in Nat /\ MaxTrouble \in Nat
    BY Assumptions
  <2>2. /\ provider \in Providers /\ now \in Bucket
        /\ depth \in Depths /\ retention \in Retentions
        /\ points \subseteq Boundary .. now /\ recent \subseteq Boundary .. now
        /\ cutoff \in Bucket /\ until \in Bucket \cup {Unset}
        /\ changes \in 0 .. MaxChanges /\ trouble \in 0 .. MaxTrouble
    BY <2>1
  <2>3. enabled \in BOOLEAN /\ cancelling \in BOOLEAN
    OBVIOUS
  <2>4. cursor \in [oldest : Bucket \cup {Unset}, complete : BOOLEAN]
    OBVIOUS
  <2>5. /\ job \in [pc : {"none", "queued", "check", "fetch"},
                    from : Bucket, to : Bucket, next : Bucket]
        /\ cycle \in [pc : {"idle", "retention", "poll", "cursor", "queue"},
                      from : Bucket, to : Bucket]
    OBVIOUS
  <2> QED BY <2>2, <2>3, <2>4, <2>5 DEF TypeOK
<1>2. RangesPast /\ NotYet /\ EndsPast
  BY DEF RangesPast, NotYet, EndsPast
<1>3. WholeSoFar /\ CompleteMeansWhole
  BY DEF WholeSoFar, CompleteMeansWhole
<1> QED BY <1>1, <1>2, <1>3 DEF CachedInv

\* A window that is stored.
LEMMA StoreWindowStep ==
  ASSUME CachedInv, StoreWindow
  PROVE  CachedInv'
<1> DEFINE last == WindowEnd(job.next, job.to)
           found == Provided(job.next, last)
           hull == Hull(cursor, found)
<1>1. /\ job.from \in Nat /\ job.to \in Nat /\ job.next \in Nat /\ now \in Nat
      /\ job.from <= job.to /\ job.next <= job.to /\ job.to <= now
      /\ now <= MaxTime /\ cutoff \in Nat
  BY Numbers DEF CachedInv, TypeOK, RangesPast, Bucket
<1>2. last \in Nat /\ job.next <= last /\ last <= job.to
  BY <1>1, Windows
<1>3. last < job.to => /\ NextWindow(last) \in Nat /\ NextWindow(last) <= job.to
                       /\ NextWindow(last) - 1 <= last
  BY <1>1, Windows
<1>4. found = {b \in job.next .. last : b >= Boundary}
  BY <1>1, <1>2, Numbers DEF Provided
<1>5. /\ hull \in [oldest : Bucket \cup {Unset}, complete : BOOLEAN]
      /\ hull.complete = cursor.complete
  <2>1. found \in SUBSET Bucket
    BY <1>1, <1>2, <1>4, Numbers DEF Bucket
  <2> QED BY <2>1, HullType DEF CachedInv, TypeOK
<1>6. /\ job.pc = "fetch" /\ points' = points \cup found
      /\ cursor' = [hull EXCEPT !.complete = hull.complete \/ Completes(last)]
      /\ until' = IF Completes(last) THEN Most(until, job.to) ELSE until
      /\ job' = IF last >= job.to THEN NoJob
                ELSE [job EXCEPT !.pc = "check", !.next = NextWindow(last)]
      /\ UNCHANGED <<provider, now, enabled, cancelling, depth, retention, recent, cycle,
                     cutoff, changes, trouble>>
  BY DEF StoreWindow, settings, bounds
<1> HIDE DEF last, found, hull
<1>7. job' = NoJob \/ (last < job.to /\ job'.pc = "check" /\ job'.from = job.from
                       /\ job'.to = job.to /\ job'.next = NextWindow(last))
  <2>1. CASE last >= job.to
    BY <1>6, <2>1
  <2>2. CASE ~ (last >= job.to)
    BY <1>1, <1>2, <1>6, <2>2 DEF CachedInv, TypeOK
  <2> QED BY <2>1, <2>2
<1>8. cursor'.complete = (cursor.complete \/ Completes(last))
  BY <1>5, <1>6
<1>9. \A b \in Provided(job.from, last) : b \in points' \/ b < cutoff'
  <2> SUFFICES ASSUME NEW b \in Provided(job.from, last) PROVE b \in points' \/ b < cutoff
    BY <1>6
  <2>1. b \in job.from .. last /\ b >= Boundary /\ b <= now
    BY DEF Provided
  <2>2. CASE b < job.next
    <3>1. b \in Provided(job.from, job.next - 1)
      BY <1>1, <1>2, <2>1, <2>2 DEF Provided
    <3> QED BY <3>1, <1>6 DEF CachedInv, WholeSoFar
  <2>3. CASE b >= job.next
    BY <1>1, <1>2, <1>4, <1>6, <2>1, <2>3
  <2> QED BY <1>1, <1>2, <2>1, <2>2, <2>3
<1>10. TypeOK'
  <2>1. points' \subseteq Boundary .. now
    BY <1>1, <1>2, <1>4, <1>6, Numbers DEF CachedInv, TypeOK
  <2>2. cursor' \in [oldest : Bucket \cup {Unset}, complete : BOOLEAN]
    BY <1>5, <1>6
  <2>3. job' \in [pc : {"none", "queued", "check", "fetch"},
                  from : Bucket, to : Bucket, next : Bucket]
    <3>1. CASE last >= job.to
      BY <1>6, <3>1, Numbers DEF NoJob, Bucket
    <3>2. CASE ~ (last >= job.to)
      <4>1. NextWindow(last) \in Bucket
        BY <1>1, <1>2, <1>3, <3>2, Numbers DEF Bucket
      <4> QED BY <4>1, <1>6, <3>2 DEF CachedInv, TypeOK
    <3> QED BY <3>1, <3>2
  <2>4. until' \in Bucket \cup {Unset}
    BY <1>6, <1>1 DEF CachedInv, TypeOK, Most
  <2> QED BY <1>6, <2>1, <2>2, <2>3, <2>4 DEF CachedInv, TypeOK
<1>11. RangesPast'
  <2>1. job'.from <= job'.to /\ job'.next <= job'.to /\ job'.to <= now
    <3>1. CASE job' = NoJob
      BY <1>1, <3>1 DEF NoJob
    <3>2. CASE job' # NoJob
      BY <1>1, <1>3, <1>7, <3>2
    <3> QED BY <3>1, <3>2
  <2> QED BY <1>6, <2>1 DEF CachedInv, RangesPast
<1>12. NotYet' /\ EndsPast'
  BY <1>1, <1>6, <1>8 DEF CachedInv, NotYet, EndsPast, TypeOK, Most, Bucket, Unset
<1>13. WholeSoFar'
  <2>1. CASE job' = NoJob
    BY <2>1 DEF WholeSoFar, NoJob
  <2>2. CASE job' # NoJob
    <3> SUFFICES ASSUME NEW b \in Provided(job.from, NextWindow(last) - 1)
                 PROVE  b \in points' \/ b < cutoff'
      BY <1>6, <1>7, <2>2 DEF WholeSoFar, Provided
    <3>1. b \in Provided(job.from, last)
      BY <1>1, <1>2, <1>3, <1>7, <2>2 DEF Provided
    <3> QED BY <3>1, <1>9
  <2> QED BY <2>1, <2>2
<1>14. CompleteMeansWhole'
  <2> SUFFICES ASSUME cursor'.complete, NEW b \in Boundary .. until'
               PROVE  b \in points' \/ b < cutoff'
    BY DEF CompleteMeansWhole
  <2>0. b \in Int /\ b >= Boundary /\ b <= until' /\ b \in Nat /\ Boundary \in Nat
    BY Numbers, <1>10 DEF TypeOK, Unset, Bucket
  <2>1. CASE Completes(last) /\ b <= job.to
    <3>1. b \in Provided(job.from, last)
      BY <1>1, <1>2, <2>0, <2>1 DEF Completes, Provided
    <3> QED BY <3>1, <1>9
  <2>2. CASE ~ (Completes(last) /\ b <= job.to)
    <3>1. b <= until
      BY <1>1, <1>6, <2>0, <2>2 DEF Most
    <3>2. cursor.complete
      BY <1>8, <2>0, <2>2, <3>1 DEF CachedInv, NotYet, Unset
    <3>3. b \in Boundary .. until
      BY <2>0, <3>1, Numbers DEF CachedInv, TypeOK, Unset, Bucket
    <3> QED BY <1>6, <3>2, <3>3 DEF CachedInv, CompleteMeansWhole
  <2> QED BY <2>1, <2>2
<1> QED BY <1>10, <1>11, <1>12, <1>13, <1>14 DEF CachedInv

\* What is deleted is older than what is said to have survived.
LEMMA ApplyRetentionStep ==
  ASSUME CachedInv, ApplyRetention
  PROVE  CachedInv'
<1>1. now \in Nat /\ cutoff \in Nat /\ now <= MaxTime /\ cutoff <= MaxTime
  BY Numbers DEF CachedInv, TypeOK, Bucket
<1>2. UNCHANGED <<provider, now, enabled, cancelling, depth, retention, cursor, job, until,
                  changes, trouble>>
  BY DEF ApplyRetention, settings, bounds
<1>3. /\ cycle' = [cycle EXCEPT !.pc = "poll"]
      /\ points' \subseteq points /\ recent' \subseteq recent
      /\ cutoff' \in Nat /\ cutoff <= cutoff' /\ cutoff' <= MaxTime
      /\ \A b \in points : b \in points' \/ b < cutoff'
  <2>1. CASE retention = Forever
    BY <1>1, <2>1 DEF ApplyRetention
  <2>2. CASE retention # Forever
    <3>1. retention \in Nat
      BY <2>2, Numbers DEF CachedInv, TypeOK
    <3>2. cutoff' = Most(cutoff, now - retention)
      BY <2>2 DEF ApplyRetention
    <3>3. cutoff' \in Nat /\ cutoff <= cutoff' /\ cutoff' <= MaxTime /\ now - retention <= cutoff'
      BY <1>1, <3>1, <3>2, Numbers DEF Most
    <3>4. /\ points' = {b \in points : ~ Pruned(b)} /\ recent' = {b \in recent : ~ Pruned(b)}
          /\ cycle' = [cycle EXCEPT !.pc = "poll"]
      BY <2>2 DEF ApplyRetention
    <3>5. \A b \in points : b \in points' \/ b < cutoff'
      BY <1>1, <3>1, <3>3, <3>4, Numbers DEF Pruned, CachedInv, TypeOK
    <3> QED BY <3>3, <3>4, <3>5
  <2> QED BY <2>1, <2>2
<1>4. TypeOK'
  BY <1>1, <1>2, <1>3, Numbers DEF CachedInv, TypeOK, Bucket
<1>5. RangesPast' /\ NotYet' /\ EndsPast'
  BY <1>2, <1>3 DEF CachedInv, RangesPast, NotYet, EndsPast, TypeOK
<1>6. ASSUME NEW b \in Int, b \in points \/ b < cutoff PROVE b \in points' \/ b < cutoff'
  BY <1>1, <1>3, <1>6
<1>7. WholeSoFar'
  <2>1. \A b \in Provided(job.from, job.next - 1) : b \in Int
    BY Numbers DEF Provided, CachedInv, TypeOK
  <2> QED BY <1>2, <1>6, <2>1 DEF CachedInv, WholeSoFar, Provided
<1>8. CompleteMeansWhole'
  <2>1. \A b \in Boundary .. until : b \in Int
    BY Numbers DEF CachedInv, TypeOK, Unset
  <2> QED BY <1>2, <1>6, <2>1 DEF CachedInv, CompleteMeansWhole
<1> QED BY <1>4, <1>5, <1>7, <1>8 DEF CachedInv

\* The scheduler reads, and queues a range that it has worked out.
LEMMA ScheduleStep ==
  ASSUME CachedInv, CycleStarts \/ Poll \/ ReadCursor \/ QueueBackfill
  PROVE  CachedInv'
<1> USE DEF settings, cache, history, bounds
<1>1. /\ UNCHANGED <<provider, now, enabled, cancelling, depth, retention, points, cursor,
                     cutoff, until, changes>>
      /\ trouble' \in 0 .. MaxTrouble /\ recent' \subseteq Boundary .. now
  <2>1. CASE Poll
    <3>1. recent' \subseteq Boundary .. now
      BY <2>1, Numbers DEF Poll, Provided, CachedInv, TypeOK
    <3>2. trouble' \in 0 .. MaxTrouble
      BY <2>1, Assumptions DEF Poll, Trouble, CachedInv, TypeOK
    <3> QED BY <2>1, <3>1, <3>2 DEF Poll
  <2>2. CASE CycleStarts \/ ReadCursor \/ QueueBackfill
    BY <2>2 DEF CycleStarts, ReadCursor, QueueBackfill, CachedInv, TypeOK
  <2> QED BY <2>1, <2>2
<1>2. /\ cycle' \in [pc : {"idle", "retention", "poll", "cursor", "queue"},
                     from : Bucket, to : Bucket]
      /\ cycle'.from <= cycle'.to /\ cycle'.to <= now
  <2>1. CASE CycleStarts
    <3>1. /\ HistoryFrom \in Bucket /\ now \in Bucket
          /\ HistoryFrom <= now /\ now <= now
      BY HistoryFromType, Numbers DEF CachedInv, TypeOK, Bucket
    <3>2. PICK pc \in {"retention", "poll"} :
            cycle' = [pc |-> pc, from |-> HistoryFrom, to |-> now]
      BY <2>1 DEF CycleStarts
    <3> QED BY <3>1, <3>2
  <2>2. CASE cycle' = Idle
    BY <2>2, Numbers DEF Idle, CachedInv, TypeOK, Bucket
  <2>3. CASE \E pc \in {"cursor", "queue"} : cycle' = [cycle EXCEPT !.pc = pc]
    BY <2>3 DEF CachedInv, TypeOK, RangesPast
  <2>4. CycleStarts \/ cycle' = Idle \/ \E pc \in {"cursor", "queue"} :
          cycle' = [cycle EXCEPT !.pc = pc]
    BY DEF Poll, ReadCursor, QueueBackfill
  <2> QED BY <2>1, <2>2, <2>3, <2>4
<1>3. job' = job \/ job' = [pc |-> "queued", from |-> cycle.from, to |-> cycle.to,
                            next |-> cycle.from]
  BY DEF CycleStarts, Poll, ReadCursor, QueueBackfill, Queued
<1>4. /\ job' \in [pc : {"none", "queued", "check", "fetch"},
                   from : Bucket, to : Bucket, next : Bucket]
      /\ job'.from <= job'.to /\ job'.next <= job'.to /\ job'.to <= now
      /\ job' = job \/ job'.pc = "queued"
  <2>1. CASE job' = job
    BY <2>1 DEF CachedInv, TypeOK, RangesPast
  <2>2. CASE job' # job
    BY <1>3, <2>2 DEF CachedInv, TypeOK, RangesPast
  <2> QED BY <2>1, <2>2
<1>5. TypeOK'
  BY <1>1, <1>2, <1>4 DEF CachedInv, TypeOK
<1>6. RangesPast'
  BY <1>1, <1>2, <1>4 DEF RangesPast
<1>7. NotYet' /\ EndsPast' /\ CompleteMeansWhole'
  BY <1>1 DEF CachedInv, NotYet, EndsPast, CompleteMeansWhole
<1>8. WholeSoFar'
  BY <1>1, <1>4 DEF CachedInv, WholeSoFar, Provided
<1> QED BY <1>5, <1>6, <1>7, <1>8 DEF CachedInv

\* The job is claimed, goes on, waits again, goes, or is asked for: nothing is stored.
LEMMA JobStep ==
  ASSUME CachedInv,
         Claim \/ CheckEnabled \/ AttemptFails \/ Restart \/ CancelWaiting \/ AskForRange
  PROVE  CachedInv'
<1> USE DEF settings, cache, history, bounds
<1>1. /\ UNCHANGED <<provider, now, enabled, depth, retention, points, recent, cursor,
                     cutoff, until>>
      /\ cycle' \in {cycle, Idle}
  BY DEF Claim, CheckEnabled, AttemptFails, Restart, CancelWaiting, AskForRange
<1>2. cancelling' \in BOOLEAN
  BY DEF Claim, CheckEnabled, AttemptFails, Restart, CancelWaiting, AskForRange, CachedInv, TypeOK
<1>3. changes' \in 0 .. MaxChanges /\ trouble' \in 0 .. MaxTrouble
  <2>1. changes' = changes \/ Changed
    BY DEF Claim, CheckEnabled, AttemptFails, Restart, CancelWaiting, AskForRange
  <2>2. trouble' = trouble \/ Trouble
    BY DEF Claim, CheckEnabled, AttemptFails, Restart, CancelWaiting, AskForRange
  <2> QED BY <2>1, <2>2, Assumptions DEF Changed, Trouble, CachedInv, TypeOK
<1>4. \/ job' = job \/ job' = NoJob
      \/ job' = [job EXCEPT !.pc = "queued"]
      \/ job' = [job EXCEPT !.pc = "check", !.next = job.from]
      \/ job.pc = "check" /\ job' = [job EXCEPT !.pc = "fetch"]
      \/ \E from \in 0 .. now : job' = [pc |-> "queued", from |-> from, to |-> now,
                                        next |-> from]
  BY DEF Claim, CheckEnabled, AttemptFails, Restart, CancelWaiting, AskForRange, Queued
<1>5. /\ job \in [pc : {"none", "queued", "check", "fetch"},
                  from : Bucket, to : Bucket, next : Bucket]
      /\ job.from <= job.to /\ job.next <= job.to /\ job.to <= now
      /\ now \in Bucket
  BY DEF CachedInv, TypeOK, RangesPast
<1>6. /\ job' \in [pc : {"none", "queued", "check", "fetch"},
                   from : Bucket, to : Bucket, next : Bucket]
      /\ job'.from <= job'.to /\ job'.next <= job'.to /\ job'.to <= now
      /\ \/ job'.pc \notin {"check", "fetch"}
         \/ job'.pc = "check" /\ job'.next = job'.from
         \/ job.pc \in {"check", "fetch"} /\ job'.from = job.from /\ job'.next = job.next
  <2>1. CASE job' = job \/ job' = NoJob \/ job' = [job EXCEPT !.pc = "queued"]
    BY <1>5, <2>1, Numbers DEF NoJob, Bucket
  <2>2. CASE job' = [job EXCEPT !.pc = "check", !.next = job.from]
    BY <1>5, <2>2
  <2>3. CASE job.pc = "check" /\ job' = [job EXCEPT !.pc = "fetch"]
    BY <1>5, <2>3
  <2>4. CASE \E from \in 0 .. now : job' = [pc |-> "queued", from |-> from, to |-> now,
                                            next |-> from]
    BY <1>5, <2>4, Numbers DEF Bucket
  <2> QED BY <1>4, <2>1, <2>2, <2>3, <2>4
<1>7. TypeOK'
  <2>1. cycle' \in [pc : {"idle", "retention", "poll", "cursor", "queue"},
                    from : Bucket, to : Bucket]
    BY <1>1, Numbers DEF CachedInv, TypeOK, Idle, Bucket
  <2> QED BY <1>1, <1>2, <1>3, <1>6, <2>1 DEF CachedInv, TypeOK
<1>8. RangesPast'
  BY <1>1, <1>5, <1>6, Numbers DEF CachedInv, RangesPast, Idle, Bucket
<1>9. NotYet' /\ EndsPast' /\ CompleteMeansWhole'
  BY <1>1 DEF CachedInv, NotYet, EndsPast, CompleteMeansWhole
<1>10. WholeSoFar'
  <2>1. CASE job'.pc \notin {"check", "fetch"}
    BY <2>1 DEF WholeSoFar
  <2>2. CASE job'.pc = "check" /\ job'.next = job'.from
    BY <1>6, <2>2, Numbers DEF WholeSoFar, Provided, Bucket
  <2>3. CASE job.pc \in {"check", "fetch"} /\ job'.from = job.from /\ job'.next = job.next
    BY <1>1, <2>3 DEF CachedInv, WholeSoFar, Provided
  <2> QED BY <1>6, <2>1, <2>2, <2>3
<1> QED BY <1>7, <1>8, <1>9, <1>10 DEF CachedInv

\* Switches and settings change, and time passes: a window lies in the past.
LEMMA OutsideStep ==
  ASSUME CachedInv, Disable \/ Enable \/ PatchSettings \/ Tick
  PROVE  CachedInv'
<1> USE DEF settings, cache, history, bounds
<1>1. UNCHANGED <<provider, points, recent, cursor, job, cycle, cutoff, until, trouble>>
  BY DEF Disable, Enable, PatchSettings, Tick
<1>2. now' \in Bucket /\ now <= now' /\ now \in Bucket
  BY Numbers DEF Disable, Enable, PatchSettings, Tick, CachedInv, TypeOK, Bucket
<1>3. depth' \in Depths /\ retention' \in Retentions
  BY DEF Disable, Enable, PatchSettings, Tick, CachedInv, TypeOK
<1>4. enabled' \in BOOLEAN /\ cancelling' \in BOOLEAN
  BY DEF Disable, Enable, PatchSettings, Tick, CachedInv, TypeOK
<1>5. changes' \in 0 .. MaxChanges
  <2>1. changes' = changes \/ Changed
    BY DEF Disable, Enable, PatchSettings, Tick
  <2> QED BY <2>1, Assumptions DEF Changed, CachedInv, TypeOK
<1>6. TypeOK'
  <2>1. points' \subseteq Boundary .. now' /\ recent' \subseteq Boundary .. now'
    BY <1>1, <1>2, Numbers DEF CachedInv, TypeOK, Bucket
  <2> QED BY <1>1, <1>2, <1>3, <1>4, <1>5, <2>1 DEF CachedInv, TypeOK
<1>7. RangesPast' /\ EndsPast'
  BY <1>1, <1>2, Numbers DEF CachedInv, RangesPast, EndsPast, TypeOK, Bucket, Unset
<1>8. NotYet' /\ CompleteMeansWhole'
  BY <1>1 DEF CachedInv, NotYet, CompleteMeansWhole
<1>9. WholeSoFar'
  <2> SUFFICES ASSUME job.pc \in {"check", "fetch"},
                      NEW b \in Provided(job.from, job.next - 1)'
               PROVE  b \in points \/ b < cutoff
    BY <1>1 DEF WholeSoFar
  <2>1. b \in Provided(job.from, job.next - 1)
    BY <1>1, <1>2, Numbers DEF CachedInv, TypeOK, RangesPast, Provided, Bucket
  <2> QED BY <2>1 DEF CachedInv, WholeSoFar
<1> QED BY <1>6, <1>7, <1>8, <1>9 DEF CachedInv

LEMMA CachedStep == CachedInv /\ [Next]_vars => CachedInv'
<1> SUFFICES ASSUME CachedInv, [Next]_vars PROVE CachedInv'
  OBVIOUS
<1>1. CASE StoreWindow
  BY <1>1, StoreWindowStep
<1>2. CASE ApplyRetention
  BY <1>2, ApplyRetentionStep
<1>3. CASE CycleStarts \/ Poll \/ ReadCursor \/ QueueBackfill
  BY <1>3, ScheduleStep
<1>4. CASE Claim \/ CheckEnabled \/ AttemptFails \/ Restart \/ CancelWaiting \/ AskForRange
  BY <1>4, JobStep
<1>5. CASE Disable \/ Enable \/ PatchSettings \/ Tick
  BY <1>5, OutsideStep
<1>6. CASE UNCHANGED vars
  BY <1>6 DEF vars, settings, cache, history, bounds, CachedInv, TypeOK, RangesPast, NotYet,
              EndsPast, WholeSoFar, CompleteMeansWhole, Provided
<1> QED BY <1>1, <1>2, <1>3, <1>4, <1>5, <1>6 DEF Next, Schedule, Work

-----------------------------------------------------------------------------
(* The theorems *)

\* What holds between the cursor, the job and the points (scheduler.ts, market.ts).
THEOREM CachedInvariant == Spec => []CachedInv
<1>1. Init => CachedInv
  BY CachedInit
<1>2. CachedInv /\ [Next]_vars => CachedInv'
  BY CachedStep
<1> QED BY <1>1, <1>2, PTL DEF Spec

\* Every variable keeps its type.
THEOREM HistoryTyped == Spec => []TypeOK
<1>1. CachedInv => TypeOK
  BY DEF CachedInv
<1> QED BY <1>1, CachedInvariant, PTL

\* A complete cursor was earned, and a backfill under way has stored all that lies before
\* the window it is at (market.ts, the market.sync handler).
THEOREM NothingSkipped == Spec => []HistoryWhole
<1>1. CachedInv => HistoryWhole
  BY DEF CachedInv, HistoryWhole
<1> QED BY <1>1, CachedInvariant, PTL

\* A backfill that ends with its last window has stored everything the provider has of
\* its range.
THEOREM FinishedBackfillIsWhole == Spec => FinishedIsWhole
<1>1. ASSUME CachedInv, [Next]_vars,
             job.pc = "fetch" /\ job' = NoJob /\ trouble' = trouble,
             NEW b \in Provided(job.from, job.to)
      PROVE  b \in points' \/ b < cutoff
  <2>1. StoreWindow
    <3>1. trouble \in Int /\ job # NoJob
      BY <1>1, Assumptions DEF CachedInv, TypeOK, NoJob
    <3>2. trouble' = trouble => ~ AttemptFails /\ ~ Restart
      BY <3>1 DEF AttemptFails, Restart, Trouble
    <3>3. job' # job
      BY <1>1, <3>1
    <3>4. ~ CancelWaiting /\ ~ AskForRange /\ ~ QueueBackfill /\ ~ Claim /\ ~ CheckEnabled
      BY <1>1, <3>3 DEF CancelWaiting, AskForRange, QueueBackfill, Queued, Claim, CheckEnabled
    <3>5. ~ (CycleStarts \/ ApplyRetention \/ Poll \/ ReadCursor \/ Disable \/ Enable
             \/ PatchSettings \/ Tick \/ UNCHANGED vars)
      BY <3>3 DEF CycleStarts, ApplyRetention, Poll, ReadCursor, Disable, Enable,
                  PatchSettings, Tick, vars
    <3> QED BY <1>1, <3>2, <3>4, <3>5 DEF Next, Schedule, Work
  <2> DEFINE last == WindowEnd(job.next, job.to)
  <2>2. /\ job.from \in Nat /\ job.to \in Nat /\ job.next \in Nat /\ job.next <= job.to
    BY <1>1, Numbers DEF CachedInv, TypeOK, RangesPast, Bucket
  <2>3. last \in Nat /\ last <= job.to
    BY <2>2, Windows
  <2>4. /\ points' = points \cup Provided(job.next, last)
        /\ job' = IF last >= job.to THEN NoJob
                  ELSE [job EXCEPT !.pc = "check", !.next = NextWindow(last)]
    BY <2>1 DEF StoreWindow
  <2> HIDE DEF last
  <2>5. last = job.to
    <3>1. CASE last >= job.to
      BY <2>2, <2>3, <3>1
    <3>2. CASE ~ (last >= job.to)
      <4>1. job \in [pc : {"none", "queued", "check", "fetch"},
                     from : Bucket, to : Bucket, next : Bucket]
        BY <1>1 DEF CachedInv, TypeOK
      <4>2. job'.pc = "check"
        BY <2>4, <3>2, <4>1
      <4> QED BY <1>1, <4>2 DEF NoJob
    <3> QED BY <3>1, <3>2
  <2>6. b \in job.from .. job.to /\ b >= Boundary /\ b <= now
    BY <1>1 DEF Provided
  <2>7. CASE b < job.next
    <3>1. b \in Provided(job.from, job.next - 1)
      BY <2>2, <2>6, <2>7 DEF Provided
    <3> QED BY <1>1, <2>4, <3>1 DEF CachedInv, WholeSoFar
  <2>8. CASE b >= job.next
    BY <2>2, <2>4, <2>5, <2>6, <2>8 DEF Provided
  <2> QED BY <2>2, <2>6, <2>7, <2>8
<1>2. CachedInv /\ [Next]_vars =>
        [job.pc = "fetch" /\ job' = NoJob /\ trouble' = trouble =>
           \A b \in Provided(job.from, job.to) : b \in points' \/ b < cutoff]_vars
  BY <1>1
<1> QED BY <1>2, CachedInvariant, PTL DEF Spec, FinishedIsWhole

-----------------------------------------------------------------------------
(* Fractions, and what is made of several (Fractions). *)

\* A set of numbers up to d has a greatest one.
LEMMA MaxIs ==
  ASSUME NEW d \in Nat, NEW S \in SUBSET (1 .. d), S # {}
  PROVE  Max(S) \in S /\ \A y \in S : y <= Max(S)
<1> DEFINE N == {n \in Nat : \A T \in SUBSET (1 .. d) :
                   (\E x \in T : x >= d - n) => \E x \in T : \A y \in T : x >= y}
<1>1. 0 \in N
  OBVIOUS
<1>2. ASSUME NEW n \in Nat, n \in N PROVE n + 1 \in N
  <2> SUFFICES ASSUME NEW T \in SUBSET (1 .. d), NEW x \in T, x >= d - (n + 1)
               PROVE  \E z \in T : \A y \in T : z >= y
    OBVIOUS
  <2>1. CASE \E z \in T : z >= d - n
    BY <1>2, <2>1
  <2>2. CASE ~ \E z \in T : z >= d - n
    BY <2>2
  <2> QED
    BY <2>1, <2>2
<1> HIDE DEF N
<1>3. d \in N
  BY <1>1, <1>2, NaturalsReached
<1>4. \E x \in S : x >= d - d
  <2>1. PICK x : x \in S
    OBVIOUS
  <2>2. x \in 1 .. d
    BY <2>1
  <2> QED
    BY <2>1, <2>2
<1>5. \E z \in S : \A y \in S : z >= y
  BY <1>3, <1>4 DEF N
<1> QED
  BY <1>5 DEF Max

\* The fractions.
Fraction == Int \X (Nat \ {0})

LEMMA FractionIs ==
  ASSUME NEW x \in Fraction
  PROVE  x = <<x[1], x[2]>> /\ x[1] \in Int /\ x[2] \in Nat /\ x[2] > 0 /\ x # None
BY DEF Fraction, None

LEMMA PairIs ==
  ASSUME NEW n \in Int, NEW d \in Nat, d > 0
  PROVE  <<n, d>> \in Fraction
BY DEF Fraction

LEMMA Divided ==
  ASSUME NEW n \in Int, NEW k \in Nat, k > 0
  PROVE  /\ n \div k \in Int /\ n % k \in 0 .. (k - 1)
         /\ n = k * (n \div k) + (n % k)
OBVIOUS

LEMMA DivisorIs ==
  ASSUME NEW n \in Int, NEW d \in Nat, d > 0
  PROVE  /\ Divisor(n, d) \in 1 .. d
         /\ n = Divisor(n, d) * (n \div Divisor(n, d))
         /\ d = Divisor(n, d) * (d \div Divisor(n, d))
<1> DEFINE S == {k \in 1 .. d : n % k = 0 /\ d % k = 0}
<1>1. 1 \in S
  OBVIOUS
<1>2. Max(S) \in S
  BY <1>1, MaxIs
<1>3. Divisor(n, d) = Max(S)
  BY DEF Divisor
<1> HIDE DEF S
<1>4. /\ Divisor(n, d) \in 1 .. d
      /\ n % Divisor(n, d) = 0 /\ d % Divisor(n, d) = 0
  BY <1>2, <1>3 DEF S
<1> HIDE DEF Divisor
<1>5. Divisor(n, d) \in Nat /\ Divisor(n, d) > 0
  BY <1>4
<1>6. n = Divisor(n, d) * (n \div Divisor(n, d)) + 0
  BY <1>4, <1>5, Divided
<1>7. d = Divisor(n, d) * (d \div Divisor(n, d)) + 0
  BY <1>4, <1>5, Divided
<1>8. n \div Divisor(n, d) \in Int /\ d \div Divisor(n, d) \in Int
  BY <1>5, Divided
<1> QED
  BY <1>4, <1>5, <1>6, <1>7, <1>8

\* What is reduced stays what it is.
LEMMA ReducedIs ==
  ASSUME NEW n \in Int, NEW d \in Nat, d > 0
  PROVE  /\ Reduced(n, d) \in Fraction
         /\ \E g \in Nat \ {0} : n = g * Reduced(n, d)[1] /\ d = g * Reduced(n, d)[2]
<1> DEFINE g == Divisor(n, d)
           a == n \div g
           b == d \div g
<1>1. g \in 1 .. d /\ n = g * a /\ d = g * b
  BY DivisorIs
<1>2. Reduced(n, d) = <<a, b>>
  BY DEF Reduced
<1>3. g \in Nat \ {0} /\ a \in Int /\ b \in Int
  BY <1>1
<1> HIDE DEF g, a, b
<1>4. b > 0
  <2> SUFFICES ASSUME b <= 0 PROVE FALSE
    BY <1>3
  <2>1. g * b <= 0
    BY <1>3
  <2> QED
    BY <1>1, <2>1
<1>5. Reduced(n, d)[1] = a /\ Reduced(n, d)[2] = b /\ <<a, b>> \in Fraction
  BY <1>2, <1>3, <1>4, PairIs
<1> QED
  BY <1>1, <1>2, <1>3, <1>5

LEMMA TimesAssoc ==
  ASSUME NEW a \in Int, NEW b \in Int, NEW c \in Int
  PROVE  (a * b) * c = a * (b * c) /\ a * b = b * a /\ a * b \in Int
OBVIOUS

LEMMA TimesGrows ==
  ASSUME NEW a \in Int, NEW b \in Int, NEW k \in Nat, k > 0
  PROVE  a < b <=> k * a < k * b
<1>1. a < b => k * a < k * b
  <2> SUFFICES ASSUME a < b PROVE k * a < k * b
    OBVIOUS
  <2>1. k * (b - a) > 0
    OBVIOUS
  <2>2. k * (b - a) = k * b - k * a
    OBVIOUS
  <2> QED
    BY <2>1, <2>2
<1>2. b < a => k * b < k * a
  <2> SUFFICES ASSUME b < a PROVE k * b < k * a
    OBVIOUS
  <2>1. k * (a - b) > 0
    OBVIOUS
  <2>2. k * (a - b) = k * a - k * b
    OBVIOUS
  <2> QED
    BY <2>1, <2>2
<1> QED
  BY <1>1, <1>2

\* The order of fractions.
LEMMA LessStrict ==
  ASSUME NEW x \in Fraction
  PROVE  ~ Less(x, x)
BY FractionIs DEF Less

LEMMA LessTransitive ==
  ASSUME NEW x \in Fraction, NEW y \in Fraction, NEW z \in Fraction, Less(x, y), Less(y, z)
  PROVE  Less(x, z)
<1> DEFINE a == x[1]  b == x[2]  c == y[1]  d == y[2]  e == z[1]  f == z[2]
<1>1. a \in Int /\ c \in Int /\ e \in Int /\ b \in Nat /\ d \in Nat /\ f \in Nat
      /\ b > 0 /\ d > 0 /\ f > 0
  BY FractionIs
<1>2. a * d < c * b /\ c * f < e * d
  BY DEF Less
<1> SUFFICES a * f < e * b
  BY DEF Less
<1> HIDE DEF a, b, c, d, e, f
<1>3. f * (a * d) < f * (c * b)
  BY <1>1, <1>2, TimesGrows, TimesAssoc
<1>4. b * (c * f) < b * (e * d)
  BY <1>1, <1>2, TimesGrows, TimesAssoc
<1>5. f * (a * d) = d * (a * f) /\ f * (c * b) = b * (c * f) /\ b * (e * d) = d * (e * b)
  BY <1>1
<1>6. d * (a * f) < d * (e * b)
  BY <1>1, <1>3, <1>4, <1>5
<1> QED
  BY <1>1, <1>6, TimesGrows, TimesAssoc

LEMMA NotLessTransitive ==
  ASSUME NEW x \in Fraction, NEW y \in Fraction, NEW z \in Fraction, ~ Less(y, x), ~ Less(z, y)
  PROVE  ~ Less(z, x)
<1> DEFINE a == x[1]  b == x[2]  c == y[1]  d == y[2]  e == z[1]  f == z[2]
<1>1. a \in Int /\ c \in Int /\ e \in Int /\ b \in Nat /\ d \in Nat /\ f \in Nat
      /\ b > 0 /\ d > 0 /\ f > 0
  BY FractionIs
<1>2. ~ (c * b < a * d) /\ ~ (e * d < c * f)
  BY DEF Less
<1> SUFFICES ~ (e * b < a * f)
  BY DEF Less
<1> HIDE DEF a, b, c, d, e, f
<1>3. ~ (f * (c * b) < f * (a * d))
  BY <1>1, <1>2, TimesGrows, TimesAssoc
<1>4. ~ (b * (e * d) < b * (c * f))
  BY <1>1, <1>2, TimesGrows, TimesAssoc
<1>5. f * (a * d) = d * (a * f) /\ f * (c * b) = b * (c * f) /\ b * (e * d) = d * (e * b)
  BY <1>1
<1>6. ~ (d * (e * b) < d * (a * f))
  BY <1>1, <1>3, <1>4, <1>5
<1> QED
  BY <1>1, <1>6, TimesGrows, TimesAssoc

LEMMA LessAsymmetric ==
  ASSUME NEW x \in Fraction, NEW y \in Fraction, Less(x, y)
  PROVE  ~ Less(y, x)
BY FractionIs DEF Less

\* Two that are reduced compare as what they were.
LEMMA ReducedLess ==
  ASSUME NEW m \in Int, NEW d \in Nat, d > 0, NEW n \in Int, NEW e \in Nat, e > 0
  PROVE  Less(Reduced(m, d), Reduced(n, e)) <=> m * e < n * d
<1> DEFINE x == Reduced(m, d)
           y == Reduced(n, e)
<1>1. x \in Fraction /\ \E g \in Nat \ {0} : m = g * x[1] /\ d = g * x[2]
  BY ReducedIs
<1>2. y \in Fraction /\ \E g \in Nat \ {0} : n = g * y[1] /\ e = g * y[2]
  BY ReducedIs
<1> HIDE DEF x, y
<1> DEFINE a == x[1]  b == x[2]  c == y[1]  f == y[2]
<1>3. a \in Int /\ c \in Int /\ b \in Nat /\ f \in Nat
  BY <1>1, <1>2, FractionIs
<1>4. Less(x, y) <=> a * f < c * b
  BY DEF Less
<1>5. PICK g \in Nat \ {0} : m = g * a /\ d = g * b
  BY <1>1
<1>6. PICK h \in Nat \ {0} : n = h * c /\ e = h * f
  BY <1>2
<1> HIDE DEF a, b, c, f
<1>7. m * e = (g * h) * (a * f)
  BY <1>3, <1>5, <1>6
<1>8. n * d = (g * h) * (c * b)
  BY <1>3, <1>5, <1>6
<1>9. g * h \in Nat /\ g * h > 0
  OBVIOUS
<1>10. a * f < c * b <=> m * e < n * d
  BY <1>3, <1>7, <1>8, <1>9, TimesGrows, TimesAssoc
<1> QED
  BY <1>4, <1>10 DEF x, y

\* Of finitely many fractions one is lowest and one highest.
LEMMA ExtremesExist ==
  ASSUME NEW S \in SUBSET Fraction, IsFiniteSet(S), S # {}
  PROVE  /\ \E x \in S : \A y \in S : ~ Less(y, x)
         /\ \E x \in S : \A y \in S : ~ Less(x, y)
<1> DEFINE Both(T) == /\ \E x \in T : \A y \in T : ~ Less(y, x)
                      /\ \E x \in T : \A y \in T : ~ Less(x, y)
           N == {n \in Nat : \A T \in SUBSET S : Cardinality(T) = n + 1 => Both(T)}
<1>1. \A T \in SUBSET S : IsFiniteSet(T) /\ Cardinality(T) \in Nat
  BY FS_Subset, FS_CardinalityType
<1>2. 0 \in N
  <2> SUFFICES ASSUME NEW T \in SUBSET S, Cardinality(T) = 1 PROVE Both(T)
    OBVIOUS
  <2>1. PICK x : T = {x}
    BY <1>1, FS_Singleton
  <2>2. x \in Fraction
    BY <2>1
  <2>3. ~ Less(x, x)
    BY <2>2, LessStrict
  <2> QED
    BY <2>1, <2>3
<1>3. ASSUME NEW n \in Nat, n \in N PROVE n + 1 \in N
  <2> SUFFICES ASSUME NEW T \in SUBSET S, Cardinality(T) = (n + 1) + 1 PROVE Both(T)
    OBVIOUS
  <2>1. PICK z : z \in T
    BY FS_EmptySet
  <2> DEFINE R == T \ {z}
  <2>2. Cardinality(R) = n + 1 /\ R \in SUBSET S
    BY <1>1, <2>1, FS_RemoveElement
  <2>3. Both(R)
    BY <1>3, <2>2
  <2>4. \A x, y \in T : x \in Fraction /\ (Less(x, y) => ~ Less(y, x))
    BY LessAsymmetric
  <2>5. \A x, y, w \in T : Less(x, y) /\ Less(y, w) => Less(x, w)
    BY <2>4, LessTransitive
  <2>6. \A x, y, w \in T : ~ Less(y, x) /\ ~ Less(w, y) => ~ Less(w, x)
    BY <2>4, NotLessTransitive
  <2>7. \A x \in T : ~ Less(x, x)
    BY <2>4, LessStrict
  <2>8. PICK x \in R : \A y \in R : ~ Less(y, x)
    BY <2>3
  <2>9. \E u \in T : \A y \in T : ~ Less(y, u)
    <3>1. CASE Less(z, x)
      <4>1. \A y \in T : ~ Less(y, z)
        BY <2>1, <2>4, <2>6, <2>7, <2>8, <3>1
      <4> QED
        BY <2>1, <4>1
    <3>2. CASE ~ Less(z, x)
      BY <2>8, <3>2
    <3> QED
      BY <3>1, <3>2
  <2>10. PICK v \in R : \A y \in R : ~ Less(v, y)
    BY <2>3
  <2>11. \E u \in T : \A y \in T : ~ Less(u, y)
    <3>1. CASE Less(v, z)
      <4>1. \A y \in T : ~ Less(z, y)
        BY <2>1, <2>4, <2>6, <2>7, <2>10, <3>1
      <4> QED
        BY <2>1, <4>1
    <3>2. CASE ~ Less(v, z)
      BY <2>10, <3>2
    <3> QED
      BY <3>1, <3>2
  <2> QED
    BY <2>9, <2>11
<1> HIDE DEF N
<1>4. Nat \subseteq N
  BY <1>2, <1>3, NaturalsReached
<1>5. Cardinality(S) # 0 /\ Cardinality(S) \in Nat
  BY <1>1, FS_EmptySet
<1>6. Cardinality(S) - 1 \in N /\ Cardinality(S) = (Cardinality(S) - 1) + 1
  BY <1>4, <1>5
<1>7. Both(S)
  BY <1>6 DEF N
<1> QED
  BY <1>7

LEMMA ExtremesAre ==
  ASSUME NEW S \in SUBSET Fraction, IsFiniteSet(S), S # {}
  PROVE  /\ Lowest(S) \in S /\ \A y \in S : ~ Less(y, Lowest(S))
         /\ Highest(S) \in S /\ \A y \in S : ~ Less(Highest(S), y)
BY ExtremesExist DEF Lowest, Highest

\* Observations: finitely many, whose values are fractions.
Observations(S) == IsFiniteSet(S) /\ \A o \in S : o.value \in Fraction

LEMMA ValuesFinite ==
  ASSUME NEW S, Observations(S)
  PROVE  IsFiniteSet({o.value : o \in S}) /\ {o.value : o \in S} \in SUBSET Fraction
<1> DEFINE f == [o \in S |-> o.value]
<1>1. {f[o] : o \in S} = {o.value : o \in S} /\ f = [o \in S |-> f[o]]
  OBVIOUS
<1> HIDE DEF f
<1>2. IsFiniteSet({o.value : o \in S})
  BY <1>1, RangeFinite DEF Observations
<1> QED
  BY <1>2 DEF Observations

\* The k-th value from below is a value.
LEMMA NthIs ==
  ASSUME NEW S, Observations(S), NEW k \in 1 .. Cardinality(S)
  PROVE  \E o \in S : Nth(S, k) = o.value
<1> DEFINE V == {o.value : o \in S}
           Above(v) == {o \in S : ~ Less(v, o.value)}
           Below(v) == {o \in S : Less(o.value, v)}
           C == {v \in V : Cardinality(Above(v)) >= k}
<1>1. IsFiniteSet(V) /\ V \in SUBSET Fraction
  BY ValuesFinite
<1>2. IsFiniteSet(S) /\ Cardinality(S) \in Nat /\ \A o \in S : o.value \in V
  BY FS_CardinalityType DEF Observations
<1>3. S # {} /\ V # {}
  BY <1>2, FS_EmptySet
<1>4. \A T \in SUBSET S : IsFiniteSet(T) /\ Cardinality(T) \in Nat
  BY <1>2, FS_Subset, FS_CardinalityType
<1>5. \A v : Above(v) \in SUBSET S /\ Below(v) \in SUBSET S
  OBVIOUS
<1> HIDE DEF V
<1>6. C # {}
  <2>1. PICK v \in V : \A y \in V : ~ Less(v, y)
    BY <1>1, <1>3, ExtremesExist
  <2>2. Above(v) = S
    BY <1>2, <2>1
  <2> QED
    BY <1>2, <2>1, <2>2
<1>7. C \in SUBSET Fraction /\ IsFiniteSet(C)
  BY <1>1, FS_Subset
<1>8. PICK v \in C : \A y \in C : ~ Less(y, v)
  BY <1>6, <1>7, ExtremesExist
<1>9. Cardinality(Below(v)) < k
  <2>1. CASE Below(v) = {}
    BY <2>1, FS_EmptySet
  <2>2. CASE Below(v) # {}
    <3> DEFINE W == {o.value : o \in Below(v)}
    <3>1. W \in SUBSET V /\ W # {} /\ \A o \in Below(v) : o.value \in W
      BY <1>2, <2>2
    <3>2. \A w \in W : Less(w, v)
      OBVIOUS
    <3> HIDE DEF W
    <3>3. W \in SUBSET Fraction /\ IsFiniteSet(W)
      BY <1>1, <3>1, FS_Subset
    <3>4. PICK w \in W : \A y \in W : ~ Less(w, y)
      BY <3>1, <3>3, ExtremesExist
    <3>5. Below(v) \in SUBSET Above(w)
      BY <3>1, <3>4
    <3>6. w \notin C /\ w \in V
      BY <1>8, <3>1, <3>2, <3>4
    <3>7. Cardinality(Above(w)) < k
      BY <1>4, <1>5, <3>6
    <3>8. Cardinality(Below(v)) <= Cardinality(Above(w))
      BY <1>4, <1>5, <3>5, FS_Subset
    <3>9. Cardinality(Below(v)) \in Nat /\ Cardinality(Above(w)) \in Nat
      BY <1>4, <1>5
    <3> QED
      BY <3>7, <3>8, <3>9
  <2> QED
    BY <2>1, <2>2
<1>10. v \in V /\ Cardinality(Above(v)) >= k
  BY <1>8
<1> DEFINE P(u) == Cardinality(Below(u)) < k /\ Cardinality(Above(u)) >= k
<1>11. \E u \in V : P(u)
  BY <1>9, <1>10
<1>12. Nth(S, k) = CHOOSE u \in V : P(u)
  BY DEF Nth, V
<1>13. Nth(S, k) \in V
  BY <1>11, <1>12
<1> QED
  BY <1>13 DEF V

LEMMA LessReduced ==
  ASSUME NEW x \in Fraction, NEW n \in Int, NEW d \in Nat, d > 0
  PROVE  /\ Less(x, Reduced(n, d)) <=> x[1] * d < n * x[2]
         /\ Less(Reduced(n, d), x) <=> n * x[2] < x[1] * d
<1> DEFINE y == Reduced(n, d)
<1>1. y \in Fraction /\ \E g \in Nat \ {0} : n = g * y[1] /\ d = g * y[2]
  BY ReducedIs
<1> HIDE DEF y
<1> DEFINE a == x[1]  b == x[2]  p == y[1]  q == y[2]
<1>2. a \in Int /\ b \in Nat /\ p \in Int /\ q \in Nat
  BY <1>1, FractionIs
<1>3. (Less(x, y) <=> a * q < p * b) /\ (Less(y, x) <=> p * b < a * q)
  BY DEF Less
<1>4. PICK g \in Nat \ {0} : n = g * p /\ d = g * q
  BY <1>1
<1> HIDE DEF a, b, p, q
<1>5. a * d = g * (a * q) /\ n * b = g * (p * b)
  BY <1>2, <1>4
<1>6. a * q \in Int /\ p * b \in Int
  BY <1>2
<1>7. (a * q < p * b <=> a * d < n * b) /\ (p * b < a * q <=> n * b < a * d)
  BY <1>5, <1>6, TimesGrows
<1> QED
  BY <1>3, <1>7 DEF y, a, b

\* The mean of two is between them.
LEMMA MeanIs ==
  ASSUME NEW x \in Fraction, NEW y \in Fraction, ~ Less(y, x)
  PROVE  LET m == Over(Plus(x, y), Whole(2))
         IN m \in Fraction /\ ~ Less(m, x) /\ ~ Less(y, m)
<1> DEFINE a == x[1]  b == x[2]  c == y[1]  d == y[2]
           n == a * d + c * b
           e == b * d
           p == Reduced(n, e)
<1>1. a \in Int /\ c \in Int /\ b \in Nat /\ d \in Nat /\ b > 0 /\ d > 0
  BY FractionIs
<1>2. ~ (c * b < a * d)
  BY DEF Less
<1>3. Plus(x, y) = p
  BY DEF Plus
<1>4. Over(Plus(x, y), Whole(2)) = Reduced(p[1] * 1, p[2] * 2)
  BY <1>3 DEF Over, Whole
<1> HIDE DEF a, b, c, d
<1>5. n \in Int /\ e \in Nat /\ e > 0
  BY <1>1
<1>6. p \in Fraction /\ \E g \in Nat \ {0} : n = g * p[1] /\ e = g * p[2]
  BY <1>5, ReducedIs
<1> HIDE DEF n, e, p
<1> DEFINE r == p[1]  s == p[2]
<1>7. r \in Int /\ s \in Nat /\ s > 0
  BY <1>6, FractionIs
<1>8. PICK g \in Nat \ {0} : n = g * r /\ e = g * s
  BY <1>6
<1> DEFINE m == Reduced(r, s * 2)
<1>9. Over(Plus(x, y), Whole(2)) = m
  BY <1>4, <1>7
<1> HIDE DEF r, s
<1>10. s * 2 \in Nat /\ s * 2 > 0
  BY <1>7
<1>11. m \in Fraction
  BY <1>7, <1>10, ReducedIs
<1>12. (Less(m, x) <=> r * b < a * (s * 2)) /\ (Less(y, m) <=> c * (s * 2) < r * d)
  BY <1>7, <1>10, LessReduced DEF a, b, c, d
<1>13. g * (r * b) = n * b /\ g * (a * (s * 2)) = (a * e) * 2
       /\ g * (c * (s * 2)) = (c * e) * 2 /\ g * (r * d) = n * d
  BY <1>1, <1>5, <1>7, <1>8
<1>14. ~ (n * b < (a * e) * 2) /\ ~ ((c * e) * 2 < n * d)
  <2>1. n * b = b * (a * d) + b * (c * b) /\ (a * e) * 2 = b * (a * d) + b * (a * d)
    BY <1>1 DEF n, e
  <2>2. n * d = d * (a * d) + d * (c * b) /\ (c * e) * 2 = d * (c * b) + d * (c * b)
    BY <1>1 DEF n, e
  <2>3. ~ (b * (c * b) < b * (a * d)) /\ ~ (d * (c * b) < d * (a * d))
    BY <1>1, <1>2, TimesGrows, TimesAssoc
  <2>4. b * (a * d) \in Int /\ b * (c * b) \in Int /\ d * (a * d) \in Int /\ d * (c * b) \in Int
    BY <1>1
  <2> QED
    BY <2>1, <2>2, <2>3, <2>4
<1>15. r * b \in Int /\ a * (s * 2) \in Int /\ c * (s * 2) \in Int /\ r * d \in Int
  BY <1>1, <1>7
<1>16. ~ (r * b < a * (s * 2)) /\ ~ (c * (s * 2) < r * d)
  BY <1>13, <1>14, <1>15, TimesGrows
<1> QED
  BY <1>9, <1>11, <1>12, <1>16

\* The value v is none that the observations of S do not enclose.
Enclosed(v, S) ==
  v \in Fraction /\ \E o, p \in S : ~ Less(v, o.value) /\ ~ Less(p.value, v)

\* The middle one is among them, or between two of them.
LEMMA MedianIs ==
  ASSUME NEW S, Observations(S), S # {}
  PROVE  Enclosed(Median(S), S)
<1> DEFINE n == Cardinality(S)
           h == n \div 2
<1>1. n \in Nat /\ n # 0
  BY FS_CardinalityType, FS_EmptySet DEF Observations
<1>2. \A o \in S : o.value \in Fraction /\ ~ Less(o.value, o.value)
  BY LessStrict DEF Observations
<1>3. CASE n % 2 = 1
  <2>1. h + 1 \in 1 .. n
    BY <1>1, <1>3
  <2>2. Median(S) = Nth(S, h + 1)
    BY <1>3 DEF Median
  <2> QED
    BY <1>2, <2>1, <2>2, NthIs DEF Enclosed
<1>4. CASE n % 2 # 1
  <2>1. h \in 1 .. n /\ h + 1 \in 1 .. n
    BY <1>1, <1>4
  <2>2. PICK o \in S : Nth(S, h) = o.value
    BY <2>1, NthIs
  <2>3. PICK p \in S : Nth(S, h + 1) = p.value
    BY <2>1, NthIs
  <2>4. Median(S) = Over(Plus(o.value, p.value), Whole(2))
    BY <1>4, <2>2, <2>3 DEF Median
  <2>5. CASE ~ Less(p.value, o.value)
    BY <1>2, <2>4, <2>5, MeanIs DEF Enclosed
  <2>6. CASE ~ Less(o.value, p.value)
    <3>1. Plus(o.value, p.value) = Plus(p.value, o.value)
      <4> DEFINE a == o.value[1]  b == o.value[2]  c == p.value[1]  d == p.value[2]
      <4>1. a \in Int /\ b \in Int /\ c \in Int /\ d \in Int
        BY <1>2, FractionIs
      <4> HIDE DEF a, b, c, d
      <4>2. a * d + c * b = c * b + a * d /\ b * d = d * b
        BY <4>1
      <4> QED
        BY <4>2 DEF Plus, a, b, c, d
    <3> QED
      BY <1>2, <2>4, <2>6, <3>1, MeanIs DEF Enclosed
  <2> QED
    BY <1>2, <2>5, <2>6, LessAsymmetric
<1> QED
  BY <1>3, <1>4

LEMMA PreferredIs ==
  ASSUME NEW S, S # {}
  PROVE  Preferred(S) # {} /\ Preferred(S) \in SUBSET S
BY DEF Preferred

LEMMA CombinedIs ==
  ASSUME NEW S, Observations(S), S # {}
  PROVE  Enclosed(Combined(S), Preferred(S)) /\ Enclosed(Combined(S), S)
         /\ Combined(S) \in Fraction
<1>1. Preferred(S) # {} /\ Preferred(S) \in SUBSET S
  BY PreferredIs
<1>2. Observations(Preferred(S))
  BY <1>1, FS_Subset DEF Observations
<1>3. Combined(S) = Median(Preferred(S))
  BY DEF Combined
<1>4. Enclosed(Combined(S), Preferred(S))
  BY <1>1, <1>2, <1>3, MedianIs
<1> QED
  BY <1>1, <1>4 DEF Enclosed

\* What is preferred stays so when it is all there is.
LEMMA PreferredTwice ==
  ASSUME NEW X, NEW f, \A c \in X : f[c].kind = c.kind
  PROVE  Preferred({f[c] : c \in Preferred(X)}) = Preferred({f[c] : c \in X})
<1> DEFINE R == {f[c] : c \in X}
           N == {c \in X : c.kind = "native"}
<1>1. {o \in R : o.kind = "native"} = {f[c] : c \in N}
  OBVIOUS
<1>2. CASE N # {}
  <2>1. Preferred(X) = N
    BY <1>2 DEF Preferred
  <2>2. {f[c] : c \in N} # {}
    BY <1>2
  <2>3. Preferred(R) = {f[c] : c \in N}
    BY <1>1, <2>2 DEF Preferred
  <2>4. {o \in {f[c] : c \in N} : o.kind = "native"} = {f[c] : c \in N}
    OBVIOUS
  <2>5. Preferred({f[c] : c \in N}) = {f[c] : c \in N}
    BY <2>2, <2>4 DEF Preferred
  <2> QED
    BY <2>1, <2>3, <2>5
<1>3. CASE N = {}
  <2>1. Preferred(X) = X
    BY <1>3 DEF Preferred
  <2> QED
    BY <2>1
<1> QED
  BY <1>2, <1>3

\* Of finitely many numbers one is least and one greatest.
LEMMA NumbersExtreme ==
  ASSUME NEW T \in SUBSET Int, IsFiniteSet(T), T # {}
  PROVE  /\ Min(T) \in T /\ \A y \in T : Min(T) <= y
         /\ Max(T) \in T /\ \A y \in T : y <= Max(T)
<1> DEFINE f == [n \in T |-> Whole(n)]
           S == {f[n] : n \in T}
<1>1. f = [n \in T |-> f[n]] /\ \A n \in T : f[n] = <<n, 1>>
  BY DEF Whole
<1>2. \A n \in T : <<n, 1>> \in Fraction
  BY PairIs
<1> HIDE DEF f
<1>3. S \in SUBSET Fraction /\ S # {} /\ \A n \in T : <<n, 1>> \in S
  BY <1>1, <1>2
<1>4. IsFiniteSet(S)
  BY <1>1, RangeFinite
<1>5. \A s \in S : \E n \in T : s = <<n, 1>>
  BY <1>1
<1> HIDE DEF S
<1>6. \A m, n \in T : Less(<<m, 1>>, <<n, 1>>) <=> m < n
  BY DEF Less
<1>7. \E n \in T : \A y \in T : n <= y
  <2>1. PICK s \in S : \A y \in S : ~ Less(y, s)
    BY <1>3, <1>4, ExtremesExist
  <2>2. PICK n \in T : s = <<n, 1>>
    BY <1>5
  <2>3. \A y \in T : ~ (y < n)
    BY <1>3, <1>6, <2>1, <2>2
  <2> QED
    BY <2>3
<1>8. \E n \in T : \A y \in T : n >= y
  <2>1. PICK s \in S : \A y \in S : ~ Less(s, y)
    BY <1>3, <1>4, ExtremesExist
  <2>2. PICK n \in T : s = <<n, 1>>
    BY <1>5
  <2>3. \A y \in T : ~ (n < y)
    BY <1>3, <1>6, <2>1, <2>2
  <2> QED
    BY <2>3
<1>9. Min(T) \in T /\ \A y \in T : Min(T) <= y
  BY <1>7 DEF Min
<1>10. Max(T) \in T /\ \A y \in T : Max(T) >= y
  BY <1>8 DEF Max
<1>11. Max(T) \in Int /\ \A y \in T : y \in Int
  BY <1>10
<1> QED
  BY <1>9, <1>10, <1>11

-----------------------------------------------------------------------------
(* Buckets, and the intervals that are missing. *)

LEMMA BucketIs ==
  ASSUME NEW t \in Nat, NEW n \in Nat \ {0}
  PROVE  /\ BucketOf(t, n) \in Nat /\ BucketOf(t, n) <= t /\ t < BucketOf(t, n) + n
         /\ \E k \in Nat : BucketOf(t, n) = k * n
<1> DEFINE k == t \div n
<1>1. k \in Int /\ t % n \in 0 .. (n - 1) /\ t = n * k + (t % n)
  BY Divided
<1>2. BucketOf(t, n) = k * n
  BY DEF BucketOf
<1> HIDE DEF k
<1>3. k \in Nat
  <2> SUFFICES ASSUME k <= -1 PROVE FALSE
    BY <1>1
  <2>1. n * k <= -n
    BY <1>1
  <2> QED
    BY <1>1, <2>1
<1>4. k * n \in Nat /\ k * n = n * k
  BY <1>3
<1> QED
  BY <1>1, <1>2, <1>3, <1>4

LEMMA BucketsApart ==
  ASSUME NEW k \in Nat, NEW l \in Nat, NEW n \in Nat \ {0}, k * n < l * n
  PROVE  k * n + n <= l * n
<1>1. k < l
  <2> SUFFICES ASSUME l <= k PROVE FALSE
    OBVIOUS
  <2>1. (k - l) * n >= 0
    OBVIOUS
  <2>2. (k - l) * n = k * n - l * n
    OBVIOUS
  <2> QED
    BY <2>1, <2>2
<1>2. (l - (k + 1)) * n >= 0
  BY <1>1
<1>3. (l - (k + 1)) * n = l * n - (k * n + n)
  OBVIOUS
<1>4. k * n \in Nat /\ l * n \in Nat
  OBVIOUS
<1> QED
  BY <1>2, <1>3, <1>4

\* What begins a bucket of n.
Begins(n) == {k * n : k \in Nat}

LEMMA BeginsApart ==
  ASSUME NEW n \in Nat \ {0}
  PROVE  /\ Begins(n) \in SUBSET Nat
         /\ \A b, c \in Begins(n) : b < c => b + n <= c
         /\ \A t \in Nat : BucketOf(t, n) \in Begins(n)
<1>1. \A t \in Nat : BucketOf(t, n) \in Begins(n)
  BY BucketIs DEF Begins
<1>2. Begins(n) \in SUBSET Nat
  BY DEF Begins
<1>3. ASSUME NEW b \in Begins(n), NEW c \in Begins(n), b < c PROVE b + n <= c
  <2>1. PICK k \in Nat : b = k * n
    BY DEF Begins
  <2>2. PICK l \in Nat : c = l * n
    BY DEF Begins
  <2> QED
    BY <1>3, <2>1, <2>2, BucketsApart
<1> QED
  BY <1>1, <1>2, <1>3

\* A later moment is in no earlier bucket.
LEMMA BucketGrows ==
  ASSUME NEW n \in Nat \ {0}, NEW s \in Nat, NEW t \in Nat, s <= t
  PROVE  BucketOf(s, n) <= BucketOf(t, n)
<1> SUFFICES ASSUME ~ (BucketOf(s, n) <= BucketOf(t, n)) PROVE FALSE
  OBVIOUS
<1> DEFINE b == BucketOf(s, n)  c == BucketOf(t, n)
<1>1. b \in Begins(n) /\ c \in Begins(n) /\ b \in Nat /\ c \in Nat /\ b <= s /\ t < c + n
  BY BucketIs, BeginsApart
<1> HIDE DEF b, c
<1>2. c < b
  BY <1>1 DEF b, c
<1>3. c + n <= b
  BY <1>1, <1>2, BeginsApart
<1> QED
  BY <1>1, <1>3

LEMMA ExpectedIs ==
  ASSUME NEW q, q.overview \in Nat, NEW begin \in Nat,
         NEW S \in SUBSET Nat, IsFiniteSet(S)
  PROVE  LET e == Expected(q, begin, S)
         IN /\ e \in Nat /\ begin <= e /\ \A y \in S : y + q.overview <= e
            /\ e = begin \/ \E y \in S : e = y + q.overview
<1> DEFINE f == [b \in S |-> b + q.overview]
           E == {f[b] : b \in S}
           T == {begin} \cup E
<1>1. Expected(q, begin, S) = Max(T)
  <2>1. E = {b + q.overview : b \in S}
    OBVIOUS
  <2> QED
    BY <2>1 DEF Expected
<1>2. f = [b \in S |-> f[b]] /\ \A b \in S : f[b] = b + q.overview
  OBVIOUS
<1> HIDE DEF f
<1>3. IsFiniteSet(E)
  BY <1>2, RangeFinite
<1>4. IsFiniteSet(T)
  BY <1>3, FS_Singleton, FS_Union
<1>5. T \in SUBSET Nat /\ begin \in T /\ \A y \in S : y + q.overview \in T
  BY <1>2
<1>6. \A x \in T : x = begin \/ \E y \in S : x = y + q.overview
  BY <1>2
<1> HIDE DEF T
<1>7. Max(T) \in T /\ \A y \in T : y <= Max(T)
  <2>1. T \in SUBSET Int /\ T # {}
    BY <1>5
  <2> QED
    BY <1>4, <2>1, NumbersExtreme
<1> QED
  BY <1>1, <1>5, <1>6, <1>7

\* What is missing of a range is missing once, and nothing else is.
LEMMA GapsAre ==
  ASSUME NEW q, NEW n, n = q.overview, n \in Nat \ {0},
         RangeStart(q) \in Begins(n), RangeEnd(q) \in Begins(n),
         NEW B \in SUBSET Begins(n), IsFiniteSet(B),
         \A b \in B : RangeStart(q) <= b /\ b <= RangeEnd(q),
         NEW b \in Begins(n), RangeStart(q) <= b, b <= RangeEnd(q)
  PROVE  LET of == {g \in Missing(q, B) : b >= g.from /\ b <= g.to}
         IN IF b \in B THEN of = {}
            ELSE \/ Cardinality(of) = 1
                 \/ of = {} /\ q.from = 0 /\ B # {} /\ b < Min(B)
<1> DEFINE s == RangeStart(q)
           e == RangeEnd(q)
           begin == IF q.from = 0 /\ B # {} THEN Min(B) ELSE s
           Upper(x) == {y \in B : y < x}
           After(x) == Expected(q, begin, Upper(x))
           end == Expected(q, begin, B)
           last == [from |-> end, to |-> e]
           of == {g \in Missing(q, B) : b >= g.from /\ b <= g.to}
<1>1. Missing(q, B) = {Gap(After(x), x, q) : x \in {y \in B : y > After(y)}}
                      \cup IF end <= e THEN {last} ELSE {}
  BY DEF Missing
<1>2. s \in Nat /\ e \in Nat /\ B \in SUBSET Nat /\ b \in Nat
  BY BeginsApart
<1>3. B # {} => Min(B) \in B /\ \A y \in B : Min(B) <= y
  <2> SUFFICES ASSUME B # {} PROVE Min(B) \in B /\ \A y \in B : Min(B) <= y
    OBVIOUS
  <2>1. B \in SUBSET Int
    BY <1>2
  <2> QED
    BY <2>1, NumbersExtreme
<1> HIDE DEF s, e
<1>4. begin \in Nat /\ (\A y \in B : begin <= y)
      /\ (b < begin => q.from = 0 /\ B # {} /\ begin = Min(B))
  <2>1. s <= b /\ \A y \in B : s <= y
    BY DEF s
  <2>2. CASE q.from = 0 /\ B # {}
    <3>1. begin = Min(B)
      BY <2>2
    <3> QED
      BY <1>2, <1>3, <2>2, <3>1
  <2>3. CASE ~ (q.from = 0 /\ B # {})
    <3>1. begin = s
      BY <2>3
    <3> QED
      BY <1>2, <2>1, <3>1
  <2> QED
    BY <2>2, <2>3
<1> HIDE DEF begin
<1>5. \A x : /\ After(x) \in Nat /\ begin <= After(x)
             /\ \A y \in Upper(x) : y + n <= After(x)
             /\ After(x) = begin \/ \E y \in Upper(x) : After(x) = y + n
  <2> SUFFICES ASSUME NEW x
               PROVE  /\ After(x) \in Nat /\ begin <= After(x)
                      /\ \A y \in Upper(x) : y + n <= After(x)
                      /\ After(x) = begin \/ \E y \in Upper(x) : After(x) = y + n
    OBVIOUS
  <2>1. Upper(x) \in SUBSET Nat /\ IsFiniteSet(Upper(x))
    BY <1>2, FS_Subset
  <2> HIDE DEF Upper
  <2> QED
    BY <1>4, <2>1, ExpectedIs
<1>6. /\ end \in Nat /\ begin <= end /\ \A y \in B : y + n <= end
      /\ end = begin \/ \E y \in B : end = y + n
  BY <1>2, <1>4, ExpectedIs
<1>7. \A x \in B : Gap(After(x), x, q) = [from |-> After(x), to |-> x - n]
  BY DEF Gap
<1> HIDE DEF After, end
<1>8. \A g \in Missing(q, B) : b >= g.from /\ b <= g.to =>
        \/ \E x \in B : g = [from |-> After(x), to |-> x - n] /\ After(x) <= b /\ b <= x - n
        \/ g = last /\ end <= b /\ end <= e
  <2> SUFFICES ASSUME NEW g \in Missing(q, B), b >= g.from, b <= g.to
               PROVE  \/ \E x \in B : g = [from |-> After(x), to |-> x - n]
                                      /\ After(x) <= b /\ b <= x - n
                      \/ g = last /\ end <= b /\ end <= e
    OBVIOUS
  <2>1. CASE \E x \in B : g = Gap(After(x), x, q)
    <3>1. PICK x \in B : g = [from |-> After(x), to |-> x - n]
      BY <1>7, <2>1
    <3>2. g.from = After(x) /\ g.to = x - n
      BY <3>1
    <3> QED
      BY <1>2, <1>5, <3>1, <3>2
  <2>2. CASE g = last /\ end <= e
    BY <1>6, <2>2
  <2> QED
    BY <1>1, <2>1, <2>2
<1>9. CASE b \in B
  <2>1. ASSUME NEW x \in B, After(x) <= b, b <= x - n PROVE FALSE
    <3>1. b < x
      BY <1>2, <2>1
    <3>2. b + n <= After(x)
      BY <1>5, <1>9, <3>1
    <3> QED
      BY <1>2, <1>5, <2>1, <3>2
  <2>2. ~ (end <= b)
    BY <1>2, <1>6, <1>9
  <2> QED
    BY <1>8, <1>9, <2>1, <2>2
<1>10. CASE b \notin B /\ b < begin
  <2>1. \A x : ~ (After(x) <= b)
    BY <1>2, <1>4, <1>5, <1>10
  <2>2. ~ (end <= b)
    BY <1>2, <1>4, <1>6, <1>10
  <2>3. of = {}
    BY <1>8, <2>1, <2>2
  <2> QED
    BY <1>4, <1>10, <2>3
<1>11. CASE b \notin B /\ begin <= b /\ \E x \in B : x > b
  <2> DEFINE U == {x \in B : x > b}
             x == Min(U)
             g == [from |-> After(x), to |-> x - n]
  <2>1. x \in U /\ \A y \in U : x <= y
    <3>1. U \in SUBSET B /\ U # {}
      BY <1>11
    <3> HIDE DEF U
    <3>2. IsFiniteSet(U)
      BY <3>1, FS_Subset
    <3>3. U \in SUBSET Int
      BY <1>2, <3>1
    <3>4. Min(U) \in U /\ \A y \in U : Min(U) <= y
      BY <3>1, <3>2, <3>3, NumbersExtreme
    <3> QED
      BY <3>4
  <2> HIDE DEF x
  <2>2. x \in B /\ x > b /\ \A y \in B : y > b => x <= y
    BY <2>1
  <2>3. \A y \in Upper(x) : y < b /\ y + n <= b
    <3> SUFFICES ASSUME NEW y \in Upper(x) PROVE y < b /\ y + n <= b
      OBVIOUS
    <3>1. y \in B /\ y < x /\ y \in Begins(n)
      OBVIOUS
    <3>2. y < b
      BY <1>2, <1>11, <2>2, <3>1
    <3> QED
      BY <3>1, <3>2, BeginsApart
  <2>4. After(x) <= b
    BY <1>5, <1>11, <2>3
  <2>5. b + n <= x
    BY <2>2, BeginsApart
  <2>6. g \in Missing(q, B)
    BY <1>1, <1>2, <1>5, <1>7, <2>2, <2>4
  <2>7. g.from = After(x) /\ g.to = x - n
    OBVIOUS
  <2>8. g \in of
    BY <1>2, <1>5, <2>2, <2>4, <2>5, <2>6, <2>7
  <2>9. ASSUME NEW y \in B, After(y) <= b, b <= y - n PROVE y = x
    <3>1. y > b /\ x <= y
      BY <1>2, <2>2, <2>9
    <3>2. ~ (x < y)
      <4> SUFFICES ASSUME x < y PROVE FALSE
        OBVIOUS
      <4>1. x + n <= After(y)
        BY <1>5, <2>2
      <4> QED
        BY <1>2, <1>5, <2>2, <2>9, <4>1
    <3> QED
      BY <1>2, <2>2, <3>1, <3>2
  <2>10. ~ (end <= b)
    BY <1>2, <1>6, <2>2
  <2>11. of = {g}
    BY <1>8, <2>8, <2>9, <2>10
  <2> HIDE DEF g
  <2>12. Cardinality(of) = 1
    BY <2>11, FS_Singleton
  <2> QED
    BY <1>11, <2>12
<1>12. CASE b \notin B /\ begin <= b /\ ~ \E x \in B : x > b
  <2>1. \A y \in B : y + n <= b
    <3> SUFFICES ASSUME NEW y \in B PROVE y + n <= b
      OBVIOUS
    <3>1. y < b /\ y \in Begins(n)
      BY <1>2, <1>12
    <3> QED
      BY <3>1, BeginsApart
  <2>2. end <= b
    BY <1>6, <1>12, <2>1
  <2>3. end <= e
    BY <1>2, <1>6, <2>2 DEF e
  <2>4. last \in of
    BY <1>1, <2>2, <2>3 DEF e
  <2>5. ASSUME NEW x \in B, b <= x - n PROVE FALSE
    BY <1>2, <1>12, <2>5
  <2>6. of = {last}
    BY <1>8, <2>4, <2>5
  <2>7. Cardinality(of) = 1
    BY <2>6, FS_Singleton
  <2> QED
    BY <1>12, <2>7
<1> QED
  BY <1>2, <1>4, <1>9, <1>10, <1>11, <1>12

-----------------------------------------------------------------------------
(* Candles. *)

Stored(r) ==
  /\ <<r.provider, r.quote>> \in Coverage /\ r.span \in Span
  /\ r.start \in Nat /\ r.first \in r.start .. present /\ r.last \in r.first .. present

SeriesTyped ==
  course \in Course /\ present \in Time /\ IsFiniteSet(rows) /\ \A r \in rows : Stored(r)

Wholes == {Whole(n) : n \in Nat}

LEMMA WholeIs ==
  /\ Wholes \in SUBSET Fraction
  /\ \A m, n \in Nat : (Less(Whole(m), Whole(n)) <=> m < n) /\ (Whole(m) = Whole(n) <=> m = n)
<1>1. \A n \in Nat : Whole(n) \in Fraction
  BY PairIs DEF Whole
<1>2. \A m, n \in Nat : (Less(Whole(m), Whole(n)) <=> m < n) /\ (Whole(m) = Whole(n) <=> m = n)
  BY DEF Whole, Less
<1> QED
  BY <1>1, <1>2 DEF Wholes

LEMMA StoredIs ==
  ASSUME SeriesTyped, NEW r \in rows
  PROVE  /\ r.start \in Nat /\ r.first \in Nat /\ r.last \in Nat /\ r.span \in Nat \ {0}
         /\ r.start <= r.first /\ r.first <= r.last /\ r.last <= present /\ present \in Nat
         /\ r.first \in r.first .. r.last /\ r.last \in r.first .. r.last
<1>1. /\ present \in 0 .. End /\ r.span \in Span /\ r.start \in Nat
      /\ r.first \in r.start .. present /\ r.last \in r.first .. present
  BY DEF SeriesTyped, Stored, Time
<1>2. r.span \in Nat \ {0} /\ End \in Nat
  BY <1>1, SeriesAssumptions
<1> QED
  BY <1>1, <1>2

LEMMA PriceIs ==
  ASSUME SeriesTyped, NEW r \in rows, NEW t \in r.first .. r.last
  PROVE  Price(r, t) \in Wholes
<1>1. <<r.provider, r.quote>> \in Coverage /\ t \in 0 .. End
  BY SeriesAssumptions DEF SeriesTyped, Stored, Time
<1> DEFINE x == <<r.provider, r.quote, t>>
<1>2. x \in Moments
  <2>1. x = <<(<<r.provider, r.quote>>)[1], (<<r.provider, r.quote>>)[2], t>>
    OBVIOUS
  <2> QED
    BY <1>1, <2>1 DEF Moments
<1>3. course \in [Moments -> Nat]
  <2>1. Course \subseteq [Moments -> Nat]
    BY SeriesAssumptions
  <2> QED
    BY <2>1 DEF SeriesTyped
<1>4. course[x] \in Nat
  BY <1>2, <1>3
<1> QED
  BY <1>4 DEF Price, Wholes

LEMMA PricesAre ==
  ASSUME SeriesTyped, NEW S \in SUBSET rows, S # {}
  PROVE  LET all == UNION {Prices(r) : r \in S}
         IN all \in SUBSET Wholes /\ all # {} /\ IsFiniteSet(all)
<1> DEFINE f == [r \in S |-> Prices(r)]
           all == UNION {f[r] : r \in S}
<1>1. all = UNION {Prices(r) : r \in S} /\ \A r \in S : f[r] = Prices(r)
  OBVIOUS
<1>2. f = [r \in S |-> f[r]]
  OBVIOUS
<1> HIDE DEF f
<1>3. IsFiniteSet(S)
  BY FS_Subset DEF SeriesTyped
<1>4. \A r \in S : Prices(r) \in SUBSET Wholes /\ Prices(r) # {} /\ IsFiniteSet(Prices(r))
  <2> SUFFICES ASSUME NEW r \in S
               PROVE  Prices(r) \in SUBSET Wholes /\ Prices(r) # {} /\ IsFiniteSet(Prices(r))
    OBVIOUS
  <2> DEFINE I == r.first .. r.last
             g == [t \in I |-> Price(r, t)]
  <2>1. Prices(r) = {g[t] : t \in I}
    BY DEF Prices
  <2>2. r.first \in Int /\ r.last \in Int /\ r.first \in I
    BY StoredIs
  <2>3. g = [t \in I |-> g[t]] /\ IsFiniteSet(I)
    BY <2>2, FS_Interval
  <2>4. \A t \in I : g[t] \in Wholes
    BY PriceIs
  <2> HIDE DEF g, I
  <2> QED
    BY <2>1, <2>2, <2>3, <2>4, RangeFinite
<1>5. IsFiniteSet({f[r] : r \in S})
  BY <1>2, <1>3, RangeFinite
<1>6. IsFiniteSet(all)
  <2> DEFINE F == {f[r] : r \in S}
  <2>1. \A T \in F : IsFiniteSet(T)
    BY <1>1, <1>4
  <2> HIDE DEF F
  <2>2. IsFiniteSet(UNION F)
    BY <1>5, <2>1, FS_UNION DEF F
  <2> QED
    BY <2>2 DEF F
<1>7. all \in SUBSET Wholes /\ all # {}
  BY <1>1, <1>4
<1> HIDE DEF all
<1> QED
  BY <1>1, <1>6, <1>7

\* A candle made of rows of one provider in one quote.
Plain(c, S) ==
  /\ c.of = S /\ c.open \in Wholes /\ c.close \in Wholes /\ c.low \in Wholes /\ c.high \in Wholes
  /\ \A r \in S : \A t \in r.first .. r.last :
       ~ Less(Price(r, t), c.low) /\ ~ Less(c.high, Price(r, t))
  /\ ~ Less(c.open, c.low) /\ ~ Less(c.close, c.low)

LEMMA AggregatedIs ==
  ASSUME SeriesTyped, NEW q, NEW S \in SUBSET rows, S # {},
         NEW p, NEW u, NEW b,
         \A r \in S : r.provider = p /\ r.quote = u /\ BucketOf(r.start, q.overview) = b
  PROVE  LET c == Aggregated(q, S)
         IN c.provider = p /\ c.quote = u /\ c.bucket = b /\ Plain(c, S)
<1> DEFINE f == [r \in S |-> r.start]
           T == {f[r] : r \in S}
<1>1. T \in SUBSET Int /\ T # {} /\ f = [r \in S |-> f[r]] /\ \A r \in S : r.start \in T
  BY StoredIs
<1>2. IsFiniteSet(S)
  BY FS_Subset DEF SeriesTyped
<1>3. \A x \in T : \E r \in S : r.start = x
  OBVIOUS
<1>4. IsFiniteSet(T)
  BY <1>1, <1>2, RangeFinite
<1> HIDE DEF T
<1>5. /\ Min(T) \in T /\ \A y \in T : Min(T) <= y
      /\ Max(T) \in T /\ \A y \in T : y <= Max(T)
  BY <1>1, <1>4, NumbersExtreme
<1> DEFINE first == CHOOSE r \in S : \A s \in S : r.start <= s.start
           last == CHOOSE r \in S : \A s \in S : s.start <= r.start
           all == UNION {Prices(r) : r \in S}
           c == Aggregated(q, S)
<1>6. first \in S /\ last \in S
  <2>1. \E r \in S : \A s \in S : r.start <= s.start
    BY <1>1, <1>3, <1>5
  <2>2. \E r \in S : \A s \in S : s.start <= r.start
    BY <1>1, <1>3, <1>5
  <2> QED
    BY <2>1, <2>2
<1> HIDE DEF first, last
<1>7. all \in SUBSET Wholes /\ all # {} /\ IsFiniteSet(all)
  BY PricesAre
<1>8. \A r \in S : \A t \in r.first .. r.last : Price(r, t) \in all
  BY DEF Prices
<1>9. first.first \in first.first .. first.last /\ last.last \in last.first .. last.last
  BY <1>6, StoredIs
<1>10. Price(first, first.first) \in all /\ Price(last, last.last) \in all
  BY <1>6, <1>8, <1>9
<1> HIDE DEF all
<1>11. /\ Lowest(all) \in all /\ \A y \in all : ~ Less(y, Lowest(all))
       /\ Highest(all) \in all /\ \A y \in all : ~ Less(Highest(all), y)
  <2>1. all \in SUBSET Fraction
    BY <1>7, WholeIs
  <2> QED
    BY <1>7, <2>1, ExtremesAre
<1>12. /\ c.provider = first.provider /\ c.quote = first.quote
       /\ c.bucket = BucketOf(first.start, q.overview) /\ c.of = S
       /\ c.open = Price(first, first.first) /\ c.close = Price(last, last.last)
       /\ c.high = Highest(all) /\ c.low = Lowest(all)
  BY DEF Aggregated, first, last, all
<1> HIDE DEF c
<1>13. Plain(c, S)
  BY <1>7, <1>8, <1>10, <1>11, <1>12 DEF Plain
<1>14. c.provider = p /\ c.quote = u /\ c.bucket = b
  BY <1>6, <1>12
<1> QED
  BY <1>13, <1>14 DEF c

\* A price by a rate, of whole numbers.
LEMMA RateIs ==
  ASSUME NEW a \in Nat, NEW c \in Nat, NEW e \in Nat \ {0}
  PROVE  Over(Times(Whole(a), Whole(c)), Whole(e)) = Reduced(a * c, e)
<1>1. a * c \in Int
  OBVIOUS
<1> DEFINE n == a * c
<1> HIDE DEF n
<1>2. n \in Int
  BY <1>1 DEF n
<1>3. Divisor(n, 1) = 1
  <2>1. Divisor(n, 1) \in 1 .. 1
    BY <1>2, DivisorIs
  <2> QED
    BY <2>1
<1>4. Reduced(n, 1) = <<n, 1>>
  <2>1. n \div 1 = n /\ 1 \div 1 = 1
    BY <1>2
  <2> QED
    BY <1>3, <2>1 DEF Reduced
<1>5. Times(Whole(a), Whole(c)) = <<n, 1>>
  <2>1. Times(Whole(a), Whole(c)) = Reduced(n, 1)
    BY DEF Times, Whole, n
  <2> QED
    BY <1>4, <2>1
<1>6. n * 1 = n /\ 1 * e = e
  BY <1>2
<1>7. Over(<<n, 1>>, Whole(e)) = Reduced(n, e)
  BY <1>6 DEF Over, Whole
<1> QED
  BY <1>5, <1>7 DEF n

\* It grows with the price and falls with what is divided by.
LEMMA RatesGrow ==
  ASSUME NEW a \in Nat, NEW c \in Nat, NEW e \in Nat \ {0},
         NEW l \in Nat, NEW m \in Nat, NEW n \in Nat \ {0},
         a <= l, c <= m, n <= e
  PROVE  ~ Less(Reduced(l * m, n), Reduced(a * c, e))
<1>1. (l - a) * m >= 0 /\ (l - a) * m = l * m - a * m
  OBVIOUS
<1>2. (m - c) * a >= 0 /\ (m - c) * a = a * m - a * c
  OBVIOUS
<1> DEFINE x == a * c  y == l * m
<1>3. x \in Nat /\ y \in Nat /\ x <= y
  BY <1>1, <1>2
<1> HIDE DEF x, y
<1>4. (y - x) * e >= 0 /\ (y - x) * e = y * e - x * e
  BY <1>3
<1>5. (e - n) * x >= 0 /\ (e - n) * x = x * e - x * n
  BY <1>3
<1>6. x * n \in Int /\ x * e \in Int /\ y * e \in Int
  BY <1>3
<1>7. ~ (y * e < x * n)
  BY <1>4, <1>5, <1>6
<1>8. Less(Reduced(y, n), Reduced(x, e)) <=> y * e < x * n
  BY <1>3, ReducedLess
<1> QED
  BY <1>7, <1>8 DEF x, y

-----------------------------------------------------------------------------
(* What a series shows. *)

Within(b, q) == b \in Begins(q.overview) /\ RangeStart(q) <= b /\ b <= RangeEnd(q)

LEMMA QueryIs ==
  ASSUME SeriesTyped, NEW q \in Queries
  PROVE  /\ q.overview \in Nat \ {0}
         /\ RangeStart(q) \in Begins(q.overview) /\ RangeEnd(q) \in Begins(q.overview)
         /\ RangeStart(q) \in Nat /\ RangeEnd(q) \in Nat
         /\ \A t \in Nat : RangeStart(q) <= t /\ t <= RangeEnd(q)
                             => Within(BucketOf(t, q.overview), q)
<1> DEFINE n == q.overview
<1>1. n \in Nat \ {0} /\ q.from \in Nat /\ q.to \in Nat
  <2>1. n \in Span /\ q.from \in {0, 1} /\ q.to = present
    BY DEF Queries
  <2>2. present \in 0 .. End
    BY DEF SeriesTyped, Time
  <2>3. Span \subseteq Nat \ {0} /\ End \in Nat
    BY SeriesAssumptions
  <2>4. present \in Nat
    BY <2>2, <2>3
  <2>5. n \in Nat \ {0}
    BY <2>1, <2>3
  <2>6. q.from \in Nat
    BY <2>1
  <2> QED
    BY <2>1, <2>4, <2>5, <2>6
<1> HIDE DEF n
<1>2. RangeStart(q) = BucketOf(q.from, n) /\ RangeEnd(q) = BucketOf(q.to, n)
  BY DEF RangeStart, RangeEnd, n
<1> DEFINE s == RangeStart(q)  e == RangeEnd(q)
<1>3. s \in Begins(n) /\ e \in Begins(n) /\ s \in Nat /\ e \in Nat
  BY <1>1, <1>2, BeginsApart
<1> HIDE DEF s, e
<1>4. ASSUME NEW t \in Nat, s <= t, t <= e
      PROVE  BucketOf(t, n) \in Begins(n) /\ s <= BucketOf(t, n) /\ BucketOf(t, n) <= e
  <2> DEFINE b == BucketOf(t, n)
  <2>1. b \in Begins(n) /\ b \in Nat /\ b <= t /\ t < b + n
    BY <1>1, BeginsApart, BucketIs
  <2> HIDE DEF b
  <2>2. ~ (b < s)
    <3> SUFFICES ASSUME b < s PROVE FALSE
      OBVIOUS
    <3>1. b + n <= s
      BY <1>1, <1>3, <2>1, BeginsApart
    <3> QED
      BY <1>1, <1>3, <1>4, <2>1, <3>1
  <2> QED
    BY <1>1, <1>3, <1>4, <2>1, <2>2 DEF b
<1> QED
  BY <1>1, <1>3, <1>4 DEF Within, n, s, e

\* What each candle of the rows stored is.
Candle(c, q) ==
  /\ c.of \in SUBSET rows /\ c.of # {} /\ Plain(c, c.of)
  /\ \A r \in c.of : r.provider = c.provider /\ r.quote = c.quote
  /\ Within(c.bucket, q)
  /\ \E p, u, b, k, o, e, h, l, S :
       c = [provider |-> p, quote |-> u, bucket |-> b, kind |-> k, open |-> o, close |-> e,
            high |-> h, low |-> l, of |-> S]

LEMMA AggregatesAre ==
  ASSUME SeriesTyped, NEW q \in Queries
  PROVE  IsFiniteSet(Aggregates(q)) /\ \A c \in Aggregates(q) : Candle(c, q)
<1> DEFINE usable == {r \in OverviewRows(q) : r.quote \in {q.quote, "USD"}}
           Alike(r) == {s \in usable : /\ s.provider = r.provider /\ s.quote = r.quote
                                       /\ BucketOf(s.start, q.overview)
                                          = BucketOf(r.start, q.overview)}
           f == [r \in usable |-> Aggregated(q, Alike(r))]
<1>1. Aggregates(q) = {f[r] : r \in usable}
  BY DEF Aggregates
<1>2. OverviewRows(q) \in SUBSET Candidates(q) /\ Candidates(q) \in SUBSET rows
  BY DEF OverviewRows, Candidates
<1>3. \A r \in usable : r \in rows /\ Within(BucketOf(r.start, q.overview), q)
  <2> SUFFICES ASSUME NEW r \in usable
               PROVE  r \in rows /\ Within(BucketOf(r.start, q.overview), q)
    OBVIOUS
  <2>1. r \in rows /\ r.start >= RangeStart(q) /\ r.start <= RangeEnd(q)
    BY <1>2 DEF Candidates
  <2>2. r.start \in Nat /\ RangeStart(q) \in Nat
    BY <2>1, StoredIs, QueryIs
  <2> QED
    BY <2>1, <2>2, QueryIs
<1>4. usable \in SUBSET rows
  BY <1>3
<1>5. IsFiniteSet(usable)
  BY <1>4, FS_Subset DEF SeriesTyped
<1>6. f = [r \in usable |-> f[r]] /\ \A r \in usable : f[r] = Aggregated(q, Alike(r))
  OBVIOUS
<1>7. \A r \in usable : r \in Alike(r) /\ Alike(r) \in SUBSET usable
  OBVIOUS
<1>8. \A r \in usable : \A s \in Alike(r) :
        /\ s.provider = r.provider /\ s.quote = r.quote
        /\ BucketOf(s.start, q.overview) = BucketOf(r.start, q.overview)
  OBVIOUS
<1> HIDE DEF f, usable, Alike
<1>9. IsFiniteSet(Aggregates(q))
  BY <1>1, <1>5, <1>6, RangeFinite
<1>10. ASSUME NEW r \in usable PROVE Candle(f[r], q)
  <2> DEFINE S == Alike(r)
             c == Aggregated(q, S)
  <2>1. S \in SUBSET rows /\ S # {} /\ f[r] = c
    BY <1>4, <1>6, <1>7
  <2>2. \A s \in S : /\ s.provider = r.provider /\ s.quote = r.quote
                     /\ BucketOf(s.start, q.overview) = BucketOf(r.start, q.overview)
    BY <1>8
  <2> HIDE DEF S
  <2>3. \E p, u, b, k, o, e, h, l, T :
          c = [provider |-> p, quote |-> u, bucket |-> b, kind |-> k, open |-> o, close |-> e,
               high |-> h, low |-> l, of |-> T]
    BY DEF Aggregated
  <2>4. /\ c.provider = r.provider /\ c.quote = r.quote
        /\ c.bucket = BucketOf(r.start, q.overview) /\ Plain(c, S)
    <3> DEFINE p == r.provider  u == r.quote  b == BucketOf(r.start, q.overview)
    <3>1. \A s \in S : s.provider = p /\ s.quote = u /\ BucketOf(s.start, q.overview) = b
      BY <2>2
    <3> HIDE DEF p, u, b
    <3>2. S \in SUBSET rows /\ S # {}
      BY <2>1
    <3>3. c.provider = p
      BY <3>1, <3>2, AggregatedIs
    <3>4. c.quote = u
      BY <3>1, <3>2, AggregatedIs
    <3>5. c.bucket = b
      BY <3>1, <3>2, AggregatedIs
    <3>6. Plain(c, S)
      BY <3>1, <3>2, AggregatedIs
    <3> HIDE DEF c
    <3> QED
      BY <3>3, <3>4, <3>5, <3>6 DEF p, u, b
  <2> HIDE DEF c
  <2>5. c.of = S
    BY <2>4 DEF Plain
  <2>6. Within(c.bucket, q)
    BY <1>3, <2>4
  <2> QED
    BY <2>1, <2>2, <2>3, <2>4, <2>5, <2>6 DEF Candle
<1> QED
  BY <1>1, <1>9, <1>10

\* A candle that is shown is one of the rows stored, or converted from three of them.
Exchanged(c, q, s, t, b) ==
  /\ c.provider = s.provider /\ c.quote = t.quote /\ c.bucket = s.bucket
  /\ c.of = s.of \cup t.of \cup b.of
  /\ c.open  = Over(Times(s.open, t.open), b.open)
  /\ c.high  = Over(Times(s.high, t.high), b.low)
  /\ c.low   = Over(Times(s.low, t.low), b.high)
  /\ c.close = Over(Times(s.close, t.close), b.close)
  /\ s.provider # "coingecko" /\ t.provider = "coingecko" /\ b.provider = "coingecko"
  /\ s.quote = "USD" /\ b.quote = "USD" /\ t.quote # "USD" /\ b.low # Whole(0)

LEMMA ConvertedIs ==
  ASSUME NEW q, NEW s, Candle(s, q), NEW t, NEW b
  PROVE  LET c == Converted(s, t, b)
         IN /\ c.provider = s.provider /\ c.quote = t.quote /\ c.bucket = s.bucket
            /\ c.of = s.of \cup t.of \cup b.of
            /\ c.open  = Over(Times(s.open, t.open), b.open)
            /\ c.high  = Over(Times(s.high, t.high), b.low)
            /\ c.low   = Over(Times(s.low, t.low), b.high)
            /\ c.close = Over(Times(s.close, t.close), b.close)
<1>1. PICK p, u, x, k, o, e, h, l, S :
        s = [provider |-> p, quote |-> u, bucket |-> x, kind |-> k, open |-> o, close |-> e,
             high |-> h, low |-> l, of |-> S]
  BY DEF Candle
<1> QED
  BY <1>1 DEF Converted

LEMMA ShownAre ==
  ASSUME SeriesTyped, NEW q \in Queries
  PROVE  /\ IsFiniteSet(Shown(q))
         /\ \A c \in Shown(q) :
              \/ c \in Aggregates(q)
              \/ \E s, t, b \in Aggregates(q) : Exchanged(c, q, s, t, b)
<1> DEFINE A == Aggregates(q)
           f == [x \in (A \X A) \X A |-> Converted(x[1][1], x[1][2], x[2])]
           C == {f[x] : x \in (A \X A) \X A}
<1>1. IsFiniteSet(A) /\ \A c \in A : Candle(c, q)
  BY AggregatesAre
<1> HIDE DEF A
<1>2. IsFiniteSet((A \X A) \X A)
  BY <1>1, FS_Product
<1>3. f = [x \in (A \X A) \X A |-> f[x]]
  OBVIOUS
<1>4. \A s, t, b \in A : Converted(s, t, b) \in C
  <2> SUFFICES ASSUME NEW s \in A, NEW t \in A, NEW b \in A PROVE Converted(s, t, b) \in C
    OBVIOUS
  <2>1. <<(<<s, t>>), b>> \in (A \X A) \X A
    OBVIOUS
  <2>2. f[<<(<<s, t>>), b>>] = Converted(s, t, b)
    BY <2>1
  <2> HIDE DEF f
  <2> QED
    BY <2>1, <2>2
<1>5. IsFiniteSet(C)
  <2> HIDE DEF f
  <2> QED
    BY <1>2, <1>3, RangeFinite
<1>6. ASSUME NEW c \in Shown(q)
      PROVE  \/ c \in A
             \/ \E s, t, b \in A : c = Converted(s, t, b) /\ Exchanged(c, q, s, t, b)
  <2>1. c \in WithFallbacks(q, A)
    BY DEF Shown, A
  <2> DEFINE Rates(x, quote) == {y \in A : /\ y.provider = "coingecko" /\ y.quote = quote
                                           /\ y.bucket = x.bucket}
             direct == {x \in A : x.quote = q.quote}
             missing == {x \in A : /\ x.provider # "coingecko" /\ x.quote = "USD"
                                   /\ \A d \in direct : <<d.provider, d.bucket>>
                                                          # <<x.provider, x.bucket>>}
  <2>2. SUFFICES ASSUME c \notin A
        PROVE \E s, t, b \in A : c = Converted(s, t, b) /\ Exchanged(c, q, s, t, b)
    OBVIOUS
  <2>3. q.quote # "USD"
    BY <2>1, <2>2 DEF WithFallbacks
  <2>4. c \in UNION {{Converted(x, t, b) : t \in Rates(x, q.quote),
                                 b \in {y \in Rates(x, "USD") : y.low # Whole(0)}} :
                       x \in missing}
    BY <2>1, <2>2, <2>3 DEF WithFallbacks
  <2>5. PICK s \in missing : \E t \in Rates(s, q.quote) :
               \E b \in {y \in Rates(s, "USD") : y.low # Whole(0)} : c = Converted(s, t, b)
    BY <2>4
  <2>6. PICK t \in Rates(s, q.quote), b \in {y \in Rates(s, "USD") : y.low # Whole(0)} :
               c = Converted(s, t, b)
    BY <2>5
  <2>7. s \in A /\ t \in A /\ b \in A /\ Candle(s, q)
    BY <1>1
  <2>8. Exchanged(c, q, s, t, b)
    BY <2>3, <2>6, <2>7, ConvertedIs DEF Exchanged
  <2> QED
    BY <2>6, <2>7, <2>8
<1>7. Shown(q) \in SUBSET (A \cup C)
  BY <1>4, <1>6
<1> HIDE DEF C
<1>8. IsFiniteSet(A \cup C)
  BY <1>1, <1>5, FS_Union
<1>9. IsFiniteSet(Shown(q))
  BY <1>7, <1>8, FS_Subset
<1> QED
  BY <1>6, <1>9 DEF A

\* The prices of a rate that are divided by are above zero.
LEMMA BridgeIs ==
  ASSUME SeriesTyped, NEW q, NEW b, Candle(b, q), b.low # Whole(0)
  PROVE  \E l, h, o, e \in Nat \ {0} :
           /\ b.low = Whole(l) /\ b.high = Whole(h) /\ b.open = Whole(o) /\ b.close = Whole(e)
<1>1. PICK l \in Nat, h \in Nat, o \in Nat, e \in Nat :
        b.low = Whole(l) /\ b.high = Whole(h) /\ b.open = Whole(o) /\ b.close = Whole(e)
  BY DEF Candle, Plain, Wholes
<1>2. l # 0
  BY <1>1
<1>3. PICK r \in b.of : r \in rows
  BY DEF Candle
<1>4. r.first \in r.first .. r.last
  BY <1>3, StoredIs
<1>5. PICK n \in Nat : Price(r, r.first) = Whole(n)
  BY <1>3, <1>4, PriceIs DEF Wholes
<1>6. ~ Less(Whole(n), Whole(l)) /\ ~ Less(Whole(h), Whole(n))
      /\ ~ Less(Whole(o), Whole(l)) /\ ~ Less(Whole(e), Whole(l))
  BY <1>1, <1>3, <1>4, <1>5 DEF Candle, Plain
<1>7. ~ (n < l) /\ ~ (h < n) /\ ~ (o < l) /\ ~ (e < l)
  BY <1>1, <1>5, <1>6, WholeIs
<1>8. h # 0 /\ o # 0 /\ e # 0
  BY <1>2, <1>7
<1> QED
  BY <1>1, <1>2, <1>8

LEMMA PartsAre ==
  ASSUME SeriesTyped, NEW q \in Queries, NEW c \in Shown(q)
  PROVE  /\ Within(c.bucket, q)
         /\ c.open \in Fraction /\ c.high \in Fraction /\ c.low \in Fraction
         /\ c.close \in Fraction
<1>1. CASE c \in Aggregates(q)
  <2>1. Candle(c, q)
    BY <1>1, AggregatesAre
  <2> QED
    BY <2>1, WholeIs DEF Candle, Plain
<1>2. CASE \E s, t, b \in Aggregates(q) : Exchanged(c, q, s, t, b)
  <2>1. PICK s \in Aggregates(q), t \in Aggregates(q), b \in Aggregates(q) :
               Exchanged(c, q, s, t, b)
    BY <1>2
  <2>2. Candle(s, q) /\ Candle(t, q) /\ Candle(b, q)
    BY AggregatesAre
  <2>3. PICK l \in Nat \ {0}, h \in Nat \ {0}, o \in Nat \ {0}, e \in Nat \ {0} :
               b.low = Whole(l) /\ b.high = Whole(h) /\ b.open = Whole(o) /\ b.close = Whole(e)
    BY <2>1, <2>2, BridgeIs DEF Exchanged
  <2>4. \A x, y \in Wholes : \A n \in Nat \ {0} : Over(Times(x, y), Whole(n)) \in Fraction
    <3> SUFFICES ASSUME NEW x \in Wholes, NEW y \in Wholes, NEW n \in Nat \ {0}
                 PROVE  Over(Times(x, y), Whole(n)) \in Fraction
      OBVIOUS
    <3>1. PICK k \in Nat : x = Whole(k)
      BY DEF Wholes
    <3>2. PICK m \in Nat : y = Whole(m)
      BY DEF Wholes
    <3>3. Over(Times(x, y), Whole(n)) = Reduced(k * m, n)
      BY <3>1, <3>2, RateIs
    <3>4. k * m \in Int /\ n \in Nat /\ n > 0
      OBVIOUS
    <3> QED
      BY <3>3, <3>4, ReducedIs
  <2>5. /\ c.open \in Fraction /\ c.high \in Fraction /\ c.low \in Fraction
        /\ c.close \in Fraction
    BY <2>1, <2>2, <2>3, <2>4 DEF Exchanged, Candle, Plain
  <2>6. Within(c.bucket, q)
    BY <2>1, <2>2 DEF Exchanged, Candle
  <2> QED
    BY <2>5, <2>6
<1> QED
  BY <1>1, <1>2, ShownAre

\* What a whole candle has of a moment.
LEMMA Had ==
  ASSUME SeriesTyped, NEW q \in Queries, NEW c, NEW x, Candle(x, q), x.of \in SUBSET c.of,
         \A r \in c.of : r.provider = x.provider /\ r.quote = x.quote => r \in x.of,
         WholeCandle(c, q), NEW t \in c.bucket .. c.bucket + q.overview - 1
  PROVE  LET p == Whole(course[<<x.provider, x.quote, t>>])
         IN p \in Wholes /\ ~ Less(p, x.low) /\ ~ Less(x.high, p)
<1> DEFINE mine == {r \in c.of : r.provider = x.provider /\ r.quote = x.quote}
           p == Whole(course[<<x.provider, x.quote, t>>])
<1>1. x.provider \in Source /\ x.quote \in Quote
  <2>1. PICK r \in x.of : r \in rows
    BY DEF Candle
  <2>2. <<r.provider, r.quote>> \in Coverage /\ r.provider = x.provider /\ r.quote = x.quote
    BY <2>1 DEF SeriesTyped, Stored, Candle
  <2>3. Coverage \subseteq Source \X Quote
    BY SeriesAssumptions
  <2> QED
    BY <2>2, <2>3
<1>2. mine = x.of /\ mine # {}
  BY DEF Candle
<1>3. \E r \in mine : t \in r.first .. r.last
  BY <1>1, <1>2 DEF WholeCandle
<1>4. PICK r \in x.of : t \in r.first .. r.last
  BY <1>2, <1>3
<1>5. Price(r, t) = p /\ r \in rows
  BY DEF Price, Candle
<1>6. p \in Wholes
  BY <1>4, <1>5, PriceIs
<1>7. ~ Less(p, x.low) /\ ~ Less(x.high, p)
  BY <1>4, <1>5 DEF Candle, Plain
<1> QED
  BY <1>6, <1>7

\* A whole candle encloses its prices, a converted one included.
LEMMA CandleEncloses ==
  ASSUME SeriesTyped, NEW q \in Queries, NEW c \in Shown(q), WholeCandle(c, q),
         NEW t \in c.bucket .. c.bucket + q.overview - 1
  PROVE  ~ Less(TruePrice(c, t), c.low) /\ ~ Less(c.high, TruePrice(c, t))
<1>1. CASE c \in Aggregates(q)
  <2>1. Candle(c, q)
    BY <1>1, AggregatesAre
  <2>2. \A r \in c.of : r.quote = c.quote
    BY <2>1 DEF Candle
  <2>3. TruePrice(c, t) = Whole(course[<<c.provider, c.quote, t>>])
    BY <2>2 DEF TruePrice
  <2>4. ~ Less(TruePrice(c, t), c.low)
    BY <2>1, <2>3, Had
  <2>5. ~ Less(c.high, TruePrice(c, t))
    BY <2>1, <2>3, Had
  <2> QED
    BY <2>4, <2>5
<1>2. CASE \E s, u, b \in Aggregates(q) : Exchanged(c, q, s, u, b)
  <2>1. PICK s \in Aggregates(q), u \in Aggregates(q), b \in Aggregates(q) :
               Exchanged(c, q, s, u, b)
    BY <1>2
  <2>2. Candle(s, q) /\ Candle(u, q) /\ Candle(b, q)
    BY AggregatesAre
  <2>3. /\ \A r \in s.of : r.provider # "coingecko" /\ r.quote = "USD"
        /\ \A r \in u.of : r.provider = "coingecko" /\ r.quote = c.quote
        /\ \A r \in b.of : r.provider = "coingecko" /\ r.quote = "USD"
        /\ c.quote # "USD" /\ c.of = s.of \cup u.of \cup b.of
    BY <2>1, <2>2 DEF Exchanged, Candle
  <2> DEFINE PriceAt(p, quote) == Whole(course[<<p, quote, t>>])
             x == PriceAt(s.provider, s.quote)
             y == PriceAt(u.provider, u.quote)
             z == PriceAt(b.provider, b.quote)
  <2>4. TruePrice(c, t) = Over(Times(x, y), z)
    <3>1. \E r \in c.of : r.quote # c.quote
      BY <2>2, <2>3 DEF Candle
    <3>2. /\ c.provider = s.provider /\ s.quote = "USD" /\ b.quote = "USD"
          /\ u.provider = "coingecko" /\ b.provider = "coingecko" /\ u.quote = c.quote
      BY <2>1 DEF Exchanged
    <3> QED
      BY <3>1, <3>2 DEF TruePrice
  <2>5. x \in Wholes /\ ~ Less(x, s.low) /\ ~ Less(s.high, x)
    <3>1. \A r \in c.of : r.provider = s.provider /\ r.quote = s.quote => r \in s.of
      BY <2>1, <2>3 DEF Exchanged
    <3>2. s.of \in SUBSET c.of
      BY <2>3
    <3> QED
      BY <2>2, <3>1, <3>2, Had
  <2>6. y \in Wholes /\ ~ Less(y, u.low) /\ ~ Less(u.high, y)
    <3>1. \A r \in c.of : r.provider = u.provider /\ r.quote = u.quote => r \in u.of
      BY <2>1, <2>3 DEF Exchanged
    <3>2. u.of \in SUBSET c.of
      BY <2>3
    <3> QED
      BY <2>2, <3>1, <3>2, Had
  <2>7. z \in Wholes /\ ~ Less(z, b.low) /\ ~ Less(b.high, z)
    <3>1. \A r \in c.of : r.provider = b.provider /\ r.quote = b.quote => r \in b.of
      BY <2>1, <2>3 DEF Exchanged
    <3>2. b.of \in SUBSET c.of
      BY <2>3
    <3> QED
      BY <2>2, <3>1, <3>2, Had
  <2> HIDE DEF x, y, z
  <2>8. PICK k \in Nat, m \in Nat, n \in Nat : x = Whole(k) /\ y = Whole(m) /\ z = Whole(n)
    BY <2>5, <2>6, <2>7 DEF Wholes
  <2>9. PICK l \in Nat \ {0}, h \in Nat \ {0} : b.low = Whole(l) /\ b.high = Whole(h)
    BY <2>1, <2>2, BridgeIs DEF Exchanged
  <2>10. PICK sl \in Nat, sh \in Nat, ul \in Nat, uh \in Nat :
           /\ s.low = Whole(sl) /\ s.high = Whole(sh)
           /\ u.low = Whole(ul) /\ u.high = Whole(uh)
    BY <2>2 DEF Candle, Plain, Wholes
  <2>11. sl <= k /\ k <= sh /\ ul <= m /\ m <= uh /\ l <= n /\ n <= h /\ n # 0
    <3>1. ~ (k < sl) /\ ~ (sh < k)
      BY <2>5, <2>8, <2>10, WholeIs
    <3>2. ~ (m < ul) /\ ~ (uh < m)
      BY <2>6, <2>8, <2>10, WholeIs
    <3>3. ~ (n < l) /\ ~ (h < n)
      BY <2>7, <2>8, <2>9, WholeIs
    <3> QED
      BY <3>1, <3>2, <3>3
  <2>12. n \in Nat \ {0}
    BY <2>11
  <2>13. TruePrice(c, t) = Reduced(k * m, n)
    BY <2>4, <2>8, <2>12, RateIs
  <2>14. c.low = Reduced(sl * ul, h)
    BY <2>1, <2>9, <2>10, RateIs DEF Exchanged
  <2>15. c.high = Reduced(sh * uh, l)
    BY <2>1, <2>9, <2>10, RateIs DEF Exchanged
  <2>16. ~ Less(Reduced(k * m, n), Reduced(sl * ul, h))
    BY <2>11, <2>12, RatesGrow
  <2>17. ~ Less(Reduced(sh * uh, l), Reduced(k * m, n))
    BY <2>11, <2>12, RatesGrow
  <2> QED
    BY <2>13, <2>14, <2>15, <2>16, <2>17
<1> QED
  BY <1>1, <1>2, ShownAre

\* The candle of several providers.
LEMMA CombinedCandle ==
  ASSUME SeriesTyped, NEW q \in Queries, NEW b \in BucketsOf(Shown(q))
  PROVE  LET candle == CandleAt(Shown(q), b)
         IN /\ candle.close = LineAt(Shown(q), b)
            /\ \A part \in {candle.open, candle.close} :
                 ~ Less(part, candle.low) /\ ~ Less(candle.high, part)
<1> DEFINE here == {c \in Shown(q) : c.bucket = b}
           usable == Preferred(here)
           o == [c \in usable |->
                  [provider |-> c.provider, value |-> c.open, kind |-> c.kind]]
           h == [c \in usable |->
                  [provider |-> c.provider, value |-> c.high, kind |-> c.kind]]
           l == [c \in usable |->
                  [provider |-> c.provider, value |-> c.low, kind |-> c.kind]]
           f == [c \in here |->
                  [provider |-> c.provider, value |-> c.close, kind |-> c.kind]]
           O == {o[c] : c \in usable}
           H == {h[c] : c \in usable}
           L == {l[c] : c \in usable}
           E == {f[c] : c \in usable}
           candle == Corrected(Combined(O), Combined(H), Combined(L), Combined(E))
<1>1. here # {} /\ IsFiniteSet(here) /\ here \in SUBSET Shown(q)
  <2>1. here # {}
    BY DEF BucketsOf
  <2> QED
    BY <2>1, ShownAre, FS_Subset
<1>2. usable # {} /\ usable \in SUBSET here /\ IsFiniteSet(usable)
  <2> HIDE DEF here
  <2>1. usable # {} /\ usable \in SUBSET here
    BY <1>1, PreferredIs
  <2> QED
    BY <1>1, <2>1, FS_Subset
<1>3. \A c \in usable : /\ c.open \in Fraction /\ c.high \in Fraction
                        /\ c.low \in Fraction /\ c.close \in Fraction
  BY <1>1, <1>2, PartsAre
<1>4. CandleAt(Shown(q), b) = candle
  <2>1. /\ O = {[provider |-> c.provider, value |-> c.open, kind |-> c.kind] : c \in usable}
        /\ H = {[provider |-> c.provider, value |-> c.high, kind |-> c.kind] : c \in usable}
        /\ L = {[provider |-> c.provider, value |-> c.low, kind |-> c.kind] : c \in usable}
        /\ E = {[provider |-> c.provider, value |-> c.close, kind |-> c.kind] : c \in usable}
    BY <1>2
  <2> HIDE DEF O, H, L, E
  <2> QED
    BY <2>1 DEF CandleAt
<1>5. LineAt(Shown(q), b) = Combined({f[c] : c \in here})
  <2>1. {f[c] : c \in here}
        = {[provider |-> c.provider, value |-> c.close, kind |-> c.kind] : c \in here}
    OBVIOUS
  <2> QED
    BY <2>1 DEF LineAt
<1> HIDE DEF here
<1>6. \A c \in here : f[c].kind = c.kind
  OBVIOUS
<1>7. \A c \in usable : /\ o[c].value = c.open /\ h[c].value = c.high
                        /\ l[c].value = c.low /\ f[c].value = c.close
  BY <1>2
<1>8. /\ o = [c \in usable |-> o[c]] /\ h = [c \in usable |-> h[c]]
      /\ l = [c \in usable |-> l[c]] /\ f = [c \in here |-> f[c]]
  OBVIOUS
<1> HIDE DEF f, o, h, l
<1>9. Preferred(E) = Preferred({f[c] : c \in here}) /\ {f[c] : c \in here} # {} /\ E # {}
  BY <1>1, <1>2, <1>6, PreferredTwice
<1>10. Combined(E) = Combined({f[c] : c \in here})
  BY <1>9 DEF Combined
<1> HIDE DEF usable
<1>11. IsFiniteSet(E)
  <2>1. IsFiniteSet({f[c] : c \in here})
    BY <1>1, <1>8, RangeFinite
  <2>2. E \in SUBSET {f[c] : c \in here}
    BY <1>2
  <2> QED
    BY <2>1, <2>2, FS_Subset
<1>12. IsFiniteSet(O) /\ IsFiniteSet(H) /\ IsFiniteSet(L)
  BY <1>2, <1>8, RangeFinite
<1>13. Observations(O) /\ Observations(H) /\ Observations(L) /\ Observations(E)
  BY <1>3, <1>7, <1>11, <1>12 DEF Observations
<1>14. O # {} /\ H # {} /\ L # {} /\ E # {}
  BY <1>2
<1> HIDE DEF O, H, L, E
<1> DEFINE open == Combined(O)  high == Combined(H)  low == Combined(L)  close == Combined(E)
<1>15. open \in Fraction /\ high \in Fraction /\ low \in Fraction /\ close \in Fraction
  BY <1>13, <1>14, CombinedIs
<1> HIDE DEF open, high, low, close
<1>16. \A x \in {open, close} : /\ ~ Less(x, Lowest({low, open, close}))
                                /\ ~ Less(Highest({high, open, close}), x)
  <2>1. IsFiniteSet({open, close} \cup {low}) /\ IsFiniteSet({open, close} \cup {high})
    <3>1. IsFiniteSet({open} \cup {close})
      BY FS_Singleton, FS_AddElement
    <3>2. {open} \cup {close} = {open, close}
      OBVIOUS
    <3> QED
      BY <3>1, <3>2, FS_AddElement
  <2>2. {open, close} \cup {low} = {low, open, close}
        /\ {open, close} \cup {high} = {high, open, close}
    OBVIOUS
  <2>3. {low, open, close} \in SUBSET Fraction /\ {high, open, close} \in SUBSET Fraction
    BY <1>15
  <2>4. \A x \in {low, open, close} : ~ Less(x, Lowest({low, open, close}))
    BY <2>1, <2>2, <2>3, ExtremesAre
  <2>5. \A x \in {high, open, close} : ~ Less(Highest({high, open, close}), x)
    BY <2>1, <2>2, <2>3, ExtremesAre
  <2> QED
    BY <2>4, <2>5
<1>17. /\ candle.open = open /\ candle.close = close
       /\ candle.high = Highest({high, open, close})
       /\ candle.low = Lowest({low, open, close})
  BY DEF Corrected, open, high, low, close
<1>18. candle.close = LineAt(Shown(q), b)
  BY <1>5, <1>10, <1>17 DEF close
<1> HIDE DEF candle
<1> QED
  BY <1>4, <1>16, <1>17, <1>18

\* What the series are, from what is stored.
LEMMA SeriesMeans == SeriesTyped => SeriesTrue
<1> SUFFICES ASSUME SeriesTyped, NEW q \in Queries
             PROVE  LET shown == Shown(q)
                        buckets == BucketsOf(shown)
                        gaps == Missing(q, buckets)
                    IN /\ \A b \in {BucketOf(t, q.overview) :
                                     t \in RangeStart(q) .. RangeEnd(q)} :
                            LET of == {g \in gaps : b >= g.from /\ b <= g.to}
                            IN IF b \in buckets THEN of = {}
                               ELSE \/ Cardinality(of) = 1
                                    \/ of = {} /\ q.from = 0 /\ buckets # {} /\ b < Min(buckets)
                       /\ \A c \in shown : WholeCandle(c, q) =>
                            \A t \in c.bucket .. c.bucket + q.overview - 1 :
                              ~ Less(TruePrice(c, t), c.low) /\ ~ Less(c.high, TruePrice(c, t))
                       /\ \A b \in buckets :
                            LET candle == CandleAt(shown, b)
                            IN /\ candle.close = LineAt(shown, b)
                               /\ \A part \in {candle.open, candle.close} :
                                    ~ Less(part, candle.low) /\ ~ Less(candle.high, part)
  BY DEF SeriesTrue
<1> DEFINE n == q.overview
           f == [c \in Shown(q) |-> c.bucket]
           B == BucketsOf(Shown(q))
<1>1. n \in Nat \ {0} /\ n = q.overview /\ RangeStart(q) \in Begins(n)
        /\ RangeEnd(q) \in Begins(n)
  BY QueryIs
<1>2. IsFiniteSet(B)
  <2>1. B = {f[c] : c \in Shown(q)} /\ f = [c \in Shown(q) |-> f[c]]
    BY DEF BucketsOf
  <2> HIDE DEF f
  <2> QED
    BY <2>1, ShownAre, RangeFinite
<1>3. \A b \in B : Within(b, q)
  BY PartsAre DEF BucketsOf
<1> HIDE DEF n, B
<1>4. B \in SUBSET Begins(n) /\ \A b \in B : RangeStart(q) <= b /\ b <= RangeEnd(q)
  BY <1>3 DEF Within, n
<1>5. ASSUME NEW t \in RangeStart(q) .. RangeEnd(q), NEW b, b = BucketOf(t, q.overview)
      PROVE  LET of == {g \in Missing(q, B) : b >= g.from /\ b <= g.to}
             IN IF b \in B THEN of = {}
                ELSE \/ Cardinality(of) = 1
                     \/ of = {} /\ q.from = 0 /\ B # {} /\ b < Min(B)
  <2>1. t \in Nat /\ RangeStart(q) <= t /\ t <= RangeEnd(q)
    BY QueryIs
  <2>2. Within(b, q)
    BY <1>5, <2>1, QueryIs
  <2>3. b \in Begins(n) /\ RangeStart(q) <= b /\ b <= RangeEnd(q)
    BY <2>2 DEF Within, n
  <2> QED
    BY <1>1, <1>2, <1>4, <2>3, GapsAre
<1>6. \A c \in Shown(q) : WholeCandle(c, q) =>
        \A t \in c.bucket .. c.bucket + q.overview - 1 :
          ~ Less(TruePrice(c, t), c.low) /\ ~ Less(c.high, TruePrice(c, t))
  BY CandleEncloses
<1>7. \A b \in B : LET candle == CandleAt(Shown(q), b)
                   IN /\ candle.close = LineAt(Shown(q), b)
                      /\ \A part \in {candle.open, candle.close} :
                           ~ Less(part, candle.low) /\ ~ Less(candle.high, part)
  BY CombinedCandle DEF B
<1> QED
  BY <1>5, <1>6, <1>7 DEF B

-----------------------------------------------------------------------------
(* Totals. *)

Adding(f, S, F) ==
  F = [s \in SUBSET S |->
        IF s = {} THEN Whole(0)
        ELSE Plus(F[s \ {CHOOSE x \in s : TRUE}], f[CHOOSE x \in s : TRUE])]

LEMMA AddingExists ==
  ASSUME NEW f, NEW S, IsFiniteSet(S)
  PROVE  \E F : Adding(f, S, F)
<1> DEFINE D == SUBSET S
           One(s) == CHOOSE x \in s : TRUE
           Sum(F, s) == IF s = {} THEN Whole(0) ELSE Plus(F[s \ {One(s)}], f[One(s)])
           Good(n, F) == /\ F = [s \in D |-> F[s]]
                         /\ \A s \in D : Cardinality(s) <= n => F[s] = Sum(F, s)
           N == {n \in Nat : \E F : Good(n, F)}
<1>1. \A s \in D : /\ IsFiniteSet(s) /\ Cardinality(s) \in Nat
                   /\ (Cardinality(s) = 0 <=> s = {})
                   /\ Cardinality(s) <= Cardinality(S)
  BY FS_Subset, FS_CardinalityType, FS_EmptySet
<1>2. \A s \in D : s # {} => /\ One(s) \in s /\ s \ {One(s)} \in D
                             /\ Cardinality(s \ {One(s)}) = Cardinality(s) - 1
  <2> SUFFICES ASSUME NEW s \in D, s # {}
               PROVE  /\ One(s) \in s /\ s \ {One(s)} \in D
                      /\ Cardinality(s \ {One(s)}) = Cardinality(s) - 1
    OBVIOUS
  <2>1. One(s) \in s
    OBVIOUS
  <2> HIDE DEF One
  <2> QED
    BY <1>1, <2>1, FS_RemoveElement
<1> HIDE DEF One
<1>3. 0 \in N
  <2> DEFINE F == [s \in D |-> Whole(0)]
  <2>1. F = [s \in D |-> F[s]] /\ \A s \in D : F[s] = Whole(0)
    OBVIOUS
  <2> HIDE DEF F
  <2>2. \A s \in D : Cardinality(s) <= 0 => s = {}
    BY <1>1
  <2>3. Good(0, F)
    BY <2>1, <2>2
  <2> QED
    BY <2>3
<1>4. ASSUME NEW n \in Nat, n \in N PROVE n + 1 \in N
  <2>1. PICK F : Good(n, F)
    BY <1>4
  <2> DEFINE G == [s \in D |-> IF Cardinality(s) = n + 1 THEN Sum(F, s) ELSE F[s]]
  <2>2. /\ G = [s \in D |-> G[s]]
        /\ \A s \in D : G[s] = IF Cardinality(s) = n + 1 THEN Sum(F, s) ELSE F[s]
    OBVIOUS
  <2> HIDE DEF G
  <2>3. ASSUME NEW s \in D, Cardinality(s) <= n + 1 PROVE G[s] = Sum(G, s)
    <3>1. Cardinality(s) \in Nat
      BY <1>1
    <3>2. G[s] = Sum(F, s)
      <4>1. CASE Cardinality(s) = n + 1
        BY <2>2, <4>1
      <4>2. CASE Cardinality(s) # n + 1
        <5>1. Cardinality(s) <= n
          BY <2>3, <3>1, <4>2
        <5> QED
          BY <2>1, <2>2, <4>2, <5>1
      <4> QED
        BY <4>1, <4>2
    <3>3. s # {} => G[s \ {One(s)}] = F[s \ {One(s)}]
      <4> SUFFICES ASSUME s # {} PROVE G[s \ {One(s)}] = F[s \ {One(s)}]
        OBVIOUS
      <4>1. s \ {One(s)} \in D /\ Cardinality(s \ {One(s)}) # n + 1
        BY <1>2, <2>3, <3>1
      <4> QED
        BY <2>2, <4>1
    <3> QED
      BY <3>2, <3>3
  <2>4. Good(n + 1, G)
    BY <2>2, <2>3
  <2>5. \E H : Good(n + 1, H)
    BY <2>4
  <2> HIDE DEF Good
  <2> QED
    BY <2>5
<1> HIDE DEF N
<1>5. Nat \subseteq N
  BY <1>3, <1>4, NaturalsReached
<1>6. Cardinality(S) \in N
  BY <1>5, FS_CardinalityType
<1>7. PICK F : Good(Cardinality(S), F)
  BY <1>6 DEF N
<1>8. \A s \in D : F[s] = Sum(F, s)
  BY <1>1, <1>7
<1>9. F = [s \in D |-> Sum(F, s)]
  BY <1>7, <1>8
<1> QED
  BY <1>9 DEF Adding, One

LEMMA TotalIs ==
  ASSUME NEW f, NEW S, IsFiniteSet(S)
  PROVE  \E F : Adding(f, S, F) /\ Total(f, S) = F[S]
<1> DEFINE F == CHOOSE F : Adding(f, S, F)
<1>1. Adding(f, S, F)
  BY AddingExists
<1>2. Total(f, S) = F[S]
  BY DEF Total, FoldSet, MapThenFoldSet, Adding
<1> QED
  BY <1>1, <1>2

\* A sum is an amount, and that of one is the one.
LEMMA SumsAre ==
  ASSUME NEW f, NEW S, IsFiniteSet(S), S # {}
  PROVE  Total(f, S) # None /\ \A x : S = {x} => Total(f, S) = Plus(Whole(0), f[x])
<1>1. PICK F : Adding(f, S, F) /\ Total(f, S) = F[S]
  BY TotalIs
<1> DEFINE x == CHOOSE x \in S : TRUE
<1>2. F[S] = Plus(F[S \ {x}], f[x])
  BY <1>1 DEF Adding
<1>3. F[{}] = Whole(0)
  BY <1>1 DEF Adding
<1>4. \A u, v : Plus(u, v) # None
  BY DEF Plus, Reduced, None
<1>5. \A y : S = {y} => x = y /\ S \ {x} = {}
  OBVIOUS
<1> HIDE DEF x
<1>6. \A y : S = {y} => F[S] = Plus(Whole(0), f[y])
  BY <1>2, <1>3, <1>5
<1> QED
  BY <1>1, <1>2, <1>4, <1>6

-----------------------------------------------------------------------------
(* The steps. *)

\* A snapshot that counts all that is held: the asset with a price, and nothing else.
Counted(s) ==
  /\ IsFiniteSet(s.balances) /\ \A b \in s.balances : b.asset = "other" => b.value = None
  /\ s.whole => /\ \E b \in s.balances : b.asset = "btc" /\ b.value # None
                /\ {b.asset : b \in {x \in s.balances : x.quantity # 0}} = {"btc"}

SeriesInv == SeriesTyped /\ \A s \in snapshot : Counted(s)

LEMMA SeriesInitInv == SeriesInit => SeriesInv
<1> SUFFICES ASSUME SeriesInit PROVE SeriesInv
  OBVIOUS
<1>1. present \in 0 .. End
  <2>1. End \in Nat
    BY SeriesAssumptions
  <2> QED
    BY <2>1 DEF SeriesInit
<1>2. course \in Course /\ rows = {} /\ snapshot = {} /\ IsFiniteSet(rows)
  BY FS_EmptySet DEF SeriesInit
<1> QED
  BY <1>1, <1>2 DEF SeriesInv, SeriesTyped, Time

\* What a provider is stored with.
Fits(r, c, span) ==
  /\ r.provider = c[1] /\ r.quote = c[2] /\ r.span = span
  /\ r.start \in Nat /\ r.first \in r.start .. present /\ r.last \in r.first .. present

LEMMA RowIs ==
  ASSUME NEW p, NEW u, NEW b \in Nat, NEW span, present \in Nat,
         NEW first \in b .. present, NEW last \in first .. present
  PROVE  Fits(Row(p, u, b, span, first, last), <<p, u>>, span)
BY DEF Fits, Row

LEMMA NativeCandlesAre ==
  ASSUME present \in Nat, NEW p, NEW u, NEW span \in Nat \ {0},
         NEW B \in SUBSET (0 .. present), IsFiniteSet(B)
  PROVE  /\ IsFiniteSet(NativeCandles(p, u, B, span))
         /\ \A r \in NativeCandles(p, u, B, span) : Fits(r, <<p, u>>, span)
<1> DEFINE last(b) == IF present < b + span - 1 THEN present ELSE b + span - 1
           f == [b \in B |-> Row(p, u, b, span, b, last(b))]
<1>1. NativeCandles(p, u, B, span) = {f[b] : b \in B} /\ f = [b \in B |-> f[b]]
  BY DEF NativeCandles
<1>2. \A b \in B : Fits(f[b], <<p, u>>, span)
  <2> SUFFICES ASSUME NEW b \in B PROVE Fits(f[b], <<p, u>>, span)
    OBVIOUS
  <2>1. b \in Nat /\ b \in b .. present /\ last(b) \in b .. present
    OBVIOUS
  <2>2. f[b] = Row(p, u, b, span, b, last(b))
    OBVIOUS
  <2> HIDE DEF f, last
  <2> QED
    BY <2>1, <2>2, RowIs
<1> HIDE DEF f
<1>3. IsFiniteSet({f[b] : b \in B})
  BY <1>1, RangeFinite
<1> QED
  BY <1>1, <1>2, <1>3

\* The buckets that a range reaches into.
LEMMA BucketsAre ==
  ASSUME present \in Nat, NEW span \in Nat \ {0}, NEW from \in 0 .. present
  PROVE  LET B == {BucketOf(t, span) : t \in from .. present}
         IN B \in SUBSET (0 .. present) /\ IsFiniteSet(B)
<1> DEFINE I == from .. present
           f == [t \in I |-> BucketOf(t, span)]
<1>1. f = [t \in I |-> f[t]] /\ {f[t] : t \in I} = {BucketOf(t, span) : t \in I}
  OBVIOUS
<1>2. IsFiniteSet(I)
  BY FS_Interval
<1> HIDE DEF f
<1>3. IsFiniteSet({f[t] : t \in I})
  BY <1>1, <1>2, RangeFinite
<1>4. \A t \in I : BucketOf(t, span) \in 0 .. present
  <2> SUFFICES ASSUME NEW t \in I PROVE BucketOf(t, span) \in 0 .. present
    OBVIOUS
  <2>1. t \in Nat /\ t <= present
    OBVIOUS
  <2>2. BucketOf(t, span) \in Nat /\ BucketOf(t, span) <= t
    BY <2>1, BucketIs
  <2> QED
    BY <2>1, <2>2
<1> QED
  BY <1>1, <1>3, <1>4

LEMMA CandlesAre ==
  ASSUME present \in Nat, NEW c \in Coverage, NEW span \in Span, NEW from \in 0 .. present
  PROVE  /\ IsFiniteSet(Candles(c[1], c[2], from, present, span))
         /\ \A r \in Candles(c[1], c[2], from, present, span) : Fits(r, c, span)
<1> DEFINE B == {BucketOf(t, span) : t \in from .. present}
           K == {b \in from .. present : b = BucketOf(b, span)}
           C == Candles(c[1], c[2], from, present, span)
<1>1. span \in Nat \ {0} /\ from \in Nat
  <2>1. Span \subseteq Nat \ {0}
    BY SeriesAssumptions
  <2> QED
    BY <2>1
<1>2. c[1] \in {"coingecko", "coinbase", "kraken"} /\ c = <<c[1], c[2]>>
  <2>1. Coverage \subseteq Source \X Quote /\ Source \subseteq {"coingecko", "coinbase", "kraken"}
    BY SeriesAssumptions
  <2>2. c \in Source \X Quote
    BY <2>1
  <2>3. c = <<c[1], c[2]>> /\ c[1] \in Source
    BY <2>2
  <2> QED
    BY <2>1, <2>3
<1>3. B \in SUBSET (0 .. present) /\ IsFiniteSet(B)
  BY <1>1, BucketsAre
<1>4. CASE c[1] = "coingecko"
  <2> DEFINE first(b) == IF from > b THEN from ELSE b
             last(b) == IF present < b + span - 1 THEN present ELSE b + span - 1
             f == [b \in B |-> Row("coingecko", c[2], b, span, first(b), last(b))]
  <2>1. C = {f[b] : b \in B} /\ f = [b \in B |-> f[b]]
    BY <1>4 DEF Candles, CoingeckoCandles
  <2>2. \A b \in B : Fits(f[b], c, span)
    <3> SUFFICES ASSUME NEW t \in from .. present, NEW b, b = BucketOf(t, span), b \in B
                 PROVE  Fits(f[b], c, span)
      OBVIOUS
    <3>1. t \in Nat /\ from <= t /\ t <= present
      BY <1>1
    <3>2. b \in Nat /\ b <= t /\ t < b + span
      BY <1>1, <3>1, BucketIs
    <3>3. first(b) \in b .. present /\ last(b) \in first(b) .. present
      BY <1>1, <3>1, <3>2
    <3>4. f[b] = Row("coingecko", c[2], b, span, first(b), last(b))
      OBVIOUS
    <3> HIDE DEF f, first, last, B
    <3> QED
      BY <1>2, <1>4, <3>2, <3>3, <3>4, RowIs
  <2> HIDE DEF f, B
  <2>3. IsFiniteSet({f[b] : b \in B})
    BY <1>3, <2>1, RangeFinite
  <2> QED
    BY <2>1, <2>2, <2>3
<1>5. CASE c[1] = "coinbase"
  <2>1. C = NativeCandles("coinbase", c[2], B, span)
    BY <1>5 DEF Candles, CoinbaseCandles
  <2> HIDE DEF B
  <2> QED
    BY <1>1, <1>2, <1>3, <1>5, <2>1, NativeCandlesAre
<1>6. CASE c[1] = "kraken"
  <2>1. C = NativeCandles("kraken", c[2], K, span)
    BY <1>6 DEF Candles, KrakenCandles
  <2>2. K \in SUBSET (0 .. present)
    BY <1>1
  <2> HIDE DEF K
  <2>3. IsFiniteSet(0 .. present)
    BY FS_Interval
  <2>4. IsFiniteSet(K)
    BY <2>2, <2>3, FS_Subset
  <2> QED
    BY <1>1, <1>2, <1>6, <2>1, <2>2, <2>4, NativeCandlesAre
<1> QED
  BY <1>2, <1>4, <1>5, <1>6

LEMMA SynchronizeStep == SeriesInv /\ Synchronize => SeriesInv'
<1> SUFFICES ASSUME SeriesInv, Synchronize PROVE SeriesInv'
  OBVIOUS
<1>1. UNCHANGED <<course, present, snapshot>>
  BY DEF Synchronize
<1>2. present \in Nat
  <2>1. End \in Nat
    BY SeriesAssumptions
  <2> QED
    BY <2>1 DEF SeriesInv, SeriesTyped, Time
<1>3. PICK c \in Coverage, span \in Span, from \in 0 .. present :
        LET new == Candles(c[1], c[2], from, present, span)
        IN rows' = {r \in rows : \A n \in new : Key(n) # Key(r)} \cup new
  BY DEF Synchronize
<1> DEFINE new == Candles(c[1], c[2], from, present, span)
           old == {r \in rows : \A n \in new : Key(n) # Key(r)}
<1>4. IsFiniteSet(new) /\ \A r \in new : Fits(r, c, span)
  BY <1>2, CandlesAre
<1>5. rows' = old \cup new /\ old \in SUBSET rows
  BY <1>3
<1>6. IsFiniteSet(rows) /\ \A r \in rows : Stored(r)
  BY DEF SeriesInv, SeriesTyped
<1> HIDE DEF new, old
<1>7. IsFiniteSet(rows')
  BY <1>4, <1>5, <1>6, FS_Subset, FS_Union
<1>8. \A r \in new : Stored(r)
  <2>1. Coverage \subseteq Source \X Quote
    BY SeriesAssumptions
  <2>2. c = <<c[1], c[2]>>
    BY <2>1
  <2> QED
    BY <1>4, <2>2 DEF Fits, Stored
<1>9. \A r : Stored(r) <=> Stored(r)'
  BY <1>1 DEF Stored
<1>10. \A r \in rows' : Stored(r)'
  BY <1>5, <1>6, <1>8, <1>9
<1>11. SeriesTyped'
  BY <1>1, <1>7, <1>10 DEF SeriesInv, SeriesTyped
<1>12. \A s \in snapshot' : Counted(s)
  BY <1>1 DEF SeriesInv
<1> QED
  BY <1>11, <1>12 DEF SeriesInv

LEMMA WriteSnapshotStep == SeriesInv /\ WriteSnapshot => SeriesInv'
<1> SUFFICES ASSUME SeriesInv, WriteSnapshot PROVE SeriesInv'
  OBVIOUS
<1>1. UNCHANGED <<course, present, rows>>
  BY DEF WriteSnapshot
<1>2. SeriesTyped'
  BY <1>1 DEF SeriesInv, SeriesTyped, Stored
<1> DEFINE price == LatestPrice(primary)
           names == [i \in 1 .. 3 |-> IF i = 3 THEN "other" ELSE "btc"]
<1>3. PICK held \in {<<1, 0, 0>>, <<1, 2, 0>>, <<1, 0, 1>>} :
        LET balances == {[raw |-> i, asset |-> names[i], quantity |-> held[i],
                          value |-> ValueOf(names[i], held[i], price)] : i \in 1 .. 3}
            counted == {b \in balances : b.quantity # 0}
            priced == {b \in counted : b.value # None}
        IN snapshot' = {[at |-> present, quote |-> primary,
                         total |-> Total([b \in balances |-> b.value], priced),
                         whole |-> priced = counted, balances |-> balances]}
  BY DEF WriteSnapshot
<1> DEFINE g == [i \in 1 .. 3 |-> [raw |-> i, asset |-> names[i], quantity |-> held[i],
                                   value |-> ValueOf(names[i], held[i], price)]]
           balances == {g[i] : i \in 1 .. 3}
           counted == {b \in balances : b.quantity # 0}
           priced == {b \in counted : b.value # None}
           s == [at |-> present, quote |-> primary,
                 total |-> Total([b \in balances |-> b.value], priced),
                 whole |-> priced = counted, balances |-> balances]
<1>4. snapshot' = {s}
  <2>1. balances = {[raw |-> i, asset |-> names[i], quantity |-> held[i],
                     value |-> ValueOf(names[i], held[i], price)] : i \in 1 .. 3}
    OBVIOUS
  <2> HIDE DEF balances
  <2> QED
    BY <1>3, <2>1
<1>5. s.balances = balances /\ (s.whole <=> priced = counted)
  OBVIOUS
<1>6. 1 \in 1 .. 3 /\ 2 \in 1 .. 3 /\ 3 \in 1 .. 3 /\ \A i \in 1 .. 3 : i = 1 \/ i = 2 \/ i = 3
  OBVIOUS
<1>7. /\ g[1].asset = "btc" /\ g[2].asset = "btc" /\ g[3].asset = "other"
      /\ g[1].quantity = 1 /\ g[3].value = None
  BY <1>6 DEF ValueOf
<1>8. g = [i \in 1 .. 3 |-> g[i]]
  OBVIOUS
<1> HIDE DEF g
<1>9. IsFiniteSet(balances)
  <2>1. IsFiniteSet(1 .. 3)
    <3>1. 1 \in Int /\ 3 \in Int
      OBVIOUS
    <3> QED
      BY <3>1, FS_Interval, Zenon
  <2> QED
    BY <1>8, <2>1, RangeFinite
<1>10. \A b \in balances : b = g[1] \/ b = g[2] \/ b = g[3]
  BY <1>6
<1>11. g[1] \in balances /\ g[2] \in balances /\ g[3] \in balances
  BY <1>6
<1>12. \A b \in balances : b.asset = "other" => b.value = None
  BY <1>7, <1>10
<1>13. ASSUME s.whole
       PROVE  /\ \E b \in balances : b.asset = "btc" /\ b.value # None
              /\ {b.asset : b \in {x \in balances : x.quantity # 0}} = {"btc"}
  <2>1. priced = counted
    BY <1>5, <1>13
  <2>2. g[1] \in counted /\ g[1] \in priced
    BY <1>7, <1>11, <2>1
  <2>3. g[3] \notin counted
    BY <1>7, <2>1
  <2>4. \A b \in counted : b.asset = "btc"
    BY <1>7, <1>10, <2>3
  <2>5. {b.asset : b \in counted} = {"btc"}
    BY <1>7, <2>2, <2>4
  <2> QED
    BY <1>7, <1>11, <2>2, <2>5
<1> HIDE DEF s, balances
<1>14. Counted(s)
  BY <1>5, <1>9, <1>12, <1>13 DEF Counted
<1> QED
  BY <1>2, <1>4, <1>14 DEF SeriesInv

LEMMA SeriesStep == SeriesInv /\ [SeriesNext]_seriesVars => SeriesInv'
<1> SUFFICES ASSUME SeriesInv, [SeriesNext]_seriesVars PROVE SeriesInv'
  OBVIOUS
<1>1. End \in Nat /\ present \in 0 .. End
  <2>1. End \in Nat
    BY SeriesAssumptions
  <2> QED
    BY <2>1 DEF SeriesInv, SeriesTyped, Time
<1>2. CASE Synchronize
  BY <1>2, SynchronizeStep
<1>3. CASE Forget
  <2>1. rows' \in SUBSET rows /\ UNCHANGED <<course, present, snapshot>>
    BY <1>3 DEF Forget
  <2>2. IsFiniteSet(rows')
    BY <2>1, FS_Subset DEF SeriesInv, SeriesTyped
  <2>3. \A r \in rows' : Stored(r)'
    BY <2>1 DEF SeriesInv, SeriesTyped, Stored
  <2> QED
    BY <2>1, <2>2, <2>3 DEF SeriesInv, SeriesTyped
<1>4. CASE Clock
  <2>1. UNCHANGED <<course, rows, snapshot>> /\ present' = present + 1 /\ present < End
    BY <1>4 DEF Clock
  <2>2. present' \in 0 .. End
    BY <1>1, <2>1
  <2>3. ASSUME NEW r \in rows PROVE Stored(r)'
    <3>1. /\ <<r.provider, r.quote>> \in Coverage /\ r.span \in Span
          /\ r.start \in Nat /\ r.first \in r.start .. present /\ r.last \in r.first .. present
      BY DEF SeriesInv, SeriesTyped, Stored
    <3>2. r.first \in r.start .. present + 1 /\ r.last \in r.first .. present + 1
      BY <1>1, <3>1
    <3> QED
      BY <2>1, <3>1, <3>2 DEF Stored
  <2> QED
    BY <2>1, <2>2, <2>3 DEF SeriesInv, SeriesTyped, Time
<1>5. CASE WriteSnapshot
  BY <1>5, WriteSnapshotStep
<1>6. CASE ChooseQuote \/ UNCHANGED seriesVars
  <2>1. UNCHANGED <<course, present, rows, snapshot>>
    BY <1>6 DEF ChooseQuote, seriesVars
  <2> QED
    BY <2>1 DEF SeriesInv, SeriesTyped, Stored
<1> QED
  BY <1>2, <1>3, <1>4, <1>5, <1>6 DEF SeriesNext

-----------------------------------------------------------------------------
(* The price of a moment. *)

LEMMA ObservedAre ==
  ASSUME SeriesTyped, NEW S \in SUBSET rows
  PROVE  /\ Observations(Observed(S))
         /\ \A o \in Observed(S) : \E r \in S : o.value = Close(r)
         /\ S # {} => Observed(S) # {}
         /\ S = {} => Observed(S) = {}
<1> DEFINE f == [r \in S |-> [provider |-> r.provider, value |-> Close(r), kind |-> r.kind]]
<1>1. Observed(S) = {f[r] : r \in S} /\ f = [r \in S |-> f[r]]
  BY DEF Observed
<1>2. \A r \in S : f[r].value = Close(r)
  OBVIOUS
<1> HIDE DEF f
<1>3. IsFiniteSet(S)
  BY FS_Subset DEF SeriesTyped
<1>4. IsFiniteSet(Observed(S))
  BY <1>1, <1>3, RangeFinite
<1>5. \A r \in S : Close(r) \in Fraction
  <2> SUFFICES ASSUME NEW r \in S PROVE Close(r) \in Fraction
    OBVIOUS
  <2>1. r.last \in r.first .. r.last
    BY StoredIs
  <2>2. Close(r) \in Wholes
    BY <2>1, PriceIs DEF Close
  <2> QED
    BY <2>2, WholeIs
<1> QED
  BY <1>1, <1>2, <1>4, <1>5 DEF Observations

\* What is combined of some rows is between the prices of two of them.
LEMMA PriceOf ==
  ASSUME SeriesTyped, NEW S \in SUBSET rows
  PROVE  /\ Combined(Observed(S)) = None <=> S = {}
         /\ S # {} => \E r, x \in S : /\ ~ Less(Combined(Observed(S)), Close(r))
                                      /\ ~ Less(Close(x), Combined(Observed(S)))
<1>1. CASE S = {}
  <2>1. Observed(S) = {}
    BY <1>1, ObservedAre
  <2> QED
    BY <1>1, <2>1 DEF Combined
<1>2. CASE S # {}
  <2> DEFINE O == Observed(S)
  <2>1. /\ Observations(O) /\ O # {}
        /\ \A o \in O : \E r \in S : o.value = Close(r)
    BY <1>2, ObservedAre
  <2> HIDE DEF O
  <2>2. Enclosed(Combined(O), O) /\ Combined(O) \in Fraction
    BY <2>1, CombinedIs
  <2>3. PICK o \in O, p \in O : ~ Less(Combined(O), o.value) /\ ~ Less(p.value, Combined(O))
    BY <2>2 DEF Enclosed
  <2>4. Combined(O) # None
    BY <2>2, FractionIs
  <2>5. \E r, x \in S : ~ Less(Combined(O), Close(r)) /\ ~ Less(Close(x), Combined(O))
    BY <2>1, <2>3
  <2> QED
    BY <1>2, <2>4, <2>5 DEF O
<1> QED
  BY <1>1, <1>2

LEMMA NewestAre ==
  ASSUME SeriesTyped, NEW S \in SUBSET rows, S # {}
  PROVE  /\ Newest(S) # {} /\ Newest(S) \in SUBSET S
         /\ \A r, x \in Newest(S) : r.start = x.start
         /\ \A r \in Newest(S) : \A x \in S : x.start <= r.start
<1> DEFINE f == [r \in S |-> r.start]
           T == {f[r] : r \in S}
<1>1. T \in SUBSET Int /\ T # {} /\ f = [r \in S |-> f[r]] /\ \A r \in S : r.start \in T
  BY StoredIs
<1>2. IsFiniteSet(S)
  BY FS_Subset DEF SeriesTyped
<1>3. \A x \in T : \E r \in S : r.start = x
  OBVIOUS
<1>4. IsFiniteSet(T)
  BY <1>1, <1>2, RangeFinite
<1> HIDE DEF T
<1>5. Max(T) \in T /\ \A y \in T : y <= Max(T)
  BY <1>1, <1>4, NumbersExtreme
<1>6. Newest(S) # {}
  <2>1. PICK r \in S : r.start = Max(T)
    BY <1>3, <1>5
  <2>2. \A x \in S : x.start <= r.start
    BY <1>1, <1>5, <2>1
  <2> QED
    BY <2>2 DEF Newest
<1>7. Newest(S) \in SUBSET S /\ \A r \in Newest(S) : \A x \in S : x.start <= r.start
  BY DEF Newest
<1>8. \A r \in S : r.start \in Int
  BY <1>1
<1>9. \A r, x \in Newest(S) : r.start = x.start
  BY <1>7, <1>8
<1> QED
  BY <1>6, <1>7, <1>9

Finest(S) == {r \in S : \A x \in S : r.span <= x.span}

LEMMA FinestAre ==
  ASSUME SeriesTyped, NEW S \in SUBSET rows, S # {}
  PROVE  Finest(S) # {}
<1> DEFINE f == [r \in S |-> r.span]
           T == {f[r] : r \in S}
<1>1. T \in SUBSET Int /\ T # {} /\ f = [r \in S |-> f[r]] /\ \A r \in S : r.span \in T
  BY StoredIs
<1>2. IsFiniteSet(S)
  BY FS_Subset DEF SeriesTyped
<1>3. \A x \in T : \E r \in S : r.span = x
  OBVIOUS
<1>4. IsFiniteSet(T)
  BY <1>1, <1>2, RangeFinite
<1> HIDE DEF T
<1>5. Min(T) \in T /\ \A y \in T : Min(T) <= y
  BY <1>1, <1>4, NumbersExtreme
<1>6. PICK r \in S : r.span = Min(T)
  BY <1>3, <1>5
<1>7. \A x \in S : r.span <= x.span
  BY <1>1, <1>5, <1>6
<1> QED
  BY <1>7 DEF Finest

\* A row that is not of the moment's own bucket is there to be looked up, or one that is
\* newer.
LEMMA KeptIs ==
  ASSUME SeriesTyped, NEW quote, NEW span \in Span, NEW from \in Nat, NEW t \in from .. present,
         NEW x \in rows, x.quote = quote, x.start <= t, x.start >= t - Near,
         x.start < BucketOf(t, span) \/ span = 1
  PROVE  \E y \in Kept(quote, from, present, span) : x.start <= y.start /\ y.start <= t
<1> DEFINE In(z) == /\ z.provider = x.provider /\ z.quote = quote
                    /\ z.start >= from - Near /\ z.start <= present
                    /\ BucketOf(z.start, span) = BucketOf(x.start, span)
           G == {z \in rows : In(z)}
           H == Newest(G)
<1>1. /\ span \in Nat \ {0} /\ Near \in Nat /\ t \in Nat /\ present \in Nat /\ t <= present
      /\ from <= t /\ x.start \in Nat
  <2>1. Span \subseteq Nat \ {0} /\ Near \in Nat
    BY SeriesAssumptions
  <2>2. x.start \in Nat /\ present \in Nat
    BY StoredIs
  <2> QED
    BY <2>1, <2>2
<1>2. x \in G /\ G \in SUBSET rows
  BY <1>1
<1>3. /\ H # {} /\ H \in SUBSET G
      /\ \A r, z \in H : r.start = z.start
      /\ \A r \in H : \A z \in G : z.start <= r.start
  <2> HIDE DEF G
  <2> QED
    BY <1>2, NewestAre
<1>4. H \in SUBSET rows
  BY <1>2, <1>3
<1>5. \E y \in H : \A z \in H : y.span <= z.span
  <2> HIDE DEF H
  <2> QED
    BY <1>3, <1>4, FinestAre DEF Finest
<1>6. PICK y \in H : \A z \in H : y.span <= z.span
  BY <1>5
<1>7. y \in rows /\ In(y) /\ y.start \in Nat
  BY <1>3, <1>4, StoredIs
<1>8. \A z \in G : z.start < y.start \/ (z.start = y.start /\ y.span <= z.span)
  <2> SUFFICES ASSUME NEW z \in G, ~ (z.start < y.start)
               PROVE  z.start = y.start /\ y.span <= z.span
    OBVIOUS
  <2>1. z.start <= y.start /\ z.start \in Nat
    BY <1>2, <1>3, StoredIs
  <2>2. z.start = y.start
    BY <1>7, <2>1
  <2>3. z \in H
    BY <1>3, <2>2 DEF Newest
  <2> QED
    BY <1>6, <2>2, <2>3
<1> HIDE DEF H
<1>9. y \in Kept(quote, from, present, span)
  <2>1. /\ y.quote = quote /\ y.start >= from - Near /\ y.start <= present
        /\ y.provider = x.provider /\ BucketOf(y.start, span) = BucketOf(x.start, span)
    BY <1>7
  <2>2. ASSUME NEW z \in rows, z.provider = y.provider, z.quote = quote,
               z.start >= from - Near, z.start <= present,
               BucketOf(z.start, span) = BucketOf(y.start, span)
        PROVE  z.start < y.start \/ (y.start = z.start /\ y.span <= z.span)
    <3>1. z \in G
      BY <2>1, <2>2
    <3> QED
      BY <1>8, <3>1
  <2> QED
    BY <1>7, <2>1, <2>2 DEF Kept
<1>10. x.start <= y.start
  BY <1>2, <1>3, <1>6
<1>11. y.start <= t
  <2> DEFINE b == BucketOf(x.start, span)
             c == BucketOf(t, span)
  <2>1. /\ b \in Nat /\ b <= x.start /\ x.start < b + span /\ b \in Begins(span)
        /\ c \in Nat /\ c <= t /\ c \in Begins(span)
    BY <1>1, BucketIs, BeginsApart
  <2>2. y.start < b + span /\ b <= y.start
    BY <1>1, <1>7, BucketIs
  <2> HIDE DEF b, c
  <2>3. CASE span = 1
    BY <1>1, <1>7, <2>1, <2>2, <2>3
  <2>4. CASE x.start < c
    <3>1. b + span <= c
      BY <1>1, <2>1, <2>4, BeginsApart
    <3> QED
      BY <1>1, <1>7, <2>1, <2>2, <3>1
  <2> QED
    BY <2>3, <2>4 DEF c
<1> QED
  BY <1>9, <1>10, <1>11

\* Of each provider one row.
LEMMA OneOfEach ==
  ASSUME NEW S
  PROVE  \E T \in OnePerProvider(S) : S # {} => T # {}
<1> DEFINE pick(p) == CHOOSE r \in S : r.provider = p
           T == {r \in S : r = pick(r.provider)}
<1>1. \A r \in S : pick(r.provider) \in S /\ pick(r.provider).provider = r.provider
  OBVIOUS
<1>2. \A r \in S : {x \in T : x.provider = r.provider} = {pick(r.provider)}
  <2> SUFFICES ASSUME NEW r \in S
               PROVE  {x \in T : x.provider = r.provider} = {pick(r.provider)}
    OBVIOUS
  <2>1. pick(r.provider) \in T
    BY <1>1
  <2>2. \A x \in T : x.provider = r.provider => x = pick(r.provider)
    OBVIOUS
  <2> HIDE DEF pick, T
  <2> QED
    BY <1>1, <2>1, <2>2
<1>3. S # {} => T # {}
  BY <1>1
<1> HIDE DEF pick
<1>4. \A r \in S : Cardinality({x \in T : x.provider = r.provider}) = 1
  BY <1>2, FS_Singleton
<1>5. T \in SUBSET S
  OBVIOUS
<1> HIDE DEF T
<1>6. T \in OnePerProvider(S)
  BY <1>4, <1>5 DEF OnePerProvider
<1> QED
  BY <1>3, <1>6

\* What a graph says of a moment, from what is stored.
LEMMA PricesMean == SeriesTyped => PricesTrue
<1> SUFFICES ASSUME SeriesTyped, NEW quote \in Quote, NEW span \in Span, NEW from \in Time,
                    NEW t \in from .. present
             PROVE  LET near == {r \in rows : r.quote = quote /\ r.start <= t
                                              /\ r.start >= t - Near}
                        sure == {r \in near : r.start < BucketOf(t, span) \/ span = 1}
                        newest == {r \in near : \A x \in sure : x.start <= r.start}
                    IN \A price \in {ChartPrice(quote, t, from, present, span),
                                     KrakenPrice(quote, t, from, present, span)} :
                         IF price = None THEN sure = {}
                         ELSE /\ \E r, x \in newest :
                                   /\ r.start = x.start
                                   /\ ~ Less(price, Close(r)) /\ ~ Less(Close(x), price)
                              /\ TablePrices(quote, t) \notin {{}, {None}}
  BY DEF PricesTrue
<1> DEFINE near == {r \in rows : r.quote = quote /\ r.start <= t /\ r.start >= t - Near}
           sure == {r \in near : r.start < BucketOf(t, span) \/ span = 1}
           newest == {r \in near : \A x \in sure : x.start <= r.start}
           K == Kept(quote, from, present, span)
           V == {r \in K : r.start <= t}
           U == Newest(V)
           found == Recent(U, t)
<1>1. /\ from \in Nat /\ t \in Nat /\ t <= present /\ present \in Nat
      /\ Near \in Nat /\ Far \in Nat /\ Near <= Far
  <2>1. End \in Nat /\ Near \in Nat /\ Far \in Nat /\ Near <= Far
    BY SeriesAssumptions
  <2>2. from \in 0 .. End /\ present \in 0 .. End
    BY DEF Time, SeriesTyped
  <2> QED
    BY <2>1, <2>2
<1>2. K \in SUBSET rows /\ \A r \in K : r.quote = quote
  BY DEF Kept
<1>3. ChartPrice(quote, t, from, present, span) = Combined(Observed(Finest(found)))
  BY DEF ChartPrice, Upto, Finest
<1>4. KrakenPrice(quote, t, from, present, span) = Combined(Observed(found))
  BY DEF KrakenPrice, Upto
<1>5. \A x \in sure : \E y \in V : x.start <= y.start
  <2> SUFFICES ASSUME NEW x \in sure PROVE \E y \in V : x.start <= y.start
    OBVIOUS
  <2>1. /\ x \in rows /\ x.quote = quote /\ x.start <= t /\ x.start >= t - Near
        /\ x.start < BucketOf(t, span) \/ span = 1
    OBVIOUS
  <2>2. \E y \in K : x.start <= y.start /\ y.start <= t
    BY <1>1, <2>1, KeptIs
  <2> QED
    BY <2>2
<1>6. \A x \in sure : x.start \in Nat /\ x.start >= t - Near
  BY StoredIs
<1>7. V \in SUBSET rows
  BY <1>2
<1> HIDE DEF K
<1>8. V # {} => /\ U # {} /\ U \in SUBSET V
                /\ \A r, x \in U : r.start = x.start
                /\ \A r \in U : \A x \in V : x.start <= r.start
  <2> HIDE DEF V
  <2> QED
    BY <1>7, NewestAre
<1>9. U \in SUBSET V
  BY DEF Newest
<1>10. \A r \in V : r.start \in Nat /\ r.start <= t /\ r.quote = quote
  BY <1>2, <1>7, StoredIs
<1> HIDE DEF V, U, near, sure
<1>11. found \in SUBSET U /\ \A r \in U : r.start >= t - Near => r \in found
  BY DEF Recent
<1>12. \A r \in found : r.start >= t - Near
  BY DEF Recent
<1> HIDE DEF found
<1>13. found \in SUBSET newest
  <2> SUFFICES ASSUME NEW r \in found PROVE r \in newest
    OBVIOUS
  <2>1. r \in U /\ r \in V /\ r \in rows
    BY <1>7, <1>9, <1>11
  <2>2. r \in near
    BY <1>10, <1>12, <2>1 DEF near
  <2>3. ASSUME NEW x \in sure PROVE x.start <= r.start
    <3>1. PICK y \in V : x.start <= y.start
      BY <1>5
    <3>2. y.start <= r.start
      BY <1>8, <2>1, <3>1
    <3> QED
      BY <1>6, <1>10, <2>1, <3>1, <3>2
  <2> QED
    BY <2>2, <2>3
<1>14. found = {} => sure = {}
  <2> SUFFICES ASSUME NEW x \in sure PROVE found # {}
    OBVIOUS
  <2>1. PICK y \in V : x.start <= y.start
    BY <1>5
  <2>2. PICK r : r \in U
    BY <1>8, <2>1
  <2>3. r \in V /\ y.start <= r.start
    BY <1>8, <2>1, <2>2
  <2>4. r.start >= t - Near
    BY <1>1, <1>6, <1>10, <2>1, <2>3
  <2> QED
    BY <1>11, <2>2, <2>4
<1>15. found \in SUBSET rows /\ \A r, x \in found : r.start = x.start
  BY <1>7, <1>8, <1>9, <1>11
<1>16. Finest(found) \in SUBSET found /\ (found # {} => Finest(found) # {})
  BY <1>15, FinestAre DEF Finest
<1>17. found # {} => TablePrices(quote, t) \notin {{}, {None}}
  <2> SUFFICES ASSUME NEW r \in found PROVE TablePrices(quote, t) \notin {{}, {None}}
    OBVIOUS
  <2> DEFINE old == {x \in rows : x.quote = quote /\ x.start <= t /\ x.start >= t - Far}
  <2>1. r \in old /\ old \in SUBSET rows
    <3>1. r \in V /\ r \in rows
      BY <1>7, <1>9, <1>11
    <3> QED
      BY <1>1, <1>10, <1>12, <3>1
  <2>2. TablePrices(quote, t) = IF old = {} THEN {}
                                ELSE {Combined(Observed(T)) : T \in OnePerProvider(Newest(old))}
    BY DEF TablePrices
  <2> HIDE DEF old
  <2>3. Newest(old) # {} /\ Newest(old) \in SUBSET rows
    BY <2>1, NewestAre
  <2>4. PICK T \in OnePerProvider(Newest(old)) : T # {}
    BY <2>3, OneOfEach
  <2>5. T \in SUBSET rows
    BY <2>3 DEF OnePerProvider
  <2>6. Combined(Observed(T)) # None
    BY <2>4, <2>5, PriceOf
  <2>7. Combined(Observed(T)) \in TablePrices(quote, t)
    BY <2>1, <2>2, <2>4
  <2> QED
    BY <2>6, <2>7
<1> HIDE DEF newest
<1>18. ASSUME NEW F \in SUBSET found, found # {} => F # {}, NEW price,
              price = Combined(Observed(F))
       PROVE  IF price = None THEN sure = {}
              ELSE /\ \E r, x \in newest : /\ r.start = x.start
                                           /\ ~ Less(price, Close(r)) /\ ~ Less(Close(x), price)
                   /\ TablePrices(quote, t) \notin {{}, {None}}
  <2>1. F \in SUBSET rows
    BY <1>15
  <2>2. CASE F = {}
    <3>1. price = None
      BY <1>18, <2>1, <2>2, PriceOf
    <3> QED
      BY <1>14, <1>18, <2>2, <3>1
  <2>3. CASE F # {}
    <3>1. price # None
      BY <1>18, <2>1, <2>3, PriceOf
    <3>2. PICK r \in F, x \in F : ~ Less(price, Close(r)) /\ ~ Less(Close(x), price)
      BY <1>18, <2>1, <2>3, PriceOf
    <3>3. r \in newest /\ x \in newest /\ r.start = x.start
      BY <1>13, <1>15
    <3> QED
      BY <1>17, <3>1, <3>2, <3>3
  <2> QED
    BY <2>2, <2>3
<1>19. found \in SUBSET found /\ found # {} => found # {}
  OBVIOUS
<1> QED
  BY <1>3, <1>4, <1>16, <1>18, <1>19 DEF near, sure, newest

\* What the account is shown to be worth.
LEMMA QuotedIs ==
  ASSUME NEW s, Counted(s), s.whole, NEW span
  PROVE  Quoted(s, "btc", primary, span) # None /\ Quoted(s, "other", primary, span) = None
<1> DEFINE mine(a) == {b \in s.balances : b.asset = a}
           priced(a) == {b \in mine(a) : b.value # None}
           price == KrakenPrice(primary, s.at, s.at, present, span)
           sum(a) == Whole(MapThenSumSet(LAMBDA b : b.quantity, mine(a)))
           total(a) == Total([b \in mine(a) |-> b.value], priced(a))
<1>1. Quoted(s, "btc", primary, span)
      = IF price # None THEN Times(sum("btc"), price)
        ELSE IF priced("btc") # {} THEN total("btc") ELSE None
  BY DEF Quoted
<1>2. Quoted(s, "other", primary, span)
      = IF priced("other") # {} THEN total("other") ELSE None
  BY DEF Quoted
<1>3. priced("other") = {}
  BY DEF Counted
<1>4. priced("btc") # {} /\ IsFiniteSet(priced("btc"))
  <2>1. priced("btc") # {}
    BY DEF Counted
  <2>2. priced("btc") \in SUBSET s.balances
    OBVIOUS
  <2> HIDE DEF priced
  <2>3. IsFiniteSet(priced("btc"))
    BY <2>2, FS_Subset DEF Counted
  <2> QED
    BY <2>1, <2>3
<1>5. total("btc") # None
  <2> HIDE DEF priced, mine
  <2> QED
    BY <1>4, SumsAre
<1>6. \A x, y : Times(x, y) # None
  BY DEF Times, Reduced, None
<1> HIDE DEF priced, mine, price, sum, total
<1> QED
  BY <1>1, <1>2, <1>3, <1>4, <1>5, <1>6

LEMMA KrakenMeans == SeriesInv => KrakenShown
<1> SUFFICES ASSUME SeriesInv, NEW s \in snapshot, NEW span \in Span,
                    s.whole, s.quote = primary
             PROVE  LET held == {b.asset : b \in {x \in s.balances : x.quantity # 0}}
                        values == [asset \in held |-> Quoted(s, asset, primary, span)]
                    IN /\ \A asset \in held : values[asset] # None
                       /\ TotalShown(s, primary, span) = Total(values, held)
  BY DEF KrakenShown
<1> DEFINE held == {b.asset : b \in {x \in s.balances : x.quantity # 0}}
           values == [asset \in held |-> Quoted(s, asset, primary, span)]
           quotes == [asset \in {"btc", "other"} |-> Quoted(s, asset, primary, span)]
           known == {asset \in DOMAIN quotes : quotes[asset] # None}
<1>1. Counted(s) /\ held = {"btc"}
  BY DEF SeriesInv, Counted
<1>2. Quoted(s, "btc", primary, span) # None /\ Quoted(s, "other", primary, span) = None
  BY <1>1, QuotedIs
<1>3. known = {"btc"}
  BY <1>2
<1>4. TotalShown(s, primary, span) = Total(quotes, known)
  BY <1>3 DEF TotalShown
<1>5. quotes["btc"] = values["btc"] /\ values["btc"] # None
  BY <1>1, <1>2
<1> HIDE DEF held, values, quotes, known
<1>6. IsFiniteSet({"btc"}) /\ {"btc"} # {}
  BY FS_Singleton
<1>7. Total(quotes, {"btc"}) = Plus(Whole(0), quotes["btc"])
  BY <1>6, SumsAre
<1>8. Total(values, {"btc"}) = Plus(Whole(0), values["btc"])
  BY <1>6, SumsAre
<1>9. TotalShown(s, primary, span) = Total(values, held)
  BY <1>1, <1>3, <1>4, <1>5, <1>7, <1>8
<1>10. \A asset \in held : values[asset] # None
  BY <1>1, <1>5
<1> QED
  BY <1>9, <1>10 DEF held, values

\* Whatever has been stored of which granularity, and forgotten since: a range of a graph is
\* shown or missing, each bucket once; a candle encloses the prices it stands for, one made
\* by another currency's rate too; several providers' candle ends where their line is
\* (getSeries, market-aggregation.ts).
THEOREM SeriesIsTrue == SeriesSpec => []SeriesTrue
<1>1. SeriesInv => SeriesTrue
  BY SeriesMeans DEF SeriesInv
<1> QED
  BY <1>1, SeriesInitInv, SeriesStep, PTL DEF SeriesSpec

\* A moment is valued by the newest price that could be known of it, or not at all, and the
\* account's total counts what the account held (chart-values.ts, kraken.ts series()).
THEOREM ValuesAreTrue == SeriesSpec => []ValuesTrue
<1>1. SeriesInv => ValuesTrue
  BY PricesMean, KrakenMeans DEF SeriesInv, ValuesTrue
<1> QED
  BY <1>1, SeriesInitInv, SeriesStep, PTL DEF SeriesSpec

\* What the prices stored are, and what is made of them, as both are run together (Market).
THEOREM PricesAreTrue == MarketSpec => [](HistoryWhole /\ SeriesTrue /\ ValuesTrue)
<1>1. MarketInit => CachedInv /\ SeriesInv
  BY CachedInit, SeriesInitInv DEF MarketInit
<1>2. [MarketNext]_marketVars => [Next]_vars
  BY DEF MarketNext, marketVars, Storing, Charting
<1>3. [MarketNext]_marketVars => [SeriesNext]_seriesVars
  BY DEF MarketNext, marketVars, Storing, Charting
<1>4. CachedInv /\ SeriesInv /\ [MarketNext]_marketVars => CachedInv' /\ SeriesInv'
  BY <1>2, <1>3, CachedStep, SeriesStep
<1>5. CachedInv /\ SeriesInv => HistoryWhole /\ SeriesTrue /\ ValuesTrue
  BY SeriesMeans, PricesMean, KrakenMeans DEF CachedInv, HistoryWhole, SeriesInv, ValuesTrue
<1> QED
  BY <1>1, <1>4, <1>5, PTL DEF MarketSpec

-----------------------------------------------------------------------------
(* Fractions in lowest terms. *)

LEMMA Distribute ==
  ASSUME NEW a \in Int, NEW b \in Int, NEW c \in Int
  PROVE  a * (b + c) = a * b + a * c /\ (b + c) * a = b * a + c * a
         /\ a * (b - c) = a * b - a * c /\ (b - c) * a = b * a - c * a
OBVIOUS

LEMMA Cancel ==
  ASSUME NEW a \in Int, NEW b \in Int, NEW k \in Nat, k > 0, k * a = k * b
  PROVE  a = b
BY TimesGrows

\* Two pairs that stand for one number.
Same(n, d, m, e) == n * e = m * d

LEMMA SameTransitive ==
  ASSUME NEW n \in Int, NEW d \in Nat, NEW m \in Int, NEW e \in Nat, NEW k \in Int, NEW f \in Nat,
         d > 0, e > 0, f > 0, Same(n, d, m, e), Same(m, e, k, f)
  PROVE  Same(n, d, k, f)
<1>1. n * e = m * d /\ m * f = k * e
  BY DEF Same
<1>2. e * (n * f) = f * (n * e)
  OBVIOUS
<1>3. f * (n * e) = f * (m * d)
  BY <1>1
<1>4. f * (m * d) = d * (m * f)
  OBVIOUS
<1>5. d * (m * f) = d * (k * e)
  BY <1>1
<1>6. d * (k * e) = e * (k * d)
  OBVIOUS
<1>7. e * (n * f) = e * (k * d)
  BY <1>2, <1>3, <1>4, <1>5, <1>6
<1>8. n * f = k * d
  BY <1>7, Cancel, TimesAssoc
<1> QED
  BY <1>8 DEF Same

\* Every pair is a multiple of the one with the least denominator.
LEMMA LeastPair ==
  ASSUME NEW n \in Int, NEW d \in Nat, d > 0
  PROVE  \E p \in Int, q \in Nat :
           /\ q > 0 /\ Same(n, d, p, q)
           /\ \A m \in Int, e \in Nat : e > 0 /\ Same(n, d, m, e) =>
                \E k \in Nat : k > 0 /\ m = k * p /\ e = k * q
<1> DEFINE T == {q \in Nat : q > 0 /\ \E p \in Int : Same(n, d, p, q)}
<1>1. d \in T
  BY DEF Same
<1>2. PICK q \in T : \A x \in T : ~ (<<x, q>> \in OpToRel(<, Nat))
  <2>1. T \subseteq Nat /\ T # {}
    BY <1>1
  <2> HIDE DEF T
  <2> QED
    BY <2>1, NatLessThanWellFounded, WFMin
<1>3. q \in Nat /\ q > 0 /\ \A x \in T : ~ (x < q)
  BY <1>2 DEF OpToRel
<1>4. PICK p \in Int : Same(n, d, p, q)
  BY <1>2
<1>5. ASSUME NEW m \in Int, NEW e \in Nat, e > 0, Same(n, d, m, e)
      PROVE  \E k \in Nat : k > 0 /\ m = k * p /\ e = k * q
  <2> DEFINE k == e \div q
             r == e % q
             s == m - k * p
  <2>1. k \in Int /\ r \in 0 .. (q - 1) /\ e = q * k + r
    BY <1>3, Divided
  <2> HIDE DEF k, r
  <2>2. m * q = p * e
    <3>1. Same(m, e, n, d)
      BY <1>5, TimesAssoc DEF Same
    <3> QED
      BY <1>3, <1>4, <1>5, <3>1, SameTransitive DEF Same
  <2>3. s \in Int /\ s * q = p * r
    <3>1. s * q = m * q - (k * p) * q
      BY <1>3, <2>1, Distribute, TimesAssoc
    <3>2. p * e = p * (q * k) + p * r
      BY <1>3, <2>1, Distribute, TimesAssoc
    <3>3. (k * p) * q = p * (q * k)
      BY <1>3, <2>1
    <3>4. s \in Int /\ p * (q * k) \in Int /\ p * r \in Int
      BY <1>3, <2>1, TimesAssoc
    <3> QED
      BY <2>2, <3>1, <3>2, <3>3, <3>4
  <2> HIDE DEF s
  <2>4. r = 0
    <3> SUFFICES ASSUME r # 0 PROVE FALSE
      OBVIOUS
    <3>1. r \in Nat /\ r > 0 /\ r < q
      BY <1>3, <2>1
    <3>2. Same(p, q, s, r)
      BY <1>3, <2>3, <3>1, TimesAssoc DEF Same
    <3>3. Same(n, d, s, r)
      BY <1>3, <1>4, <2>3, <3>1, <3>2, SameTransitive
    <3>4. r \in T
      BY <2>3, <3>1, <3>3
    <3> QED
      BY <1>3, <3>1, <3>4
  <2>5. e = k * q
    BY <1>3, <2>1, <2>4
  <2>6. k > 0
    <3> SUFFICES ASSUME k <= 0 PROVE FALSE
      BY <2>1
    <3>1. k * q <= 0
      BY <1>3, <2>1
    <3> QED
      BY <1>5, <2>5, <3>1
  <2>7. m = k * p
    <3>1. q * (m - k * p) = 0
      BY <1>3, <2>1, <2>3, <2>4 DEF s
    <3>2. q * (m - k * p) = q * 0 /\ m - k * p \in Int
      BY <1>3, <2>1, <3>1
    <3>3. m - k * p = 0
      BY <1>3, <3>2, Cancel
    <3> QED
      BY <2>1, <3>3
  <2> QED
    BY <2>1, <2>5, <2>6, <2>7
<1>6. \A m \in Int, e \in Nat : e > 0 /\ Same(n, d, m, e) =>
        \E k \in Nat : k > 0 /\ m = k * p /\ e = k * q
  BY <1>5
<1> QED
  BY <1>3, <1>4, <1>6, Zenon

\* What stands for one number is reduced to one pair.
LEMMA ReducedOnce ==
  ASSUME NEW n \in Int, NEW d \in Nat, d > 0, NEW m \in Int, NEW e \in Nat, e > 0,
         Same(n, d, m, e)
  PROVE  Reduced(n, d) = Reduced(m, e)
<1>1. PICK p \in Int, q \in Nat :
           /\ q > 0 /\ Same(n, d, p, q)
           /\ \A x \in Int, y \in Nat : y > 0 /\ Same(n, d, x, y) =>
                \E k \in Nat : k > 0 /\ x = k * p /\ y = k * q
  BY LeastPair
<1>2. ASSUME NEW x \in Int, NEW y \in Nat, y > 0, Same(n, d, x, y)
      PROVE  Reduced(x, y) = <<p, q>>
  <2> DEFINE g == Divisor(x, y)
             a == x \div g
             b == y \div g
  <2>1. g \in 1 .. y /\ x = g * a /\ y = g * b
    BY <1>2, DivisorIs
  <2>2. Reduced(x, y) = <<a, b>>
    BY DEF Reduced
  <2>3. g \in Nat /\ g > 0 /\ a \in Int /\ b \in Int
    BY <2>1
  <2>4. g = Divisor(x, y)
    OBVIOUS
  <2> HIDE DEF g, a, b
  <2>5. b \in Nat /\ b > 0
    <3> SUFFICES ASSUME b <= 0 PROVE FALSE
      BY <2>3
    <3>1. g * b <= 0
      BY <2>3
    <3> QED
      BY <1>2, <2>1, <3>1
  <2>7. Same(x, y, a, b)
    BY <2>1, <2>3, <2>5 DEF Same
  <2>8. Same(n, d, a, b)
    BY <1>2, <2>3, <2>5, <2>7, SameTransitive
  <2>9. PICK l \in Nat : l > 0 /\ a = l * p /\ b = l * q
    BY <1>1, <2>3, <2>5, <2>8
  <2>10. l = 1
    <3> DEFINE S == {z \in 1 .. y : x % z = 0 /\ y % z = 0}
    <3>1. g = Max(S)
      BY <2>4 DEF Divisor
    <3>2. x = (g * l) * p /\ y = (g * l) * q /\ x \in Int /\ y \in Nat
      BY <1>1, <1>2, <2>1, <2>3, <2>9, TimesAssoc
    <3>3. /\ g * l \in Nat /\ g * l > 0 /\ g \in Nat /\ g > 0 /\ l \in Nat /\ l > 0
          /\ p \in Int /\ q \in Nat /\ q > 0
      BY <1>1, <2>3, <2>9, TimesGrows
    <3>4. x % (g * l) = 0 /\ y % (g * l) = 0
      <4> DEFINE h == g * l
      <4>1. h = g * l /\ h \in Nat /\ h > 0 /\ x = h * p /\ y = h * q
        BY <3>2, <3>3
      <4> HIDE DEF h
      <4>2. \A z \in Int : (h * z) % h = 0
        <5> SUFFICES ASSUME NEW z \in Int PROVE (h * z) % h = 0
          OBVIOUS
        <5> DEFINE r == (h * z) % h
                   c == (h * z) \div h
        <5>1. h * z \in Int
          BY <4>1, TimesAssoc
        <5>2. c \in Int /\ r \in 0 .. (h - 1) /\ h * z = h * c + r
          BY <4>1, <5>1, Divided
        <5> HIDE DEF c, r
        <5>3. h * (z - c) = r
          <6>1. h * (z - c) = h * z - h * c
            BY <4>1, <5>2, Distribute
          <6>2. h * z \in Int /\ h * c \in Int /\ r \in Int
            BY <4>1, <5>1, <5>2, TimesAssoc
          <6> QED
            BY <5>2, <6>1, <6>2
        <5>4. z - c \in Int
          BY <5>2
        <5>5. ~ (z - c >= 1)
          <6> SUFFICES ASSUME z - c >= 1 PROVE FALSE
            OBVIOUS
          <6>1. z - c - 1 \in Nat /\ h * (z - c - 1) \in Nat
            BY <4>1, <5>4
          <6>2. h * (z - c) = h * (z - c - 1) + h
            BY <4>1, <5>4
          <6> QED
            BY <4>1, <5>2, <5>3, <6>1, <6>2
        <5>6. ~ (z - c < 0)
          <6> SUFFICES ASSUME z - c < 0 PROVE FALSE
            OBVIOUS
          <6>1. h * (z - c) < h * 0
            BY <4>1, <5>4, TimesGrows
          <6> QED
            BY <4>1, <5>2, <5>3, <6>1
        <5>7. z - c = 0
          BY <5>4, <5>5, <5>6
        <5>8. r = 0
          BY <4>1, <5>3, <5>7
        <5> QED
          BY <5>8 DEF r
      <4>3. x % h = 0 /\ y % h = 0
        BY <4>1, <4>2
      <4> QED
        BY <4>1, <4>3, Zenon
    <3>5. g * l <= y
      <4>1. y = (g * l) * q /\ q - 1 \in Nat
        BY <3>2, <3>3
      <4>2. (g * l) * (q - 1) \in Nat
        BY <3>3, <4>1
      <4>3. (g * l) * q = (g * l) * (q - 1) + g * l
        BY <3>3, <4>1
      <4> QED
        BY <3>3, <4>1, <4>2, <4>3
    <3>6. g * l \in S
      BY <3>3, <3>4, <3>5
    <3>7. g * l <= g
      <4>1. S \in SUBSET (1 .. y) /\ S # {}
        BY <3>6
      <4> HIDE DEF S
      <4> QED
        BY <3>1, <3>2, <3>6, <4>1, MaxIs
    <3>8. ~ (l > 1)
      <4> SUFFICES ASSUME l > 1 PROVE FALSE
        OBVIOUS
      <4>1. g * 1 < g * l
        BY <3>3, TimesGrows
      <4> QED
        BY <3>3, <3>7, <4>1
    <3> QED
      BY <3>3, <3>8
  <2>11. a = p /\ b = q
    BY <1>1, <2>9, <2>10
  <2> QED
    BY <2>2, <2>11
<1>3. Same(n, d, n, d)
  BY DEF Same
<1> QED
  BY <1>2, <1>3

\* Amounts are in lowest terms.
Amount == {x \in Fraction : Reduced(x[1], x[2]) = x}

LEMMA AmountIs ==
  ASSUME NEW x \in Amount
  PROVE  /\ x \in Fraction /\ x[1] \in Int /\ x[2] \in Nat /\ x[2] > 0 /\ x # None
         /\ Reduced(x[1], x[2]) = x /\ Same(x[1], x[2], x[1], x[2])
BY FractionIs DEF Amount, Same

LEMMA ReducedAmount ==
  ASSUME NEW n \in Int, NEW d \in Nat, d > 0
  PROVE  /\ Reduced(n, d) \in Amount
         /\ Same(Reduced(n, d)[1], Reduced(n, d)[2], n, d)
         /\ (Reduced(n, d)[1] >= 0 <=> n >= 0)
<1> DEFINE R == Reduced(n, d)
<1>1. PICK g \in Nat \ {0} : n = g * R[1] /\ d = g * R[2]
  BY ReducedIs
<1>2. R \in Fraction /\ R[1] \in Int /\ R[2] \in Nat /\ R[2] > 0
  BY ReducedIs, FractionIs
<1>3. Reduced(n, d) = R
  OBVIOUS
<1> HIDE DEF R
<1>4. R[1] * d = n * R[2]
  BY <1>1, <1>2
<1>5. Same(R[1], R[2], n, d)
  BY <1>4 DEF Same
<1>6. Reduced(R[1], R[2]) = R
  BY <1>2, <1>3, <1>5, ReducedOnce
<1>7. R[1] >= 0 <=> n >= 0
  <2>1. R[1] < 0 <=> g * R[1] < g * 0
    BY <1>1, <1>2, TimesGrows
  <2> QED
    BY <1>1, <1>2, <2>1
<1> QED
  BY <1>2, <1>3, <1>5, <1>6, <1>7 DEF Amount

LEMMA PlusPairs ==
  ASSUME NEW x \in Fraction, NEW y \in Fraction,
         NEW n \in Int, NEW d \in Nat, d > 0, NEW m \in Int, NEW e \in Nat, e > 0,
         Same(x[1], x[2], n, d), Same(y[1], y[2], m, e)
  PROVE  Plus(x, y) = Reduced(n * e + m * d, d * e)
<1> DEFINE r == x[1]  s == x[2]  u == y[1]  v == y[2]
<1>1. r \in Int /\ u \in Int /\ s \in Nat /\ v \in Nat /\ s > 0 /\ v > 0
  BY FractionIs
<1>2. r * d = n * s /\ u * e = m * v
  BY DEF Same
<1>3. Plus(x, y) = Reduced(r * v + u * s, s * v)
  BY DEF Plus
<1> HIDE DEF r, s, u, v
<1>4. (r * v) * (d * e) = (n * e) * (s * v)
  <2>1. (r * v) * (d * e) = (r * d) * (v * e)
    BY <1>1
  <2>2. (n * s) * (v * e) = (n * e) * (s * v)
    BY <1>1
  <2> QED
    BY <1>2, <2>1, <2>2
<1>5. (u * s) * (d * e) = (m * d) * (s * v)
  <2>1. (u * s) * (d * e) = (u * e) * (s * d)
    BY <1>1
  <2>2. (m * v) * (s * d) = (m * d) * (s * v)
    BY <1>1
  <2> QED
    BY <1>2, <2>1, <2>2
<1> DEFINE a == r * v  b == u * s  c == n * e  f == m * d  z == d * e  w == s * v
<1>6. a * z = c * w /\ b * z = f * w
  BY <1>4, <1>5
<1>7. a \in Int /\ b \in Int /\ c \in Int /\ f \in Int /\ z \in Nat /\ w \in Nat /\ z > 0 /\ w > 0
  <2>1. 0 < z /\ 0 < w
    <3>1. d * 0 < d * e /\ s * 0 < s * v
      BY <1>1, TimesGrows
    <3> QED
      BY <1>1, <3>1
  <2> QED
    BY <1>1, <2>1
<1>8. Reduced(a + b, w) = Reduced(c + f, z)
  <2> HIDE DEF a, b, c, f, z, w
  <2>1. (a + b) * z = (c + f) * w
    <3>1. (a + b) * z = a * z + b * z /\ (c + f) * w = c * w + f * w
      BY <1>7, Distribute
    <3> QED
      BY <1>6, <3>1
  <2> QED
    BY <1>7, <2>1, ReducedOnce DEF Same
<1> QED
  BY <1>3, <1>8

LEMMA TimesPairs ==
  ASSUME NEW x \in Fraction, NEW y \in Fraction,
         NEW n \in Int, NEW d \in Nat, d > 0, NEW m \in Int, NEW e \in Nat, e > 0,
         Same(x[1], x[2], n, d), Same(y[1], y[2], m, e)
  PROVE  Times(x, y) = Reduced(n * m, d * e)
<1> DEFINE r == x[1]  s == x[2]  u == y[1]  v == y[2]
<1>1. r \in Int /\ u \in Int /\ s \in Nat /\ v \in Nat /\ s > 0 /\ v > 0
  BY FractionIs
<1>2. r * d = n * s /\ u * e = m * v
  BY DEF Same
<1>3. Times(x, y) = Reduced(r * u, s * v)
  BY DEF Times
<1> HIDE DEF r, s, u, v
<1>4. (r * u) * (d * e) = (n * m) * (s * v)
  <2>1. (r * u) * (d * e) = (r * d) * (u * e)
    BY <1>1
  <2>2. (n * s) * (m * v) = (n * m) * (s * v)
    BY <1>1
  <2> QED
    BY <1>2, <2>1, <2>2
<1> DEFINE a == r * u  c == n * m  z == d * e  w == s * v
<1>5. a * z = c * w
  BY <1>4
<1>6. a \in Int /\ c \in Int /\ z \in Nat /\ w \in Nat /\ z > 0 /\ w > 0
  <2>1. 0 < z /\ 0 < w
    <3>1. d * 0 < d * e /\ s * 0 < s * v
      BY <1>1, TimesGrows
    <3> QED
      BY <1>1, <3>1
  <2> QED
    BY <1>1, <2>1
<1>7. Reduced(a, w) = Reduced(c, z)
  <2> HIDE DEF a, c, z, w
  <2> QED
    BY <1>5, <1>6, ReducedOnce DEF Same
<1> QED
  BY <1>3, <1>7

\* Sums are amounts; their order does not matter.
LEMMA PlusIs ==
  ASSUME NEW x \in Amount, NEW y \in Amount
  PROVE  /\ Plus(x, y) \in Amount /\ Plus(x, y) = Plus(y, x)
         /\ Plus(x, y) = Reduced(x[1] * y[2] + y[1] * x[2], x[2] * y[2])
         /\ x[1] >= 0 /\ y[1] >= 0 => Plus(x, y)[1] >= 0
<1> DEFINE n == x[1] * y[2] + y[1] * x[2]
           d == x[2] * y[2]
<1>1. x[1] \in Int /\ y[1] \in Int /\ x[2] \in Nat /\ y[2] \in Nat /\ x[2] > 0 /\ y[2] > 0
  BY AmountIs
<1>2. n \in Int /\ d \in Nat /\ d > 0
  <2>1. x[2] * 0 < x[2] * y[2]
    BY <1>1, TimesGrows
  <2> QED
    BY <1>1, <2>1
<1>3. Plus(x, y) = Reduced(n, d)
  BY DEF Plus
<1>4. Plus(y, x) = Reduced(n, d)
  <2>1. y[1] * x[2] + x[1] * y[2] = n /\ y[2] * x[2] = d
    BY <1>1
  <2> QED
    BY <2>1 DEF Plus
<1>5. x[1] >= 0 /\ y[1] >= 0 => n >= 0
  BY <1>1
<1> HIDE DEF n, d
<1> QED
  BY <1>2, <1>3, <1>4, <1>5, ReducedAmount DEF n, d

LEMMA PlusAssociates ==
  ASSUME NEW x \in Amount, NEW y \in Amount, NEW z \in Amount
  PROVE  Plus(Plus(x, y), z) = Plus(x, Plus(y, z))
<1> DEFINE a == x[1]  b == x[2]  c == y[1]  d == y[2]  e == z[1]  f == z[2]
<1>1. /\ a \in Int /\ c \in Int /\ e \in Int /\ b \in Nat /\ d \in Nat /\ f \in Nat
      /\ b > 0 /\ d > 0 /\ f > 0
      /\ Same(x[1], x[2], a, b) /\ Same(y[1], y[2], c, d) /\ Same(z[1], z[2], e, f)
  BY AmountIs
<1>2. Plus(x, y) = Reduced(a * d + c * b, b * d) /\ Plus(y, z) = Reduced(c * f + e * d, d * f)
  BY PlusIs
<1>3. /\ x \in Fraction /\ z \in Fraction /\ Plus(x, y) \in Fraction /\ Plus(y, z) \in Fraction
  BY AmountIs, PlusIs
<1> HIDE DEF a, b, c, d, e, f
<1>4. b * d \in Nat /\ b * d > 0 /\ d * f \in Nat /\ d * f > 0
  <2>1. b * 0 < b * d /\ d * 0 < d * f
    BY <1>1, TimesGrows
  <2> QED
    BY <1>1, <2>1
<1>5. a * d + c * b \in Int /\ c * f + e * d \in Int
  BY <1>1
<1> DEFINE n == a * d + c * b  p == b * d  m == c * f + e * d  q == d * f
<1>6. n \in Int /\ p \in Nat /\ p > 0 /\ m \in Int /\ q \in Nat /\ q > 0
  BY <1>4, <1>5
<1>7. Plus(x, y) = Reduced(n, p) /\ Plus(y, z) = Reduced(m, q)
  BY <1>2
<1>8. n * f + e * p = a * q + m * b /\ p * f = b * q
  <2>1. n * f = (a * d) * f + (c * b) * f /\ m * b = (c * f) * b + (e * d) * b
    BY <1>1, Distribute, TimesAssoc
  <2>2. (a * d) * f = a * q /\ (c * b) * f = (c * f) * b /\ (e * d) * b = e * p
    BY <1>1
  <2>3. p * f = b * q
    BY <1>1
  <2>4. a * q \in Int /\ (c * f) * b \in Int /\ e * p \in Int
    BY <1>1
  <2> QED
    BY <2>1, <2>2, <2>3, <2>4
<1> HIDE DEF n, p, m, q
<1>9. Same(Plus(x, y)[1], Plus(x, y)[2], n, p) /\ Same(Plus(y, z)[1], Plus(y, z)[2], m, q)
  BY <1>6, <1>7, ReducedAmount
<1>10. Plus(Plus(x, y), z) = Reduced(n * f + e * p, p * f)
  BY <1>1, <1>3, <1>6, <1>9, PlusPairs
<1>11. Plus(x, Plus(y, z)) = Reduced(a * q + m * b, b * q)
  BY <1>1, <1>3, <1>6, <1>9, PlusPairs
<1> QED
  BY <1>8, <1>10, <1>11

LEMMA WholeAmount ==
  ASSUME NEW n \in Int
  PROVE  Whole(n) \in Amount /\ Whole(n)[1] = n /\ Whole(n)[2] = 1 /\ Whole(n) = Reduced(n, 1)
<1>1. Whole(n) = <<n, 1>> /\ <<n, 1>> \in Fraction
  BY PairIs DEF Whole
<1> DEFINE R == Reduced(n, 1)
<1>2. R \in Fraction /\ \E g \in Nat \ {0} : n = g * R[1] /\ 1 = g * R[2]
  BY ReducedIs
<1>3. PICK g \in Nat \ {0} : n = g * R[1] /\ 1 = g * R[2]
  BY <1>2
<1>4. R = <<R[1], R[2]>> /\ R[1] \in Int /\ R[2] \in Nat /\ R[2] > 0
  BY <1>2, FractionIs
<1>5. Reduced(n, 1) = R
  OBVIOUS
<1> HIDE DEF R
<1>6. g = 1 /\ R[2] = 1
  <2>1. ~ (g > 1)
    <3> SUFFICES ASSUME g > 1 PROVE FALSE
      OBVIOUS
    <3>1. R[2] * 1 < R[2] * g
      BY <1>3, <1>4, TimesGrows
    <3> QED
      BY <1>3, <1>4, <3>1
  <2> QED
    BY <1>3, <1>4, <2>1
<1>7. R = <<n, 1>>
  BY <1>3, <1>4, <1>6
<1> QED
  BY <1>1, <1>5, <1>7 DEF Amount

LEMMA ZeroIs ==
  ASSUME NEW x \in Amount
  PROVE  Plus(x, Whole(0)) = x /\ Plus(Whole(0), x) = x /\ (x[1] = 0 => x = Whole(0))
<1>1. Whole(0) \in Amount /\ Whole(0)[1] = 0 /\ Whole(0)[2] = 1 /\ Whole(0) = Reduced(0, 1)
  BY WholeAmount
<1>2. x[1] \in Int /\ x[2] \in Nat /\ x[2] > 0 /\ Reduced(x[1], x[2]) = x
  BY AmountIs
<1>3. Plus(x, Whole(0)) = Reduced(x[1] * 1 + 0 * x[2], x[2] * 1)
  BY <1>1, PlusIs
<1>4. x[1] * 1 + 0 * x[2] = x[1] /\ x[2] * 1 = x[2]
  BY <1>2
<1>5. x[1] = 0 => Same(x[1], x[2], 0, 1)
  BY <1>2 DEF Same
<1>6. x[1] = 0 => x = Whole(0)
  BY <1>1, <1>2, <1>5, ReducedOnce
<1> QED
  BY <1>1, <1>2, <1>3, <1>4, <1>6, PlusIs

\* The opposite of a fraction, which is what is taken away.
LEMMA MinusIs ==
  ASSUME NEW x \in Amount, NEW y \in Amount
  PROVE  /\ Minus(x, y) \in Amount /\ Plus(Minus(x, y), y) = x
         /\ ~ Less(x, y) => Minus(x, y)[1] >= 0
<1> DEFINE a == x[1]  b == x[2]  c == y[1]  d == y[2]
           n == a * d - c * b
           p == b * d
<1>1. a \in Int /\ c \in Int /\ b \in Nat /\ d \in Nat /\ b > 0 /\ d > 0
  BY AmountIs
<1>2. n \in Int /\ p \in Nat /\ p > 0
  <2>1. b * 0 < b * d
    BY <1>1, TimesGrows
  <2> QED
    BY <1>1, <2>1
<1>3. Minus(x, y) = Reduced(n, p)
  <2>1. Minus(x, y) = Reduced(a * d + (-c) * b, b * d)
    BY DEF Minus, Plus
  <2>2. a * d + (-c) * b = n
    BY <1>1
  <2> QED
    BY <2>1, <2>2
<1>4. ~ Less(x, y) => n >= 0
  BY <1>1 DEF Less
<1>5. x = Reduced(a, b) /\ y \in Fraction /\ Same(y[1], y[2], c, d)
  BY AmountIs
<1> HIDE DEF n, p
<1>6. Minus(x, y) \in Amount /\ Same(Minus(x, y)[1], Minus(x, y)[2], n, p)
  BY <1>2, <1>3, ReducedAmount
<1>7. ~ Less(x, y) => Minus(x, y)[1] >= 0
  BY <1>2, <1>3, <1>4, ReducedAmount
<1> HIDE DEF a, b, c, d
<1>8. Plus(Minus(x, y), y) = Reduced(n * d + c * p, p * d)
  BY <1>1, <1>2, <1>5, <1>6, AmountIs, PlusPairs
<1>9. (n * d + c * p) * b = a * (p * d)
  <2>1. n * d = (a * d) * d - (c * b) * d
    BY <1>1, Distribute, TimesAssoc DEF n
  <2>2. c * p = (c * b) * d
    BY <1>1 DEF p
  <2>3. (a * d) * d \in Int /\ (c * b) * d \in Int
    BY <1>1
  <2>4. n * d + c * p = (a * d) * d
    BY <2>1, <2>2, <2>3
  <2>5. ((a * d) * d) * b = a * ((b * d) * d)
    BY <1>1
  <2> QED
    BY <2>4, <2>5 DEF p
<1>10. n * d + c * p \in Int /\ p * d \in Nat /\ p * d > 0
  <2>1. p * 0 < p * d
    BY <1>1, <1>2, TimesGrows
  <2> QED
    BY <1>1, <1>2, <2>1
<1>11. Same(n * d + c * p, p * d, a, b)
  BY <1>9 DEF Same
<1>12. Reduced(n * d + c * p, p * d) = Reduced(a, b)
  BY <1>1, <1>10, <1>11, ReducedOnce
<1> QED
  BY <1>5, <1>6, <1>7, <1>8, <1>12

LEMMA WholesAdd ==
  ASSUME NEW m \in Int, NEW n \in Int
  PROVE  /\ Plus(Whole(m), Whole(n)) = Whole(m + n) /\ Minus(Whole(m), Whole(n)) = Whole(m - n)
         /\ (Whole(m) = Whole(n) <=> m = n) /\ (Less(Whole(m), Whole(n)) <=> m < n)
<1>1. m + n \in Int /\ m - n \in Int /\ m + (-n) = m - n
  OBVIOUS
<1>2. Plus(Whole(m), Whole(n)) = Reduced(m * 1 + n * 1, 1 * 1)
  BY DEF Plus, Whole
<1>3. Minus(Whole(m), Whole(n)) = Reduced(m * 1 + (-n) * 1, 1 * 1)
  BY DEF Minus, Plus, Whole
<1>4. m * 1 + n * 1 = m + n /\ m * 1 + (-n) * 1 = m - n /\ 1 * 1 = 1
  OBVIOUS
<1>5. Reduced(m + n, 1) = Whole(m + n) /\ Reduced(m - n, 1) = Whole(m - n)
  BY <1>1, WholeAmount
<1>6. (Whole(m) = Whole(n) <=> m = n) /\ (Less(Whole(m), Whole(n)) <=> m < n)
  BY DEF Whole, Less
<1> QED
  BY <1>2, <1>3, <1>4, <1>5, <1>6

-----------------------------------------------------------------------------
(* Shares and sums. *)

\* Shares of a cost: of m of q things.
LEMMA PartsAdd ==
  ASSUME NEW c \in Amount, NEW q \in Nat, q > 0, NEW m \in Int, NEW n \in Int
  PROVE  /\ Times(c, <<m, q>>) \in Amount
         /\ Plus(Times(c, <<m, q>>), Times(c, <<n, q>>)) = Times(c, <<m + n, q>>)
         /\ Times(c, <<0, q>>) = Whole(0) /\ Times(c, <<q, q>>) = c
<1> DEFINE a == c[1]  b == c[2]  D == b * q
<1>1. a \in Int /\ b \in Nat /\ b > 0 /\ c = Reduced(a, b)
  BY AmountIs
<1>2. D \in Nat /\ D > 0 /\ D = b * q
  <2>1. b * 0 < b * q
    BY <1>1, TimesGrows
  <2> QED
    BY <1>1, <2>1
<1>3. \A k \in Int : Times(c, <<k, q>>) = Reduced(a * k, D)
  BY DEF Times
<1> HIDE DEF a, b, D
<1>4. \A k \in Int : a * k \in Int
  BY <1>1
<1> DEFINE x == Times(c, <<m, q>>)  y == Times(c, <<n, q>>)  N == a * m  M == a * n
<1>5. /\ x \in Amount /\ Same(x[1], x[2], N, D)
      /\ y \in Amount /\ Same(y[1], y[2], M, D)
      /\ N \in Int /\ M \in Int
  BY <1>2, <1>3, <1>4, ReducedAmount
<1>6. m + n \in Int /\ a * (m + n) = N + M
  BY <1>1
<1> HIDE DEF x, y, N, M
<1>7. Plus(x, y) = Reduced(N * D + M * D, D * D)
  BY <1>2, <1>5, AmountIs, PlusPairs
<1>8. Reduced(N * D + M * D, D * D) = Reduced(N + M, D)
  <2>1. N * D + M * D = (N + M) * D /\ N + M \in Int
    BY <1>2, <1>5, Distribute
  <2> DEFINE K == N + M
  <2>2. (K * D) * D = K * (D * D) /\ K * D \in Int /\ D * D \in Nat
    BY <1>2, <2>1
  <2>3. D * D > 0
    <3>1. D * 0 < D * D
      BY <1>2, TimesGrows
    <3> QED
      BY <1>2, <3>1
  <2>4. Same(K * D, D * D, K, D)
    BY <2>2 DEF Same
  <2>5. K \in Int /\ N * D + M * D = K * D
    BY <2>1
  <2> HIDE DEF K
  <2>6. Reduced(K * D, D * D) = Reduced(K, D)
    BY <1>2, <2>2, <2>3, <2>4, <2>5, ReducedOnce
  <2> QED
    BY <2>5, <2>6 DEF K
<1>9. Plus(x, y) = Times(c, <<m + n, q>>)
  BY <1>3, <1>6, <1>7, <1>8
<1>10. Times(c, <<0, q>>) = Whole(0)
  <2>1. a * 0 = 0 /\ Same(0, D, 0, 1)
    BY <1>1, <1>2 DEF Same
  <2>2. Reduced(0, D) = Reduced(0, 1)
    BY <1>2, <2>1, ReducedOnce
  <2> QED
    BY <1>3, <2>1, <2>2, WholeAmount
<1>11. Times(c, <<q, q>>) = c
  <2>1. (a * q) * b = a * D /\ a * q \in Int
    BY <1>1, <1>2
  <2>2. Reduced(a * q, D) = Reduced(a, b)
    BY <1>1, <1>2, <2>1, ReducedOnce DEF Same
  <2> QED
    BY <1>1, <1>3, <2>2
<1> QED
  BY <1>5, <1>9, <1>10, <1>11 DEF x, y

LEMMA TimesIs ==
  ASSUME NEW x \in Amount, NEW y \in Amount
  PROVE  Times(x, y) \in Amount /\ (x[1] >= 0 /\ y[1] >= 0 => Times(x, y)[1] >= 0)
<1> DEFINE n == x[1] * y[1]  d == x[2] * y[2]
<1>1. x[1] \in Int /\ y[1] \in Int /\ x[2] \in Nat /\ y[2] \in Nat /\ x[2] > 0 /\ y[2] > 0
  BY AmountIs
<1>2. n \in Int /\ d \in Nat /\ d > 0
  <2>1. x[2] * 0 < x[2] * y[2]
    BY <1>1, TimesGrows
  <2> QED
    BY <1>1, <2>1
<1>3. x[1] >= 0 /\ y[1] >= 0 => n >= 0
  BY <1>1
<1>4. Times(x, y) = Reduced(n, d)
  BY DEF Times
<1> HIDE DEF n, d
<1> QED
  BY <1>2, <1>3, <1>4, ReducedAmount

LEMMA OverIs ==
  ASSUME NEW x \in Amount, NEW y \in Amount, y[1] > 0
  PROVE  Over(x, y) \in Amount /\ (x[1] >= 0 => Over(x, y)[1] >= 0)
<1> DEFINE n == x[1] * y[2]  d == x[2] * y[1]
<1>1. x[1] \in Int /\ y[1] \in Nat /\ x[2] \in Nat /\ y[2] \in Nat /\ x[2] > 0 /\ y[1] > 0
  BY AmountIs
<1>2. n \in Int /\ d \in Nat /\ d > 0
  <2>1. x[2] * 0 < x[2] * y[1]
    BY <1>1, TimesGrows
  <2> QED
    BY <1>1, <2>1
<1>3. x[1] >= 0 => n >= 0
  BY <1>1
<1>4. Over(x, y) = Reduced(n, d)
  BY DEF Over
<1> HIDE DEF n, d
<1> QED
  BY <1>2, <1>3, <1>4, ReducedAmount

-----------------------------------------------------------------------------

\* All subsets of a finite set are reached if each is that all but one of its elements are.
LEMMA SubsetsReached ==
  ASSUME NEW D, IsFiniteSet(D), NEW good, {} \in good,
         \A s \in SUBSET D : s # {} /\ (\A x \in s : s \ {x} \in good) => s \in good
  PROVE  SUBSET D \subseteq good
<1> DEFINE N == {n \in Nat : \A s \in SUBSET D : Cardinality(s) = n => s \in good}
<1>1. \A s \in SUBSET D : IsFiniteSet(s) /\ Cardinality(s) \in Nat
                          /\ (Cardinality(s) = 0 <=> s = {})
  BY FS_Subset, FS_CardinalityType, FS_EmptySet
<1>2. 0 \in N
  BY <1>1
<1>3. ASSUME NEW n \in Nat, n \in N PROVE n + 1 \in N
  <2> SUFFICES ASSUME NEW s \in SUBSET D, Cardinality(s) = n + 1 PROVE s \in good
    OBVIOUS
  <2>1. ASSUME NEW x \in s PROVE s \ {x} \in good
    <3>1. Cardinality(s \ {x}) = n
      <4>1. IsFiniteSet(s)
        BY <1>1
      <4>2. Cardinality(s \ {x}) = Cardinality(s) - 1
        BY <2>1, <4>1, FS_RemoveElement
      <4> QED
        BY <1>3, <4>2
    <3>2. s \ {x} \in SUBSET D
      OBVIOUS
    <3> QED
      BY <1>3, <3>1, <3>2
  <2>2. s # {}
    BY <1>1, <1>3
  <2> QED
    BY <2>1, <2>2
<1> HIDE DEF N
<1>4. Nat \subseteq N
  BY <1>2, <1>3, NaturalsReached
<1> QED
  BY <1>1, <1>4 DEF N

\* What is made of a set is made of what is made without the element that is chosen.
Folded(F, S, V, b, c, g) ==
  /\ F \in [SUBSET S -> V] /\ F[{}] = b
  /\ \A s \in SUBSET S : s # {} => F[s] = g[<<s, F[s \ {c[s]}]>>]

LEMMA FoldExists ==
  ASSUME NEW S, IsFiniteSet(S), NEW V, NEW b \in V, NEW c,
         \A s \in SUBSET S : s # {} => c[s] \in s,
         NEW g \in [(SUBSET S) \X V -> V]
  PROVE  \E F : Folded(F, S, V, b, c, g)
<1> DEFINE D == SUBSET S
           Good(n, F) == /\ F \in [D -> V] /\ F[{}] = b
                         /\ \A s \in D : s # {} /\ Cardinality(s) <= n =>
                              F[s] = g[<<s, F[s \ {c[s]}]>>]
           N == {n \in Nat : \E F : Good(n, F)}
<1>1. \A s \in D : /\ IsFiniteSet(s) /\ Cardinality(s) \in Nat
                   /\ (Cardinality(s) = 0 <=> s = {})
                   /\ Cardinality(s) <= Cardinality(S)
  BY FS_Subset, FS_CardinalityType, FS_EmptySet
<1>2. \A s \in D : s # {} => /\ c[s] \in s /\ s \ {c[s]} \in D
                             /\ Cardinality(s \ {c[s]}) = Cardinality(s) - 1
  <2> SUFFICES ASSUME NEW s \in D, s # {}
               PROVE  /\ c[s] \in s /\ s \ {c[s]} \in D
                      /\ Cardinality(s \ {c[s]}) = Cardinality(s) - 1
    OBVIOUS
  <2>1. c[s] \in s
    OBVIOUS
  <2> QED
    BY <1>1, <2>1, FS_RemoveElement
<1>3. 0 \in N
  <2> DEFINE F == [s \in D |-> b]
  <2>1. F \in [D -> V] /\ F[{}] = b
    OBVIOUS
  <2> HIDE DEF F
  <2>2. \A s \in D : Cardinality(s) <= 0 => s = {}
    BY <1>1
  <2>3. Good(0, F)
    BY <2>1, <2>2
  <2> QED
    BY <2>3
<1>4. ASSUME NEW n \in Nat, n \in N PROVE n + 1 \in N
  <2>1. PICK F : Good(n, F)
    BY <1>4
  <2> DEFINE Next1(s) == g[<<s, F[s \ {c[s]}]>>]
             G == [s \in D |-> IF Cardinality(s) = n + 1 THEN Next1(s) ELSE F[s]]
  <2>2. \A s \in D : s # {} => Next1(s) \in V
    <3> SUFFICES ASSUME NEW s \in D, s # {} PROVE Next1(s) \in V
      OBVIOUS
    <3>1. F[s \ {c[s]}] \in V
      BY <1>2, <2>1
    <3> QED
      BY <3>1
  <2>3. \A s \in D : Cardinality(s) = n + 1 => s # {}
    BY <1>1, <1>4
  <2>4. G \in [D -> V]
    <3> HIDE DEF Next1
    <3> QED
      BY <2>1, <2>2, <2>3
  <2>5. \A s \in D : G[s] = IF Cardinality(s) = n + 1 THEN Next1(s) ELSE F[s]
    OBVIOUS
  <2> HIDE DEF G
  <2>6. G[{}] = b
    BY <2>1, <2>3, <2>5
  <2>7. ASSUME NEW s \in D, s # {}, Cardinality(s) <= n + 1
        PROVE  G[s] = g[<<s, G[s \ {c[s]}]>>]
    <3>1. Cardinality(s) \in Nat
      BY <1>1
    <3>2. G[s \ {c[s]}] = F[s \ {c[s]}]
      <4>1. s \ {c[s]} \in D /\ Cardinality(s \ {c[s]}) # n + 1
        BY <1>2, <1>4, <2>7, <3>1
      <4> QED
        BY <2>5, <4>1
    <3>3. G[s] = Next1(s)
      <4>1. CASE Cardinality(s) = n + 1
        BY <2>5, <4>1
      <4>2. CASE Cardinality(s) # n + 1
        <5>1. Cardinality(s) <= n
          BY <1>4, <2>7, <3>1, <4>2
        <5> QED
          BY <2>1, <2>5, <2>7, <4>2, <5>1
      <4> QED
        BY <4>1, <4>2
    <3> QED
      BY <3>2, <3>3
  <2>8. Good(n + 1, G)
    BY <2>4, <2>6, <2>7
  <2>9. \E H : Good(n + 1, H)
    BY <2>8
  <2> HIDE DEF Good
  <2> QED
    BY <1>4, <2>9
<1> HIDE DEF N
<1>5. Nat \subseteq N
  BY <1>3, <1>4, NaturalsReached
<1>6. Cardinality(S) \in N
  BY <1>5, FS_CardinalityType
<1>7. PICK F : Good(Cardinality(S), F)
  BY <1>6 DEF N
<1>8. \A s \in D : s # {} => F[s] = g[<<s, F[s \ {c[s]}]>>]
  BY <1>1, <1>7
<1> QED
  BY <1>7, <1>8 DEF Folded

Summing(f, S, F) ==
  F = [s \in SUBSET S |->
        IF s = {} THEN 0
        ELSE LET x == CHOOSE x \in s : TRUE IN f[x] + F[s \ {x}]]

LEMMA SumExpands ==
  ASSUME NEW f, NEW S, \E F : Summing(f, S, F)
  PROVE  \E F : Summing(f, S, F) /\ SumFunctionOnSet(f, S) = F[S]
<1> DEFINE F == CHOOSE F : Summing(f, S, F)
<1>1. Summing(f, S, F)
  OBVIOUS
<1>2. SumFunctionOnSet(f, S) = F[S]
  BY DEF SumFunctionOnSet, FoldFunctionOnSet, MapThenFoldSet, Summing
<1> QED
  BY <1>1, <1>2

\* What FoldSet chooses of a set.
Choice(S) == [s \in SUBSET S |-> CHOOSE x \in s : TRUE]

\* An operation whose terms may be added in any order.
AddsUp(add, V) ==
  /\ add \in [V \X V -> V]
  /\ \A x, y, z \in V : add[<<add[<<x, y>>], z>>] = add[<<add[<<x, z>>], y>>]

Adds(F, S, V, c, f, add) ==
  /\ IsFiniteSet(S) /\ AddsUp(add, V)
  /\ \A s \in SUBSET S : s # {} => c[s] \in s
  /\ \A x \in S : f[x] \in V
  /\ F \in [SUBSET S -> V]
  /\ \A s \in SUBSET S : s # {} => F[s] = add[<<F[s \ {c[s]}], f[c[s]]>>]

\* A sum is the same in whatever order its terms are added.
LEMMA AnyOrder ==
  ASSUME NEW S, NEW V, NEW c, NEW f, NEW add, NEW F, Adds(F, S, V, c, f, add)
  PROVE  \A s \in SUBSET S : \A x \in s : F[s] = add[<<F[s \ {x}], f[x]>>]
<1> DEFINE good == {s \in SUBSET S : \A x \in s : F[s] = add[<<F[s \ {x}], f[x]>>]}
<1>0. /\ IsFiniteSet(S) /\ AddsUp(add, V)
      /\ \A s \in SUBSET S : s # {} => c[s] \in s
      /\ \A x \in S : f[x] \in V
      /\ F \in [SUBSET S -> V]
      /\ \A s \in SUBSET S : s # {} => F[s] = add[<<F[s \ {c[s]}], f[c[s]]>>]
  BY DEF Adds
<1>1. {} \in good
  OBVIOUS
<1>2. ASSUME NEW s \in SUBSET S, s # {}, \A x \in s : s \ {x} \in good PROVE s \in good
  <2> SUFFICES ASSUME NEW x \in s, x # c[s] PROVE F[s] = add[<<F[s \ {x}], f[x]>>]
    BY <1>0, <1>2
  <2> DEFINE y == c[s]  r == (s \ {x}) \ {y}
  <2>1. y \in s /\ y # x /\ s \ {y} \in SUBSET S /\ s \ {x} \in SUBSET S /\ r \in SUBSET S
    BY <1>0, <1>2
  <2>2. F[s] = add[<<F[s \ {y}], f[y]>>]
    BY <1>0, <1>2
  <2>3. x \in s \ {y} /\ y \in s \ {x} /\ (s \ {y}) \ {x} = r
    BY <2>1
  <2>4. F[s \ {y}] = add[<<F[r], f[x]>>]
    <3>1. s \ {y} \in good
      BY <1>2, <2>1
    <3> QED
      BY <2>3, <3>1
  <2>5. F[s \ {x}] = add[<<F[r], f[y]>>]
    <3>1. s \ {x} \in good
      BY <1>2
    <3> QED
      BY <2>3, <3>1
  <2>6. F[r] \in V /\ f[x] \in V /\ f[y] \in V
    BY <1>0, <2>1
  <2> HIDE DEF y, r
  <2> QED
    BY <1>0, <2>2, <2>4, <2>5, <2>6 DEF AddsUp
<1>3. SUBSET S \subseteq good
  <2> HIDE DEF good
  <2> QED
    <3>1. \A s \in SUBSET S : s # {} /\ (\A x \in s : s \ {x} \in good) => s \in good
      BY <1>2
    <3>2. IsFiniteSet(S)
      BY <1>0
    <3> QED
      BY ONLY <3>2, <1>1, <3>1, SubsetsReached
<1> QED
  BY <1>3

\* The sums that FoldSet and SumFunctionOnSet make.
AmountSum(f, S, F) ==
  F = [s \in SUBSET S |->
        IF s = {} THEN Whole(0)
        ELSE LET x == CHOOSE x \in s : TRUE IN Plus(F[s \ {x}], f[x])]

LEMMA TotalExpands ==
  ASSUME NEW f, NEW S, \E F : AmountSum(f, S, F)
  PROVE  \E F : AmountSum(f, S, F) /\ Total(f, S) = F[S]
<1> DEFINE F == CHOOSE F : AmountSum(f, S, F)
<1>1. AmountSum(f, S, F)
  OBVIOUS
<1>2. Total(f, S) = F[S]
  BY DEF Total, FoldSet, MapThenFoldSet, AmountSum
<1> QED
  BY <1>1, <1>2

AmountAdd == [p \in Amount \X Amount |-> Plus(p[1], p[2])]

LEMMA AmountAdds ==
  /\ AddsUp(AmountAdd, Amount)
  /\ \A x, y \in Amount : AmountAdd[<<x, y>>] = Plus(x, y)
<1>1. \A x, y \in Amount : AmountAdd[<<x, y>>] = Plus(x, y) /\ Plus(x, y) \in Amount
  BY PlusIs DEF AmountAdd
<1>2. AmountAdd \in [Amount \X Amount -> Amount]
  <2>1. \A p \in Amount \X Amount : Plus(p[1], p[2]) \in Amount
    BY PlusIs
  <2> QED
    BY <2>1 DEF AmountAdd
<1>3. ASSUME NEW x \in Amount, NEW y \in Amount, NEW z \in Amount
      PROVE  AmountAdd[<<AmountAdd[<<x, y>>], z>>] = AmountAdd[<<AmountAdd[<<x, z>>], y>>]
  <2>1. Plus(Plus(x, y), z) = Plus(x, Plus(y, z)) /\ Plus(Plus(x, z), y) = Plus(x, Plus(z, y))
    BY PlusAssociates
  <2>2. Plus(y, z) = Plus(z, y)
    BY PlusIs
  <2> HIDE DEF AmountAdd
  <2> QED
    BY <1>1, <2>1, <2>2
<1> QED
  BY <1>1, <1>2, <1>3 DEF AddsUp

IntAdd == [p \in Int \X Int |-> p[2] + p[1]]

LEMMA IntAdds ==
  /\ AddsUp(IntAdd, Int)
  /\ \A x, y \in Int : IntAdd[<<x, y>>] = y + x
<1>1. \A x, y \in Int : IntAdd[<<x, y>>] = y + x
  BY DEF IntAdd
<1>2. IntAdd \in [Int \X Int -> Int]
  BY DEF IntAdd
<1>3. ASSUME NEW x \in Int, NEW y \in Int, NEW z \in Int
      PROVE  IntAdd[<<IntAdd[<<x, y>>], z>>] = IntAdd[<<IntAdd[<<x, z>>], y>>]
  <2> HIDE DEF IntAdd
  <2> QED
    BY <1>1
<1> QED
  BY <1>1, <1>2, <1>3 DEF AddsUp

\* There is a sum of the terms of every part of a set.
LEMMA SumExists ==
  ASSUME NEW S, IsFiniteSet(S), NEW V, NEW b \in V, NEW f, \A x \in S : f[x] \in V,
         NEW add, AddsUp(add, V)
  PROVE  \E F : F[{}] = b /\ Adds(F, S, V, Choice(S), f, add)
<1> DEFINE c == Choice(S)
           g == [p \in (SUBSET S) \X V |->
                  IF p[1] = {} THEN p[2] ELSE add[<<p[2], f[c[p[1]]]>>]]
<1>1. \A s \in SUBSET S : s # {} => c[s] \in s /\ f[c[s]] \in V
  <2>1. \A s \in SUBSET S : s # {} => c[s] \in s
    BY DEF Choice
  <2> HIDE DEF c
  <2> QED
    BY <2>1
<1> HIDE DEF c
<1>2. /\ g \in [(SUBSET S) \X V -> V]
      /\ \A s \in SUBSET S, a \in V : s # {} => g[<<s, a>>] = add[<<a, f[c[s]]>>]
  <2>1. \A a, d \in V : add[<<a, d>>] \in V
    BY DEF AddsUp
  <2>2. \A p \in (SUBSET S) \X V : p[1] \in SUBSET S /\ p[2] \in V
    OBVIOUS
  <2>3. \A p \in (SUBSET S) \X V :
          (IF p[1] = {} THEN p[2] ELSE add[<<p[2], f[c[p[1]]]>>]) \in V
    BY <1>1, <2>1, <2>2
  <2> QED
    BY <2>3
<1> HIDE DEF g
<1>3. PICK F : Folded(F, S, V, b, c, g)
  <2>1. \A s \in SUBSET S : s # {} => c[s] \in s
    BY <1>1
  <2> QED
    BY ONLY IsFiniteSet(S), b \in V, <2>1, <1>2, FoldExists
<1>4. F \in [SUBSET S -> V] /\ F[{}] = b
  BY <1>3 DEF Folded
<1>5. \A s \in SUBSET S : s # {} => F[s] = add[<<F[s \ {c[s]}], f[c[s]]>>]
  <2>1. \A s \in SUBSET S : F[s \ {c[s]}] \in V
    BY <1>4
  <2> QED
    BY <1>2, <1>3, <2>1 DEF Folded
<1>6. Adds(F, S, V, c, f, add)
  BY <1>1, <1>4, <1>5 DEF Adds
<1> QED
  BY <1>4, <1>6 DEF c

\* The sum of a part is the same, made of the part or of the whole.
LEMMA SumsAgree ==
  ASSUME NEW S, NEW T \in SUBSET S, NEW V, NEW W, NEW f, NEW add, NEW F, NEW G, F[{}] = G[{}],
         Adds(F, S, V, Choice(S), f, add), Adds(G, T, W, Choice(T), f, add)
  PROVE  F[T] = G[T]
<1> DEFINE good == {s \in SUBSET T : F[s] = G[s]}
           c == Choice(S)
           d == Choice(T)
<1>1. \A s \in SUBSET T : s # {} => c[s] \in s /\ d[s] = c[s]
  BY DEF Choice
<1>2. /\ IsFiniteSet(T)
      /\ \A s \in SUBSET T : s # {} => F[s] = add[<<F[s \ {c[s]}], f[c[s]]>>]
      /\ \A s \in SUBSET T : s # {} => G[s] = add[<<G[s \ {d[s]}], f[d[s]]>>]
  <2> HIDE DEF c, d
  <2>1. Adds(F, S, V, c, f, add) /\ Adds(G, T, W, d, f, add)
    BY DEF c, d
  <2>2. \A s \in SUBSET T : s \in SUBSET S
    OBVIOUS
  <2> QED
    BY <2>1, <2>2 DEF Adds
<1> HIDE DEF c, d
<1>3. {} \in good
  OBVIOUS
<1>4. \A s \in SUBSET T : s # {} /\ (\A x \in s : s \ {x} \in good) => s \in good
  <2> SUFFICES ASSUME NEW s \in SUBSET T, s # {}, \A x \in s : s \ {x} \in good
               PROVE  F[s] = G[s]
    OBVIOUS
  <2>1. F[s \ {c[s]}] = G[s \ {c[s]}]
    BY <1>1
  <2>2. F[s] = add[<<F[s \ {c[s]}], f[c[s]]>>]
    BY <1>2
  <2>3. G[s] = add[<<G[s \ {c[s]}], f[c[s]]>>]
    BY <1>1, <1>2
  <2> QED
    BY <2>1, <2>2, <2>3
<1>5. SUBSET T \subseteq good
  <2> HIDE DEF good
  <2>1. IsFiniteSet(T)
    BY <1>2
  <2> QED
    BY ONLY <1>3, <1>4, <2>1, SubsetsReached
<1> QED
  BY <1>5

\* Sums of fractions, term by term.
LEMMA TotalAmount ==
  ASSUME NEW S, IsFiniteSet(S), NEW f, \A x \in S : f[x] \in Amount
  PROVE  /\ Total(f, {}) = Whole(0) /\ Total(f, S) \in Amount
         /\ \A x \in S : Total(f, S) = Plus(Total(f, S \ {x}), f[x])
<1>1. ASSUME NEW T \in SUBSET S
      PROVE  \E F : /\ F[{}] = Whole(0) /\ Total(f, T) = F[T]
                    /\ Adds(F, T, Amount, Choice(T), f, AmountAdd)
  <2>1. IsFiniteSet(T) /\ Whole(0) \in Amount /\ AddsUp(AmountAdd, Amount)
    BY FS_Subset, WholeAmount, AmountAdds
  <2>2. PICK F : F[{}] = Whole(0) /\ Adds(F, T, Amount, Choice(T), f, AmountAdd)
    <3>1. \A x \in T : f[x] \in Amount
      OBVIOUS
    <3> QED
      BY ONLY <2>1, <3>1, SumExists
  <2>3. AmountSum(f, T, F)
    <3>1. \A s \in SUBSET T : s # {} => F[s] = Plus(F[s \ {Choice(T)[s]}], f[Choice(T)[s]])
      <4> SUFFICES ASSUME NEW s \in SUBSET T, s # {}
                   PROVE  F[s] = Plus(F[s \ {Choice(T)[s]}], f[Choice(T)[s]])
        OBVIOUS
      <4> DEFINE x == Choice(T)[s]
      <4>1. x \in s /\ F[s] = AmountAdd[<<F[s \ {x}], f[x]>>] /\ f[x] \in Amount
        BY <2>2 DEF Adds
      <4>2. F[s \ {x}] \in Amount
        <5>1. F \in [SUBSET T -> Amount]
          BY <2>2 DEF Adds
        <5> HIDE DEF x
        <5> QED
          BY <5>1
      <4> HIDE DEF x
      <4>3. F[s] = Plus(F[s \ {x}], f[x])
        BY <4>1, <4>2, AmountAdds
      <4> QED
        BY <4>3 DEF x
    <3>2. \A s \in SUBSET T : Choice(T)[s] = CHOOSE x \in s : TRUE
      BY DEF Choice
    <3>3. \A s \in SUBSET T : s # {} =>
            F[s] = LET x == CHOOSE x \in s : TRUE IN Plus(F[s \ {x}], f[x])
      BY <3>1, <3>2
    <3>4. F = [s \in SUBSET T |-> F[s]]
      BY <2>2 DEF Adds
    <3> QED
      BY <2>2, <3>3, <3>4 DEF AmountSum
  <2>4. PICK G : AmountSum(f, T, G) /\ Total(f, T) = G[T]
    BY <2>3, TotalExpands
  <2> DEFINE good == {s \in SUBSET T : F[s] = G[s]}
  <2>5. SUBSET T \subseteq good
    <3>1. {} \in good
      BY <2>3, <2>4 DEF AmountSum
    <3>2. \A s \in SUBSET T : s # {} /\ (\A x \in s : s \ {x} \in good) => s \in good
      <4> SUFFICES ASSUME NEW s \in SUBSET T, s # {}, \A x \in s : s \ {x} \in good
                   PROVE  F[s] = G[s]
        OBVIOUS
      <4> DEFINE x == CHOOSE x \in s : TRUE
      <4>1. F[s \ {x}] = G[s \ {x}]
        OBVIOUS
      <4>2. F[s] = Plus(F[s \ {x}], f[x])
        BY <2>3 DEF AmountSum
      <4>3. G[s] = Plus(G[s \ {x}], f[x])
        BY <2>4 DEF AmountSum
      <4> QED
        BY <4>1, <4>2, <4>3
    <3> HIDE DEF good
    <3> QED
      BY ONLY <2>1, <3>1, <3>2, SubsetsReached
  <2>6. Total(f, T) = F[T]
    BY <2>4, <2>5
  <2> QED
    BY <2>2, <2>6
<1>2. PICK F : /\ F[{}] = Whole(0) /\ Total(f, S) = F[S]
               /\ Adds(F, S, Amount, Choice(S), f, AmountAdd)
  BY <1>1
<1>3. \A T \in SUBSET S : Total(f, T) = F[T]
  <2> SUFFICES ASSUME NEW T \in SUBSET S PROVE Total(f, T) = F[T]
    OBVIOUS
  <2>1. PICK G : /\ G[{}] = Whole(0) /\ Total(f, T) = G[T]
                 /\ Adds(G, T, Amount, Choice(T), f, AmountAdd)
    BY <1>1
  <2>2. F[T] = G[T]
    BY <1>2, <2>1, SumsAgree
  <2> QED
    BY <2>1, <2>2
<1>4. \A x \in S : F[S] = AmountAdd[<<F[S \ {x}], f[x]>>]
  <2>1. \A s \in SUBSET S : \A x \in s : F[s] = AmountAdd[<<F[s \ {x}], f[x]>>]
    <3> DEFINE d == Choice(S)
    <3>1. Adds(F, S, Amount, d, f, AmountAdd)
      BY <1>2
    <3> HIDE DEF d
    <3> QED
      BY ONLY <3>1, AnyOrder
  <2> QED
    BY <2>1
<1>5. F \in [SUBSET S -> Amount]
  BY <1>2 DEF Adds
<1>6. \A x \in S : F[S] = Plus(F[S \ {x}], f[x])
  <2> SUFFICES ASSUME NEW x \in S PROVE F[S] = Plus(F[S \ {x}], f[x])
    OBVIOUS
  <2>1. F[S \ {x}] \in Amount
    BY <1>5
  <2> QED
    BY <1>4, <2>1, AmountAdds
<1> QED
  BY <1>2, <1>3, <1>5, <1>6

LEMMA SumIs ==
  ASSUME NEW S, IsFiniteSet(S), NEW f, \A x \in S : f[x] \in Int
  PROVE  /\ SumFunctionOnSet(f, {}) = 0 /\ SumFunctionOnSet(f, S) \in Int
         /\ \A x \in S : SumFunctionOnSet(f, S) = f[x] + SumFunctionOnSet(f, S \ {x})
<1>1. ASSUME NEW T \in SUBSET S
      PROVE  \E F : /\ F[{}] = 0 /\ SumFunctionOnSet(f, T) = F[T]
                    /\ Adds(F, T, Int, Choice(T), f, IntAdd)
  <2>1. IsFiniteSet(T) /\ 0 \in Int /\ AddsUp(IntAdd, Int)
    BY FS_Subset, IntAdds
  <2>2. PICK F : F[{}] = 0 /\ Adds(F, T, Int, Choice(T), f, IntAdd)
    <3>1. \A x \in T : f[x] \in Int
      OBVIOUS
    <3> QED
      BY ONLY <2>1, <3>1, SumExists
  <2>3. Summing(f, T, F)
    <3>1. \A s \in SUBSET T : s # {} => F[s] = f[Choice(T)[s]] + F[s \ {Choice(T)[s]}]
      <4> SUFFICES ASSUME NEW s \in SUBSET T, s # {}
                   PROVE  F[s] = f[Choice(T)[s]] + F[s \ {Choice(T)[s]}]
        OBVIOUS
      <4> DEFINE x == Choice(T)[s]
      <4>1. x \in s /\ F[s] = IntAdd[<<F[s \ {x}], f[x]>>] /\ f[x] \in Int
        BY <2>2 DEF Adds
      <4>2. F[s \ {x}] \in Int
        <5>1. F \in [SUBSET T -> Int]
          BY <2>2 DEF Adds
        <5> HIDE DEF x
        <5> QED
          BY <5>1
      <4> HIDE DEF x
      <4>3. F[s] = f[x] + F[s \ {x}]
        BY <4>1, <4>2, IntAdds
      <4> QED
        BY <4>3 DEF x
    <3>2. \A s \in SUBSET T : Choice(T)[s] = CHOOSE x \in s : TRUE
      BY DEF Choice
    <3>3. \A s \in SUBSET T : s # {} =>
            F[s] = LET x == CHOOSE x \in s : TRUE IN f[x] + F[s \ {x}]
      BY <3>1, <3>2
    <3>4. F = [s \in SUBSET T |-> F[s]]
      BY <2>2 DEF Adds
    <3> QED
      BY <2>2, <3>3, <3>4 DEF Summing
  <2>4. PICK G : Summing(f, T, G) /\ SumFunctionOnSet(f, T) = G[T]
    BY <2>3, SumExpands
  <2> DEFINE good == {s \in SUBSET T : F[s] = G[s]}
  <2>5. SUBSET T \subseteq good
    <3>1. {} \in good
      BY <2>3, <2>4 DEF Summing
    <3>2. \A s \in SUBSET T : s # {} /\ (\A x \in s : s \ {x} \in good) => s \in good
      <4> SUFFICES ASSUME NEW s \in SUBSET T, s # {}, \A x \in s : s \ {x} \in good
                   PROVE  F[s] = G[s]
        OBVIOUS
      <4> DEFINE x == CHOOSE x \in s : TRUE
      <4>1. F[s \ {x}] = G[s \ {x}]
        OBVIOUS
      <4>2. F[s] = f[x] + F[s \ {x}]
        BY <2>3 DEF Summing
      <4>3. G[s] = f[x] + G[s \ {x}]
        BY <2>4 DEF Summing
      <4> QED
        BY <4>1, <4>2, <4>3
    <3> HIDE DEF good
    <3> QED
      BY ONLY <2>1, <3>1, <3>2, SubsetsReached
  <2>6. SumFunctionOnSet(f, T) = F[T]
    BY <2>4, <2>5
  <2> QED
    BY <2>2, <2>6
<1>2. PICK F : /\ F[{}] = 0 /\ SumFunctionOnSet(f, S) = F[S]
               /\ Adds(F, S, Int, Choice(S), f, IntAdd)
  BY <1>1
<1>3. \A T \in SUBSET S : SumFunctionOnSet(f, T) = F[T]
  <2> SUFFICES ASSUME NEW T \in SUBSET S PROVE SumFunctionOnSet(f, T) = F[T]
    OBVIOUS
  <2>1. PICK G : /\ G[{}] = 0 /\ SumFunctionOnSet(f, T) = G[T]
                 /\ Adds(G, T, Int, Choice(T), f, IntAdd)
    BY <1>1
  <2>2. F[T] = G[T]
    BY <1>2, <2>1, SumsAgree
  <2> QED
    BY <2>1, <2>2
<1>4. \A x \in S : F[S] = IntAdd[<<F[S \ {x}], f[x]>>]
  <2>1. \A s \in SUBSET S : \A x \in s : F[s] = IntAdd[<<F[s \ {x}], f[x]>>]
    <3> DEFINE d == Choice(S)
    <3>1. Adds(F, S, Int, d, f, IntAdd)
      BY <1>2
    <3> HIDE DEF d
    <3> QED
      BY ONLY <3>1, AnyOrder
  <2> QED
    BY <2>1
<1>5. F \in [SUBSET S -> Int]
  BY <1>2 DEF Adds
<1>6. \A x \in S : F[S] = f[x] + F[S \ {x}]
  <2> SUFFICES ASSUME NEW x \in S PROVE F[S] = f[x] + F[S \ {x}]
    OBVIOUS
  <2>1. F[S \ {x}] \in Int
    BY <1>5
  <2> QED
    BY <1>4, <2>1, IntAdds
<1> QED
  BY <1>2, <1>3, <1>5, <1>6

LEMMA PlusShuffle ==
  ASSUME NEW a \in Amount, NEW b \in Amount, NEW p \in Amount, NEW q \in Amount
  PROVE  Plus(Plus(a, b), Plus(p, q)) = Plus(Plus(a, p), Plus(b, q))
<1>1. \A x, y \in Amount : Plus(x, y) \in Amount
  BY PlusIs
<1>2. Plus(Plus(a, b), Plus(p, q)) = Plus(a, Plus(b, Plus(p, q)))
  BY <1>1, PlusAssociates
<1>3. Plus(b, Plus(p, q)) = Plus(Plus(b, p), q) /\ Plus(Plus(p, b), q) = Plus(p, Plus(b, q))
  BY PlusAssociates
<1>4. Plus(b, p) = Plus(p, b)
  BY PlusIs
<1>5. Plus(a, Plus(p, Plus(b, q))) = Plus(Plus(a, p), Plus(b, q))
  BY <1>1, PlusAssociates
<1> QED
  BY <1>2, <1>3, <1>4, <1>5

LEMMA TotalSame ==
  ASSUME NEW S, IsFiniteSet(S), NEW f, NEW g, \A x \in S : f[x] \in Amount /\ g[x] = f[x]
  PROVE  Total(g, S) = Total(f, S)
<1> DEFINE good == {s \in SUBSET S : Total(g, s) = Total(f, s)}
<1>1. {} \in good
  <2>1. IsFiniteSet({}) /\ (\A x \in {} : f[x] \in Amount) /\ (\A x \in {} : g[x] \in Amount)
    BY FS_EmptySet
  <2>2. Total(g, {}) = Whole(0) /\ Total(f, {}) = Whole(0)
    BY ONLY <2>1, TotalAmount
  <2> QED
    BY <2>2
<1>2. \A s \in SUBSET S : s # {} /\ (\A x \in s : s \ {x} \in good) => s \in good
  <2> SUFFICES ASSUME NEW s \in SUBSET S, s # {}, \A x \in s : s \ {x} \in good
               PROVE  Total(g, s) = Total(f, s)
    OBVIOUS
  <2>1. PICK x \in s : Total(g, s \ {x}) = Total(f, s \ {x})
    OBVIOUS
  <2>2. IsFiniteSet(s) /\ (\A y \in s : f[y] \in Amount) /\ (\A y \in s : g[y] \in Amount)
    BY FS_Subset
  <2>3. /\ Total(f, s) = Plus(Total(f, s \ {x}), f[x])
        /\ Total(g, s) = Plus(Total(g, s \ {x}), g[x])
    BY ONLY x \in s, <2>2, TotalAmount
  <2>4. g[x] = f[x]
    OBVIOUS
  <2> QED
    BY <2>1, <2>3, <2>4
<1>3. SUBSET S \subseteq good
  <2> HIDE DEF good
  <2> QED
    BY ONLY IsFiniteSet(S), <1>1, <1>2, SubsetsReached
<1> QED
  BY <1>3

LEMMA TotalPlus ==
  ASSUME NEW S, IsFiniteSet(S), NEW f, NEW g, NEW h,
         \A x \in S : f[x] \in Amount /\ g[x] \in Amount /\ h[x] = Plus(f[x], g[x])
  PROVE  Total(h, S) = Plus(Total(f, S), Total(g, S))
<1> DEFINE good == {s \in SUBSET S : Total(h, s) = Plus(Total(f, s), Total(g, s))}
<1>0. \A x \in S : h[x] \in Amount
  BY PlusIs
<1>1. {} \in good
  <2>1. /\ IsFiniteSet({}) /\ (\A x \in {} : f[x] \in Amount) /\ (\A x \in {} : g[x] \in Amount)
        /\ (\A x \in {} : h[x] \in Amount)
    BY FS_EmptySet
  <2>2. Total(h, {}) = Whole(0) /\ Total(g, {}) = Whole(0) /\ Total(f, {}) = Whole(0)
    BY ONLY <2>1, TotalAmount
  <2> QED
    BY <2>2, WholeAmount, ZeroIs
<1>2. \A s \in SUBSET S : s # {} /\ (\A x \in s : s \ {x} \in good) => s \in good
  <2> SUFFICES ASSUME NEW s \in SUBSET S, s # {}, \A x \in s : s \ {x} \in good
               PROVE  Total(h, s) = Plus(Total(f, s), Total(g, s))
    OBVIOUS
  <2>1. PICK x \in s : Total(h, s \ {x}) = Plus(Total(f, s \ {x}), Total(g, s \ {x}))
    OBVIOUS
  <2>2. /\ IsFiniteSet(s) /\ (\A y \in s : f[y] \in Amount) /\ (\A y \in s : g[y] \in Amount)
        /\ (\A y \in s : h[y] \in Amount)
    BY <1>0, FS_Subset
  <2> DEFINE a == Total(f, s \ {x})  b == Total(g, s \ {x})  p == f[x]  q == g[x]
  <2>3. /\ Total(f, s) = Plus(a, p)
        /\ Total(g, s) = Plus(b, q)
        /\ Total(h, s) = Plus(Total(h, s \ {x}), h[x])
    BY ONLY x \in s, <2>2, TotalAmount
  <2>4. a \in Amount /\ b \in Amount /\ p \in Amount /\ q \in Amount
    <3>1. IsFiniteSet(s \ {x}) /\ (\A y \in s \ {x} : f[y] \in Amount /\ g[y] \in Amount)
      BY <2>2, FS_Subset
    <3>2. a \in Amount /\ b \in Amount
      BY ONLY <3>1, TotalAmount
    <3> QED
      BY <2>2, <3>2
  <2>5. Total(h, s \ {x}) = Plus(a, b) /\ h[x] = Plus(p, q)
    BY <2>1
  <2> HIDE DEF a, b, p, q
  <2>6. Plus(Plus(a, b), Plus(p, q)) = Plus(Plus(a, p), Plus(b, q))
    BY <2>4, PlusShuffle
  <2> QED
    BY <2>3, <2>5, <2>6
<1>3. SUBSET S \subseteq good
  <2> HIDE DEF good
  <2> QED
    BY ONLY IsFiniteSet(S), <1>1, <1>2, SubsetsReached
<1> QED
  BY <1>3

LEMMA TotalZeros ==
  ASSUME NEW S, IsFiniteSet(S), NEW f, NEW T \in SUBSET S, \A x \in S : f[x] \in Amount,
         \A x \in S \ T : f[x] = Whole(0)
  PROVE  Total(f, S) = Total(f, T)
<1> DEFINE good == {s \in SUBSET S : Total(f, s) = Total(f, s \cap T)}
<1>1. {} \in good
  OBVIOUS
<1>2. \A s \in SUBSET S : s # {} /\ (\A x \in s : s \ {x} \in good) => s \in good
  <2> SUFFICES ASSUME NEW s \in SUBSET S, s # {}, \A x \in s : s \ {x} \in good
               PROVE  Total(f, s) = Total(f, s \cap T)
    OBVIOUS
  <2>1. PICK x \in s : Total(f, s \ {x}) = Total(f, (s \ {x}) \cap T)
    OBVIOUS
  <2>2. IsFiniteSet(s) /\ (\A y \in s : f[y] \in Amount)
    BY FS_Subset
  <2>3. IsFiniteSet(s \cap T) /\ (\A y \in s \cap T : f[y] \in Amount)
    BY <2>2, FS_Subset
  <2>4. Total(f, s) = Plus(Total(f, s \ {x}), f[x])
    BY ONLY x \in s, <2>2, TotalAmount
  <2>5. CASE x \in T
    <3>1. x \in s \cap T /\ (s \cap T) \ {x} = (s \ {x}) \cap T
      BY <2>5
    <3>2. Total(f, s \cap T) = Plus(Total(f, (s \cap T) \ {x}), f[x])
      BY ONLY <2>3, <3>1, TotalAmount
    <3> QED
      BY <2>1, <2>4, <3>1, <3>2
  <2>6. CASE x \notin T
    <3>1. f[x] = Whole(0) /\ (s \ {x}) \cap T = s \cap T
      BY <2>6
    <3>2. IsFiniteSet(s \ {x}) /\ (\A y \in s \ {x} : f[y] \in Amount)
      BY <2>2, FS_Subset
    <3>3. Total(f, s \ {x}) \in Amount
      BY ONLY <3>2, TotalAmount
    <3> QED
      BY <2>1, <2>4, <3>1, <3>3, ZeroIs
  <2> QED
    BY <2>5, <2>6
<1>3. SUBSET S \subseteq good
  <2> HIDE DEF good
  <2> QED
    BY ONLY IsFiniteSet(S), <1>1, <1>2, SubsetsReached
<1>4. S \cap T = T
  OBVIOUS
<1> QED
  BY <1>3, <1>4

\* A sum of whole numbers.
LEMMA SumWhole ==
  ASSUME NEW S, IsFiniteSet(S), NEW f, NEW g, \A x \in S : f[x] \in Int /\ g[x] = Whole(f[x])
  PROVE  Total(g, S) = Whole(SumFunctionOnSet(f, S)) /\ SumFunctionOnSet(f, S) \in Int
<1> DEFINE good == {s \in SUBSET S : Total(g, s) = Whole(SumFunctionOnSet(f, s))}
<1>0. \A x \in S : g[x] \in Amount
  BY WholeAmount
<1>1. {} \in good
  <2>1. IsFiniteSet({}) /\ (\A x \in {} : g[x] \in Amount) /\ (\A x \in {} : f[x] \in Int)
    BY FS_EmptySet
  <2>2. Total(g, {}) = Whole(0)
    BY ONLY <2>1, TotalAmount
  <2>3. SumFunctionOnSet(f, {}) = 0
    BY ONLY <2>1, SumIs
  <2> QED
    BY <2>2, <2>3
<1>2. \A s \in SUBSET S : s # {} /\ (\A x \in s : s \ {x} \in good) => s \in good
  <2> SUFFICES ASSUME NEW s \in SUBSET S, s # {}, \A x \in s : s \ {x} \in good
               PROVE  Total(g, s) = Whole(SumFunctionOnSet(f, s))
    OBVIOUS
  <2>1. PICK x \in s : Total(g, s \ {x}) = Whole(SumFunctionOnSet(f, s \ {x}))
    OBVIOUS
  <2>2. IsFiniteSet(s) /\ (\A y \in s : g[y] \in Amount) /\ (\A y \in s : f[y] \in Int)
    BY <1>0, FS_Subset
  <2>3. Total(g, s) = Plus(Total(g, s \ {x}), g[x])
    BY ONLY x \in s, <2>2, TotalAmount
  <2>4. SumFunctionOnSet(f, s) = f[x] + SumFunctionOnSet(f, s \ {x})
    BY ONLY x \in s, <2>2, SumIs
  <2>5. SumFunctionOnSet(f, s \ {x}) \in Int
    <3>1. IsFiniteSet(s \ {x}) /\ (\A y \in s \ {x} : f[y] \in Int)
      BY <2>2, FS_Subset
    <3> QED
      BY ONLY <3>1, SumIs
  <2> DEFINE m == SumFunctionOnSet(f, s \ {x})  n == f[x]
  <2>6. g[x] = Whole(n) /\ n \in Int /\ m \in Int
    BY <2>5
  <2> HIDE DEF m, n
  <2>7. Plus(Whole(m), Whole(n)) = Whole(m + n) /\ m + n = n + m
    BY <2>6, WholesAdd
  <2>8. Total(g, s) = Plus(Whole(m), Whole(n))
    BY <2>1, <2>3, <2>6 DEF m
  <2>9. SumFunctionOnSet(f, s) = n + m
    BY <2>4 DEF m, n
  <2> QED
    BY <2>7, <2>8, <2>9
<1>3. SUBSET S \subseteq good
  <2> HIDE DEF good
  <2> QED
    BY ONLY IsFiniteSet(S), <1>1, <1>2, SubsetsReached
<1>4. SumFunctionOnSet(f, S) \in Int
  <2>1. \A x \in S : f[x] \in Int
    OBVIOUS
  <2> QED
    BY ONLY IsFiniteSet(S), <2>1, SumIs
<1> QED
  BY <1>3, <1>4

LEMMA WholeSame ==
  ASSUME NEW m \in Int, NEW n \in Int, Whole(m) = Whole(n)
  PROVE  m = n
BY DEF Whole

LEMMA SumSame ==
  ASSUME NEW S, IsFiniteSet(S), NEW f, NEW g, \A x \in S : f[x] \in Int /\ g[x] = f[x]
  PROVE  SumFunctionOnSet(g, S) = SumFunctionOnSet(f, S)
<1> DEFINE F == [x \in S |-> Whole(f[x])]
<1>1. \A x \in S : f[x] \in Int /\ F[x] = Whole(f[x])
  OBVIOUS
<1>2. \A x \in S : g[x] \in Int /\ F[x] = Whole(g[x])
  OBVIOUS
<1> HIDE DEF F
<1>3. Total(F, S) = Whole(SumFunctionOnSet(f, S)) /\ SumFunctionOnSet(f, S) \in Int
  BY ONLY IsFiniteSet(S), <1>1, SumWhole
<1>4. Total(F, S) = Whole(SumFunctionOnSet(g, S)) /\ SumFunctionOnSet(g, S) \in Int
  BY ONLY IsFiniteSet(S), <1>2, SumWhole
<1> QED
  BY ONLY <1>3, <1>4, WholeSame, Zenon

LEMMA SumZeros ==
  ASSUME NEW S, IsFiniteSet(S), NEW f, NEW T \in SUBSET S, \A x \in S : f[x] \in Int,
         \A x \in S \ T : f[x] = 0
  PROVE  SumFunctionOnSet(f, S) = SumFunctionOnSet(f, T)
<1> DEFINE F == [x \in S |-> Whole(f[x])]
<1>1. /\ \A x \in S : f[x] \in Int /\ F[x] = Whole(f[x]) /\ F[x] \in Amount
      /\ \A x \in T : f[x] \in Int /\ F[x] = Whole(f[x])
      /\ \A x \in S \ T : F[x] = Whole(0)
  BY WholeAmount
<1>2. IsFiniteSet(T)
  BY FS_Subset
<1> HIDE DEF F
<1>3. Total(F, S) = Whole(SumFunctionOnSet(f, S)) /\ SumFunctionOnSet(f, S) \in Int
  BY ONLY IsFiniteSet(S), <1>1, SumWhole
<1>4. Total(F, T) = Whole(SumFunctionOnSet(f, T)) /\ SumFunctionOnSet(f, T) \in Int
  BY ONLY <1>1, <1>2, SumWhole
<1>5. Total(F, S) = Total(F, T)
  BY ONLY IsFiniteSet(S), T \in SUBSET S, <1>1, TotalZeros
<1> QED
  BY ONLY <1>3, <1>4, <1>5, WholeSame, Zenon

LEMMA SumPlus ==
  ASSUME NEW S, IsFiniteSet(S), NEW f, NEW g, NEW h,
         \A x \in S : f[x] \in Int /\ g[x] \in Int /\ h[x] = f[x] + g[x]
  PROVE  SumFunctionOnSet(h, S) = SumFunctionOnSet(f, S) + SumFunctionOnSet(g, S)
<1> DEFINE F == [x \in S |-> Whole(f[x])]
           G == [x \in S |-> Whole(g[x])]
           H == [x \in S |-> Whole(h[x])]
<1>1. \A x \in S : /\ f[x] \in Int /\ F[x] = Whole(f[x]) /\ F[x] \in Amount
                   /\ g[x] \in Int /\ G[x] = Whole(g[x]) /\ G[x] \in Amount
                   /\ h[x] \in Int /\ H[x] = Whole(h[x]) /\ H[x] = Plus(F[x], G[x])
  <2> SUFFICES ASSUME NEW x \in S
               PROVE  /\ Whole(f[x]) \in Amount /\ Whole(g[x]) \in Amount
                      /\ Whole(h[x]) = Plus(Whole(f[x]), Whole(g[x]))
    OBVIOUS
  <2> DEFINE m == f[x]  n == g[x]
  <2>1. m \in Int /\ n \in Int /\ h[x] = m + n
    OBVIOUS
  <2> HIDE DEF m, n
  <2>2. Whole(m) \in Amount /\ Whole(n) \in Amount /\ Plus(Whole(m), Whole(n)) = Whole(m + n)
    BY <2>1, WholeAmount, WholesAdd
  <2> QED
    BY <2>1, <2>2 DEF m, n
<1> HIDE DEF F, G, H
<1>2. \A x \in S : f[x] \in Int /\ F[x] = Whole(f[x])
  BY <1>1
<1>3. \A x \in S : g[x] \in Int /\ G[x] = Whole(g[x])
  BY <1>1
<1>4. \A x \in S : h[x] \in Int /\ H[x] = Whole(h[x])
  BY <1>1
<1>5. \A x \in S : F[x] \in Amount /\ G[x] \in Amount /\ H[x] = Plus(F[x], G[x])
  BY <1>1
<1>6. Total(F, S) = Whole(SumFunctionOnSet(f, S)) /\ SumFunctionOnSet(f, S) \in Int
  BY ONLY IsFiniteSet(S), <1>2, SumWhole
<1>7. Total(G, S) = Whole(SumFunctionOnSet(g, S)) /\ SumFunctionOnSet(g, S) \in Int
  BY ONLY IsFiniteSet(S), <1>3, SumWhole
<1>8. Total(H, S) = Whole(SumFunctionOnSet(h, S)) /\ SumFunctionOnSet(h, S) \in Int
  BY ONLY IsFiniteSet(S), <1>4, SumWhole
<1>9. Total(H, S) = Plus(Total(F, S), Total(G, S))
  BY ONLY IsFiniteSet(S), <1>5, TotalPlus
<1>10. \A m, n \in Int : Plus(Whole(m), Whole(n)) = Whole(m + n) /\ (Whole(m) = Whole(n) => m = n)
  BY WholesAdd
<1> DEFINE m == SumFunctionOnSet(f, S)  n == SumFunctionOnSet(g, S)  k == SumFunctionOnSet(h, S)
<1>11. m \in Int /\ n \in Int /\ k \in Int /\ m + n \in Int /\ Whole(k) = Plus(Whole(m), Whole(n))
  BY <1>6, <1>7, <1>8, <1>9
<1> HIDE DEF m, n, k
<1>12. k = m + n
  BY ONLY <1>10, <1>11
<1> QED
  BY <1>12 DEF m, n, k

LEMMA SumNat ==
  ASSUME NEW S, IsFiniteSet(S), NEW f, \A x \in S : f[x] \in Nat
  PROVE  SumFunctionOnSet(f, S) \in Nat
<1> DEFINE good == {s \in SUBSET S : SumFunctionOnSet(f, s) \in Nat}
<1>1. {} \in good
  <2>1. IsFiniteSet({}) /\ (\A x \in {} : f[x] \in Int)
    BY FS_EmptySet
  <2>2. SumFunctionOnSet(f, {}) = 0
    BY ONLY <2>1, SumIs
  <2> QED
    BY <2>2
<1>2. \A s \in SUBSET S : s # {} /\ (\A x \in s : s \ {x} \in good) => s \in good
  <2> SUFFICES ASSUME NEW s \in SUBSET S, s # {}, \A x \in s : s \ {x} \in good
               PROVE  SumFunctionOnSet(f, s) \in Nat
    OBVIOUS
  <2>1. PICK x \in s : SumFunctionOnSet(f, s \ {x}) \in Nat
    OBVIOUS
  <2>2. IsFiniteSet(s) /\ (\A y \in s : f[y] \in Int)
    BY FS_Subset
  <2>3. SumFunctionOnSet(f, s) = f[x] + SumFunctionOnSet(f, s \ {x})
    BY ONLY x \in s, <2>2, SumIs
  <2>4. f[x] \in Nat
    OBVIOUS
  <2> QED
    BY <2>1, <2>3, <2>4
<1>3. SUBSET S \subseteq good
  <2> HIDE DEF good
  <2> QED
    BY ONLY IsFiniteSet(S), <1>1, <1>2, SubsetsReached
<1> QED
  BY <1>3

\* Of finitely many things in an order one comes last.
Ordered(R, S) ==
  /\ IsFiniteSet(S)
  /\ \A x, y, z \in S : <<x, y>> \in R /\ <<y, z>> \in R => <<x, z>> \in R
  /\ \A x, y \in S : x # y => <<x, y>> \in R \/ <<y, x>> \in R

LEMMA LastOfOrder ==
  ASSUME NEW R, NEW S, Ordered(R, S), S # {}
  PROVE  \E x \in S : \A y \in S \ {x} : <<y, x>> \in R
<1> DEFINE good == {s \in SUBSET S : s # {} => \E x \in s : \A y \in s \ {x} : <<y, x>> \in R}
<1>1. {} \in good
  OBVIOUS
<1>2. \A s \in SUBSET S : s # {} /\ (\A x \in s : s \ {x} \in good) => s \in good
  <2> SUFFICES ASSUME NEW s \in SUBSET S, s # {}, \A x \in s : s \ {x} \in good
               PROVE  \E x \in s : \A y \in s \ {x} : <<y, x>> \in R
    OBVIOUS
  <2>0. PICK a \in s : s \ {a} \in good
    OBVIOUS
  <2>1. s \ {a} # {} => \E x \in s \ {a} : \A y \in (s \ {a}) \ {x} : <<y, x>> \in R
    BY <2>0
  <2>2. CASE s \ {a} = {}
    BY <2>2
  <2>3. CASE s \ {a} # {}
    <3>1. PICK x \in s \ {a} : \A y \in (s \ {a}) \ {x} : <<y, x>> \in R
      BY <2>1, <2>3
    <3>2. CASE <<a, x>> \in R
      BY <3>1, <3>2
    <3>3. CASE <<x, a>> \in R
      <4>1. ASSUME NEW y \in s \ {a}, y # x PROVE <<y, a>> \in R
        <5>1. <<y, x>> \in R /\ y \in S /\ x \in S /\ a \in S
          BY <3>1, <4>1
        <5> QED
          BY <3>3, <5>1 DEF Ordered
      <4> QED
        BY <3>3, <4>1
    <3>4. <<a, x>> \in R \/ <<x, a>> \in R
      BY DEF Ordered
    <3> QED
      BY <3>2, <3>3, <3>4
  <2> QED
    BY <2>2, <2>3
<1>3. SUBSET S \subseteq good
  <2>1. IsFiniteSet(S)
    BY DEF Ordered
  <2> HIDE DEF good
  <2> QED
    BY ONLY <1>1, <1>2, <2>1, SubsetsReached
<1> QED
  BY <1>3

-----------------------------------------------------------------------------
(* Histories, and what is left of them (CostBasis). *)

\* What a history is made of: events with numbers of their own.
EventSet == [id : Int, asset : Asset, at : Int,
             type : {"acquisition", "reward", "internal_in", "disposition", "internal_out"},
             quantity : Nat \ {0}, value : Amount \cup {None}, fee : Amount]

Proper(E) ==
  /\ IsFiniteSet(E) /\ E \subseteq EventSet
  /\ \A e, f \in E : e.id = f.id => e = f

LEMMA EventIs ==
  ASSUME NEW e \in EventSet
  PROVE  /\ e.id \in Int /\ e.asset \in Asset /\ e.at \in Int /\ e.quantity \in Nat
              /\ e.quantity > 0
         /\ e.fee \in Amount /\ e.value \in Amount \cup {None}
         /\ Cost(e) \in Amount \cup {None} /\ Proceeds(e) \in Amount \cup {None}
<1>1. e.value \in Amount \cup {None} /\ e.fee \in Amount
  BY DEF EventSet
<1>2. Cost(e) \in Amount \cup {None} /\ Proceeds(e) \in Amount \cup {None}
  BY <1>1, PlusIs, MinusIs DEF Cost, Proceeds
<1> QED
  BY <1>1, <1>2 DEF EventSet

LEMMA LaterOrders ==
  ASSUME NEW E, Proper(E)
  PROVE  /\ \A e, f, g \in E : Later(e, f) /\ Later(f, g) => Later(e, g)
         /\ \A e, f \in E : e # f => (Later(e, f) <=> ~ Later(f, e))
         /\ \A e \in E : ~ Later(e, e)
<1>1. \A e \in E : e.id \in Int /\ e.at \in Int
  BY EventIs DEF Proper
<1>2. \A e, f \in E : e.id = f.id => e = f
  BY DEF Proper
<1> QED
  BY <1>1, <1>2 DEF Later

LEMMA ProperPart ==
  ASSUME NEW E, Proper(E), NEW S \in SUBSET E
  PROVE  Proper(S) /\ IsFiniteSet(S) /\ IsFiniteSet(E)
BY FS_Subset DEF Proper

LEMMA LastIs ==
  ASSUME NEW E, Proper(E), E # {}
  PROVE  Last(E) \in E /\ \A f \in E \ {Last(E)} : Later(Last(E), f)
<1> DEFINE R == {p \in E \X E : Later(p[2], p[1])}
<1>1. \A e, f \in E : <<e, f>> \in R <=> Later(f, e)
  OBVIOUS
<1> HIDE DEF R
<1>2. Ordered(R, E)
  BY <1>1, LaterOrders, ProperPart DEF Ordered
<1>3. PICK e \in E : \A f \in E \ {e} : <<f, e>> \in R
  BY <1>2, LastOfOrder
<1>4. \A f \in E \ {e} : Later(e, f)
  BY <1>1, <1>3
<1> QED
  BY <1>4 DEF Last

LEMMA GreatestIs ==
  ASSUME NEW S, IsFiniteSet(S), S \subseteq Int, S # {}
  PROVE  Max(S) \in S /\ \A y \in S : y <= Max(S)
<1> DEFINE R == {p \in S \X S : p[1] <= p[2]}
<1>1. \A x, y \in S : <<x, y>> \in R <=> x <= y
  OBVIOUS
<1> HIDE DEF R
<1>2. \A x, y, z \in S : x \in Int /\ y \in Int /\ z \in Int
  OBVIOUS
<1>3. Ordered(R, S)
  BY <1>1, <1>2 DEF Ordered
<1>4. PICK x \in S : \A y \in S \ {x} : <<y, x>> \in R
  BY <1>3, LastOfOrder
<1>5. \A y \in S : y <= x
  <2> SUFFICES ASSUME NEW y \in S PROVE y <= x
    OBVIOUS
  <2>1. CASE y = x
    BY <1>2, <2>1
  <2>2. CASE y # x
    BY <1>1, <1>4, <2>2
  <2> QED
    BY <2>1, <2>2
<1> QED
  BY <1>2, <1>5 DEF Max

LEMMA GreatestOnly ==
  ASSUME NEW S, IsFiniteSet(S), S \subseteq Int, NEW x \in S, \A y \in S : y <= x
  PROVE  Max(S) = x
<1>1. Max(S) \in S /\ \A y \in S : y <= Max(S)
  BY GreatestIs
<1>2. x \in Int /\ Max(S) \in Int /\ x <= Max(S) /\ Max(S) <= x
  BY <1>1
<1> QED
  BY <1>2

-----------------------------------------------------------------------------
(* What came in and did not go out again, one event more. *)

\* What an event makes of what there is, and the events from one on.
Change(e) == IF ComesIn(e) THEN e.quantity ELSE -e.quantity
After(E, a, from) == {e \in E : e.asset = a /\ ~ Later(from, e)}

LEMMA NetIs ==
  ASSUME NEW E, Proper(E), NEW a, NEW from
  PROVE  Net(E, a, from) \in Int
<1> DEFINE after == After(E, a, from)
           f == [e \in after |-> IF ComesIn(e) THEN e.quantity ELSE -e.quantity]
<1>1. IsFiniteSet(after)
  BY ProperPart DEF After
<1>2. \A e \in after : f[e] \in Int
  BY EventIs DEF After, Proper
<1>3. Net(E, a, from) = SumFunctionOnSet(f, after)
  BY DEF Net, After
<1> HIDE DEF f, after
<1> QED
  BY <1>1, <1>2, <1>3, SumIs

LEMMA NetGrows ==
  ASSUME NEW E, Proper(E), NEW x \in E, \A f \in E \ {x} : Later(x, f), NEW from \in E
  PROVE  /\ from # x => Net(E, x.asset, from) = Net(E \ {x}, x.asset, from) + Change(x)
         /\ Net(E, x.asset, x) = Change(x)
<1> DEFINE a == x.asset
           D == E \ {x}
           S(k) == After(E, a, k)
           T == After(D, a, from)
           F(k) == [e \in S(k) |-> IF ComesIn(e) THEN e.quantity ELSE -e.quantity]
           G == [e \in T |-> IF ComesIn(e) THEN e.quantity ELSE -e.quantity]
<1>1. /\ \A k : IsFiniteSet(S(k)) /\ S(k) \subseteq E
      /\ IsFiniteSet(T) /\ T \subseteq D
  BY ProperPart DEF After
<1>2. \A e \in E : Change(e) \in Int
  BY EventIs DEF Proper, Change
<1>3. \A k : \A e \in S(k) : F(k)[e] = Change(e) /\ F(k)[e] \in Int
  <2> SUFFICES ASSUME NEW k, NEW e \in S(k) PROVE F(k)[e] = Change(e) /\ F(k)[e] \in Int
    OBVIOUS
  <2>1. e \in E /\ F(k)[e] = Change(e)
    BY <1>1 DEF Change
  <2> QED
    BY <1>2, <2>1
<1>4. \A e \in T : G[e] = Change(e) /\ G[e] \in Int
  <2> SUFFICES ASSUME NEW e \in T PROVE G[e] = Change(e) /\ G[e] \in Int
    OBVIOUS
  <2>1. e \in E /\ G[e] = Change(e)
    BY <1>1 DEF Change
  <2> QED
    BY <1>2, <2>1
<1>5. \A k : Net(E, a, k) = SumFunctionOnSet(F(k), S(k))
  BY DEF Net, After
<1>6. Net(D, a, from) = SumFunctionOnSet(G, T)
  BY DEF Net, After
<1>7. \A k \in E : x \in S(k) /\ (k = x => S(k) = {x})
  BY LaterOrders DEF After
<1>8. from # x => S(from) \ {x} = T
  BY <1>1 DEF After
<1> HIDE DEF F, G, S, T
<1>9. \A k \in E : SumFunctionOnSet(F(k), S(k)) = Change(x) + SumFunctionOnSet(F(k), S(k) \ {x})
  <2> SUFFICES ASSUME NEW k \in E
               PROVE SumFunctionOnSet(F(k), S(k)) = Change(x) + SumFunctionOnSet(F(k), S(k) \ {x})
    OBVIOUS
  <2>1. IsFiniteSet(S(k)) /\ (\A e \in S(k) : F(k)[e] \in Int) /\ x \in S(k)
          /\ F(k)[x] = Change(x)
    BY <1>1, <1>3, <1>7
  <2>2. SumFunctionOnSet(F(k), S(k)) = F(k)[x] + SumFunctionOnSet(F(k), S(k) \ {x})
    BY ONLY <2>1, SumIs
  <2> QED
    BY <2>1, <2>2
<1>10. ASSUME from # x PROVE SumFunctionOnSet(F(from), S(from) \ {x}) = SumFunctionOnSet(G, T)
  <2>1. \A e \in T : G[e] \in Int /\ F(from)[e] = G[e]
    BY <1>3, <1>4, <1>8, <1>10
  <2>2. SumFunctionOnSet(F(from), T) = SumFunctionOnSet(G, T)
    BY ONLY <1>1, <2>1, SumSame
  <2> QED
    BY <1>8, <1>10, <2>2
<1>11. SumFunctionOnSet(F(x), S(x) \ {x}) = 0
  <2>1. S(x) \ {x} = {}
    BY <1>7
  <2>2. IsFiniteSet({}) /\ (\A e \in {} : F(x)[e] \in Int)
    BY FS_EmptySet
  <2>3. SumFunctionOnSet(F(x), {}) = 0
    BY ONLY <2>2, SumIs
  <2> QED
    BY <2>1, <2>3
<1>12. Change(x) \in Int /\ Net(D, a, from) \in Int
  BY <1>2, NetIs, ProperPart
<1> QED
  BY <1>5, <1>6, <1>9, <1>10, <1>11, <1>12

\* What was left is the greatest of these.
Nets(E, a) == {0} \cup {Net(E, a, e) : e \in {f \in E : f.asset = a}}

LEMMA NetsAre ==
  ASSUME NEW E, Proper(E), NEW a
  PROVE  /\ IsFiniteSet(Nets(E, a)) /\ Nets(E, a) \subseteq Int /\ 0 \in Nets(E, a)
         /\ Left(E, a) = Max(Nets(E, a)) /\ Left(E, a) \in Nat
         /\ Left(E, a) \in Nets(E, a) /\ \A n \in Nets(E, a) : n <= Left(E, a)
<1> DEFINE D == {f \in E : f.asset = a}
           net == [e \in D |-> Net(E, a, e)]
<1>1. IsFiniteSet(D)
  BY ProperPart
<1>2. IsFiniteSet({net[e] : e \in D})
  <2>1. net = [e \in D |-> net[e]]
    OBVIOUS
  <2> HIDE DEF D, net
  <2> QED
    BY <1>1, <2>1, RangeFinite
<1>3. {net[e] : e \in D} = {Net(E, a, e) : e \in D}
  OBVIOUS
<1>4. IsFiniteSet({0} \cup {net[e] : e \in D})
  <2> HIDE DEF D, net
  <2>1. IsFiniteSet({0})
    BY FS_Singleton
  <2> QED
    BY <1>2, <2>1, FS_Union
<1>5. IsFiniteSet(Nets(E, a))
  BY <1>3, <1>4 DEF Nets
<1>6. Nets(E, a) \subseteq Int /\ 0 \in Nets(E, a)
  BY NetIs DEF Nets
<1>7. Left(E, a) = Max(Nets(E, a))
  BY DEF Left, Nets
<1>8. Max(Nets(E, a)) \in Nets(E, a) /\ \A n \in Nets(E, a) : n <= Max(Nets(E, a))
  BY <1>5, <1>6, GreatestIs
<1>9. Left(E, a) \in Int /\ 0 <= Left(E, a)
  BY <1>6, <1>7, <1>8
<1> QED
  BY <1>5, <1>6, <1>7, <1>8, <1>9

LEMMA LeftOfNone ==
  ASSUME NEW a
  PROVE  Left({}, a) = 0
<1>1. {0} \cup {Net({}, a, e) : e \in {f \in {} : f.asset = a}} = {0}
  OBVIOUS
<1>2. IsFiniteSet({0}) /\ {0} \subseteq Int /\ \A y \in {0} : y <= 0
  BY FS_Singleton
<1>3. Max({0}) = 0
  BY ONLY <1>2, GreatestOnly
<1> QED
  BY <1>1, <1>3 DEF Left

\* What comes in adds to what was left, what goes out leaves nothing below zero.
LEMMA LeftGrows ==
  ASSUME NEW E, Proper(E), NEW x \in E, \A f \in E \ {x} : Later(x, f)
  PROVE  Left(E, x.asset) = LET n == Left(E \ {x}, x.asset) + Change(x) IN IF n > 0 THEN n ELSE 0
<1> DEFINE a == x.asset
           D == E \ {x}
           m == Left(D, a)
           c == Change(x)
           n == m + c
           most == IF n > 0 THEN n ELSE 0
<1>1. Proper(D)
  BY ProperPart
<1>2. c \in Int
  BY EventIs DEF Proper, Change
<1>3. m \in Nat /\ m \in Nets(D, a) /\ \A k \in Nets(D, a) : k \in Int /\ k <= m
  BY <1>1, NetsAre
<1>4. Net(E, a, x) = c /\ \A e \in D : Net(E, a, e) = Net(D, a, e) + c
  BY NetGrows
<1>5. \A k \in Nets(E, a) : k = 0 \/ k = c \/ \E j \in Nets(D, a) : k = j + c
  <2> SUFFICES ASSUME NEW k \in Nets(E, a), k # 0, k # c PROVE \E j \in Nets(D, a) : k = j + c
    OBVIOUS
  <2>1. PICK e \in E : e.asset = a /\ k = Net(E, a, e)
    BY DEF Nets
  <2>2. e \in D
    BY <1>4, <2>1
  <2>3. Net(D, a, e) \in Nets(D, a)
    BY <2>1, <2>2 DEF Nets
  <2> QED
    BY <1>4, <2>1, <2>2, <2>3
<1>6. 0 \in Nets(E, a) /\ c \in Nets(E, a)
  BY <1>4 DEF Nets
<1>7. n \in Nets(E, a)
  <2>1. CASE m = 0
    BY <1>2, <1>6, <2>1
  <2>2. CASE m # 0
    <3>1. PICK e \in D : e.asset = a /\ m = Net(D, a, e)
      BY <1>3, <2>2 DEF Nets
    <3>2. n = Net(E, a, e)
      BY <1>4, <3>1
    <3> QED
      BY <3>1, <3>2 DEF Nets
  <2> QED
    BY <2>1, <2>2
<1> HIDE DEF a, D, m, c
<1>8. most \in Nets(E, a)
  BY <1>6, <1>7
<1>9. \A k \in Nets(E, a) : k <= most
  <2> SUFFICES ASSUME NEW k \in Nets(E, a) PROVE k <= most
    OBVIOUS
  <2>1. CASE k = 0
    BY <1>2, <1>3, <2>1
  <2>2. CASE k = c
    BY <1>2, <1>3, <2>2
  <2>3. CASE \E j \in Nets(D, a) : k = j + c
    BY <1>2, <1>3, <2>3
  <2> QED
    BY <1>5, <2>1, <2>2, <2>3
<1>10. IsFiniteSet(Nets(E, a)) /\ Nets(E, a) \subseteq Int /\ Left(E, a) = Max(Nets(E, a))
  BY NetsAre
<1> HIDE DEF most
<1>11. Left(E, a) = most
  BY ONLY <1>8, <1>9, <1>10, GreatestOnly
<1> QED
  BY <1>11 DEF most, a, D, m, c

LEMMA LeftStays ==
  ASSUME NEW E, NEW x, NEW a, a # x.asset
  PROVE  Left(E, a) = Left(E \ {x}, a)
<1>1. {f \in E : f.asset = a} = {f \in E \ {x} : f.asset = a}
  OBVIOUS
<1>2. ASSUME NEW from PROVE Net(E, a, from) = Net(E \ {x}, a, from)
  <2>1. {e \in E : e.asset = a /\ ~ Later(from, e)} = {e \in E \ {x} : e.asset = a
          /\ ~ Later(from, e)}
    OBVIOUS
  <2> QED
    BY <2>1 DEF Net
<1> QED
  BY <1>1, <1>2 DEF Left

-----------------------------------------------------------------------------
(* The average cost. *)

\* What is told of events that took something out.
Told == [quantity : Nat, basis : Amount, unknown : Amount, taken : Amount,
         gain : Amount \cup {None}]
Outs(E) == UNION {[O -> Told] : O \in SUBSET E}
AmountHeld == {h \in [quantity : Amount, known : Amount, basis : Amount] :
                 h.quantity[1] >= 0 /\ h.known[1] >= 0}
AverageState(E) == [held : [Asset -> AmountHeld], out : Outs(E)]

LEMMA DispositionIs ==
  ASSUME NEW e \in EventSet, NEW basis \in Amount, NEW unknown \in Amount, NEW taken \in Amount
  PROVE  Disposition(e, basis, unknown, taken) \in Told
<1>1. e.quantity \in Nat /\ Proceeds(e) \in Amount \cup {None}
  BY EventIs
<1>2. (IF Proceeds(e) # None /\ unknown = Whole(0) THEN Minus(Proceeds(e), basis) ELSE None)
         \in Amount \cup {None}
  BY <1>1, MinusIs
<1> QED
  BY <1>1, <1>2 DEF Disposition, Told

LEMMA PutIs ==
  ASSUME NEW f, NEW x, NEW y
  PROVE  /\ DOMAIN Put(f, x, y) = DOMAIN f \cup {x}
         /\ Put(f, x, y)[x] = y
         /\ \A k \in DOMAIN f : k # x => Put(f, x, y)[k] = f[k]
BY DEF Put

LEMMA PutOuts ==
  ASSUME NEW E, NEW out \in Outs(E), NEW e \in E, NEW d \in Told
  PROVE  Put(out, e, d) \in Outs(E)
<1>1. PICK O \in SUBSET E : out \in [O -> Told]
  BY DEF Outs
<1>2. Put(out, e, d) \in [O \cup {e} -> Told]
  BY <1>1 DEF Put
<1> QED
  BY <1>2 DEF Outs

LEMMA LessIs ==
  ASSUME NEW x \in Amount, NEW y \in Amount
  PROVE  Less(x, y) => ~ Less(y, x)
<1>1. /\ x[1] \in Int /\ x[2] \in Int /\ y[1] \in Int /\ y[2] \in Int
      /\ x[1] * y[2] \in Int /\ y[1] * x[2] \in Int
  BY AmountIs
<1> QED
  BY <1>1 DEF Less

\* What goes out takes no more than there is.
LEMMA TakenIs ==
  ASSUME NEW h \in AmountHeld, NEW e \in EventSet
  PROVE  LET taken == AverageTaken(h, e)
         IN /\ taken \in Amount /\ ~ Less(h.known, taken)
            /\ AverageBasis(h, taken) \in Amount
<1> DEFINE q == h.quantity  k == h.known  b == h.basis
           w == Whole(e.quantity)
           share == IF q = Whole(0) THEN Whole(0) ELSE Over(Times(w, k), q)
           taken == IF Less(share, k) THEN share ELSE k
<1>1. q \in Amount /\ k \in Amount /\ b \in Amount /\ q[1] >= 0 /\ k[1] >= 0
  BY DEF AmountHeld
<1>2. Whole(0) \in Amount /\ w \in Amount
  BY EventIs, WholeAmount
<1>3. \A x \in Amount : x[1] \in Int /\ (x[1] >= 0 /\ x # Whole(0) => x[1] > 0)
  <2> SUFFICES ASSUME NEW x \in Amount PROVE x[1] \in Int /\ (x[1] = 0 => x = Whole(0))
    OBVIOUS
  <2> QED
    BY AmountIs, ZeroIs
<1>4. taken = AverageTaken(h, e)
  BY DEF AverageTaken
<1>5. AverageBasis(h, taken) = IF k = Whole(0) THEN Whole(0) ELSE Over(Times(taken, b), k)
  BY DEF AverageBasis
<1> HIDE DEF q, k, b, w
<1>6. share \in Amount
  BY <1>1, <1>2, <1>3, TimesIs, OverIs
<1> HIDE DEF share
<1>7. taken \in Amount /\ ~ Less(k, taken)
  <2>1. ~ Less(k, k)
    BY <1>1, LessIs
  <2> QED
    BY <1>1, <1>6, <2>1, LessIs
<1> HIDE DEF taken
<1>8. (IF k = Whole(0) THEN Whole(0) ELSE Over(Times(taken, b), k)) \in Amount
  BY <1>1, <1>2, <1>3, <1>7, TimesIs, OverIs
<1> QED
  BY <1>4, <1>5, <1>7, <1>8 DEF k

LEMMA AverageTyped ==
  ASSUME NEW E, E \subseteq EventSet, NEW x \in E, NEW s \in AverageState(E)
  PROVE  AverageStep(x, s) \in AverageState(E)
<1> DEFINE h == s.held[x.asset]
           taken == AverageTaken(h, x)
           d == Disposition(x, AverageBasis(h, taken), Minus(Whole(x.quantity), taken), taken)
           in == [s EXCEPT !.held[x.asset] = AverageIn(h, x)]
           out == [held |-> [s.held EXCEPT ![x.asset] = AverageOut(h, x)],
                   out |-> Put(s.out, x, d)]
<1>1. x \in EventSet /\ x.asset \in Asset /\ Cost(x) \in Amount \cup {None}
      /\ Whole(x.quantity) \in Amount /\ Whole(x.quantity)[1] >= 0 /\ Whole(0) \in Amount
      /\ Whole(0)[1] >= 0
  BY EventIs, WholeAmount
<1>2. h \in AmountHeld /\ s.held \in [Asset -> AmountHeld] /\ s.out \in Outs(E)
  BY <1>1 DEF AverageState
<1>3. taken \in Amount /\ ~ Less(h.known, taken) /\ AverageBasis(h, taken) \in Amount
  BY <1>1, <1>2, TakenIs
<1>4. AverageStep(x, s) = IF ComesIn(x) THEN in ELSE out
  BY DEF AverageStep
<1>5. h.quantity \in Amount /\ h.known \in Amount /\ h.basis \in Amount
      /\ h.quantity[1] >= 0 /\ h.known[1] >= 0
  BY <1>2 DEF AmountHeld
<1> HIDE DEF h
<1>6. AverageIn(h, x) \in AmountHeld
  <2>1. Plus(h.quantity, Whole(x.quantity)) \in Amount
          /\ Plus(h.quantity, Whole(x.quantity))[1] >= 0
    BY <1>1, <1>5, PlusIs
  <2>2. CASE Cost(x) = None
    <3>1. AverageIn(h, x) = [h EXCEPT !.quantity = Plus(h.quantity, Whole(x.quantity))]
      BY <2>2 DEF AverageIn
    <3> QED
      BY <1>2, <2>1, <3>1 DEF AmountHeld
  <2>3. CASE Cost(x) # None
    <3>1. /\ Plus(h.known, Whole(x.quantity)) \in Amount
               /\ Plus(h.known, Whole(x.quantity))[1] >= 0
          /\ Plus(h.basis, Cost(x)) \in Amount
      BY <1>1, <1>5, <2>3, PlusIs
    <3> QED
      BY <2>1, <2>3, <3>1 DEF AverageIn, AmountHeld
  <2> QED
    BY <2>2, <2>3
<1>7. AverageOut(h, x) \in AmountHeld
  BY <1>1, <1>3, <1>5, MinusIs DEF AverageOut, AmountHeld
<1>8. d \in Told
  <2> HIDE DEF taken
  <2> QED
    BY <1>1, <1>3, MinusIs, DispositionIs
<1>9. Put(s.out, x, d) \in Outs(E)
  BY <1>2, <1>8, PutOuts
<1> HIDE DEF d
<1>10. in \in AverageState(E) /\ out \in AverageState(E)
  BY <1>1, <1>2, <1>6, <1>7, <1>9 DEF AverageState
<1> QED
  BY <1>4, <1>10

\* The states that the events lead through.
AverageRun(E, start, F) ==
  F = [s \in SUBSET E |->
        IF s = {} THEN start ELSE LET x == Last(s) IN AverageStep(x, F[s \ {x}])]

LEMMA AverageExpands ==
  ASSUME NEW E, NEW start, \E F : AverageRun(E, start, F)
  PROVE  \E F : AverageRun(E, start, F) /\ Through(AverageStep, start, E) = F[E]
<1> DEFINE F == CHOOSE F : AverageRun(E, start, F)
<1>1. AverageRun(E, start, F)
  OBVIOUS
<1>2. Through(AverageStep, start, E) = F[E]
  BY DEF Through, MapThenFoldSet, AverageRun
<1> QED
  BY <1>1, <1>2

\* It starts with nothing, and the last event comes last.
AverageStart == [held |-> [a \in Asset |-> NoHolding], out |-> NoneOut]

Lasts(E) == [s \in SUBSET E |-> Last(s)]

LEMMA LastsAre ==
  ASSUME NEW E, Proper(E), NEW s \in SUBSET E, s # {}
  PROVE  /\ Last(s) \in s /\ Lasts(E)[s] = Last(s) /\ s \ {Last(s)} \in SUBSET E
         /\ \A f \in s \ {Last(s)} : Later(Last(s), f)
         /\ Proper(s) /\ Proper(s \ {Last(s)}) /\ Last(s) \in EventSet
<1>1. Proper(s) /\ Proper(s \ {Last(s)})
  BY ProperPart
<1>2. Last(s) \in s /\ \A f \in s \ {Last(s)} : Later(Last(s), f)
  BY <1>1, LastIs
<1>3. Lasts(E)[s] = Last(s)
  BY DEF Lasts
<1>4. s \subseteq EventSet
  BY DEF Proper
<1> QED
  BY <1>1, <1>2, <1>3, <1>4

LEMMA AverageRuns ==
  ASSUME NEW E, Proper(E)
  PROVE  \E F : /\ F \in [SUBSET E -> AverageState(E)] /\ F[{}] = AverageStart
                /\ \A s \in SUBSET E : s # {} => F[s] = AverageStep(Last(s), F[s \ {Last(s)}])
                /\ Through(AverageStep, AverageStart, E) = F[E]
<1> DEFINE V == AverageState(E)
           c == Lasts(E)
           step(p) == IF p[1] = {} THEN p[2] ELSE AverageStep(c[p[1]], p[2])
           g == [p \in (SUBSET E) \X V |-> step(p)]
<1>1. AverageStart \in V
  <2>1. NoHolding \in AmountHeld
    <3>1. Whole(0) \in Amount /\ Whole(0)[1] >= 0
      BY WholeAmount
    <3> QED
      BY <3>1 DEF NoHolding, AmountHeld
  <2>2. NoneOut \in Outs(E)
    <3>1. NoneOut \in [{} -> Told]
      BY DEF NoneOut
    <3> QED
      BY <3>1 DEF Outs
  <2> QED
    BY <2>1, <2>2 DEF AverageStart, AverageState
<1>2. \A s \in SUBSET E : s # {} => /\ c[s] \in s /\ c[s] = Last(s) /\ s \ {c[s]} \in SUBSET E
  <2> SUFFICES ASSUME NEW s \in SUBSET E, s # {}
               PROVE  Lasts(E)[s] \in s /\ Lasts(E)[s] = Last(s)
    OBVIOUS
  <2>1. Proper(E)
    OBVIOUS
  <2>2. Last(s) \in s /\ Lasts(E)[s] = Last(s)
    BY ONLY <2>1, s \in SUBSET E, s # {}, LastsAre
  <2> QED
    BY <2>2
<1>3. IsFiniteSet(E) /\ E \subseteq EventSet
  BY DEF Proper
<1> HIDE DEF c
<1>4. \A s \in SUBSET E, v \in V : s # {} => AverageStep(c[s], v) \in V
  BY <1>2, <1>3, AverageTyped
<1> HIDE DEF V
<1>5. g \in [(SUBSET E) \X V -> V]
  BY <1>4
<1>6. \A s \in SUBSET E, v \in V : s # {} => g[<<s, v>>] = AverageStep(c[s], v)
  OBVIOUS
<1> HIDE DEF g
<1>7. PICK F : Folded(F, E, V, AverageStart, c, g)
  <2>1. \A s \in SUBSET E : s # {} => c[s] \in s
    BY <1>2
  <2> QED
    BY ONLY <1>1, <1>3, <1>5, <2>1, FoldExists
<1>8. F \in [SUBSET E -> V] /\ F[{}] = AverageStart
  BY <1>7 DEF Folded
<1>9. \A s \in SUBSET E : s # {} => F[s] = AverageStep(Last(s), F[s \ {Last(s)}])
  <2> SUFFICES ASSUME NEW s \in SUBSET E, s # {}
               PROVE  F[s] = AverageStep(Last(s), F[s \ {Last(s)}])
    OBVIOUS
  <2>1. F[s] = g[<<s, F[s \ {c[s]}]>>]
    BY <1>7 DEF Folded
  <2>2. F[s \ {c[s]}] \in V
    BY <1>2, <1>8
  <2>3. g[<<s, F[s \ {c[s]}]>>] = AverageStep(c[s], F[s \ {c[s]}])
    BY <1>6, <2>2
  <2> QED
    BY <1>2, <2>1, <2>3
<1>10. AverageRun(E, AverageStart, F)
  <2>1. F = [s \in SUBSET E |-> F[s]]
    BY <1>8
  <2> QED
    BY <1>8, <1>9, <2>1 DEF AverageRun
<1>11. PICK G : AverageRun(E, AverageStart, G) /\ Through(AverageStep, AverageStart, E) = G[E]
  BY <1>10, AverageExpands
<1>12. /\ G = [s \in SUBSET E |-> G[s]] /\ G[{}] = AverageStart
       /\ \A s \in SUBSET E : s # {} => G[s] = AverageStep(Last(s), G[s \ {Last(s)}])
  BY <1>11 DEF AverageRun
<1> DEFINE good == {s \in SUBSET E : G[s] \in V}
<1>13. {} \in good
  BY <1>1, <1>12
<1>14. \A s \in SUBSET E : s # {} /\ (\A x \in s : s \ {x} \in good) => s \in good
  <2> SUFFICES ASSUME NEW s \in SUBSET E, s # {}, \A x \in s : s \ {x} \in good
               PROVE  G[s] \in V
    OBVIOUS
  <2>1. Last(s) \in s /\ c[s] = Last(s)
    BY <1>2
  <2>2. G[s \ {Last(s)}] \in V
    BY <2>1
  <2> HIDE DEF good
  <2> QED
    BY <1>4, <1>12, <2>1, <2>2
<1>15. SUBSET E \subseteq good
  <2> HIDE DEF good
  <2> QED
    BY ONLY <1>3, <1>13, <1>14, SubsetsReached
<1>16. G \in [SUBSET E -> V]
  BY <1>12, <1>15
<1> QED
  BY <1>11, <1>12, <1>16 DEF V

LEMMA PlusSwaps ==
  ASSUME NEW a \in Amount, NEW b \in Amount, NEW c \in Amount
  PROVE  /\ Plus(Plus(a, b), c) = Plus(Plus(a, c), b)
         /\ Plus(Minus(a, c), Plus(b, c)) = Plus(a, b)
<1>1. \A x, y \in Amount : Plus(x, y) \in Amount /\ Plus(x, y) = Plus(y, x)
  BY PlusIs
<1>2. \A x, y, z \in Amount : Plus(Plus(x, y), z) = Plus(x, Plus(y, z))
  BY PlusAssociates
<1>3. Minus(a, c) \in Amount /\ Plus(Minus(a, c), c) = a
  BY MinusIs
<1>4. Plus(Plus(a, b), c) = Plus(Plus(a, c), b)
  BY <1>1, <1>2
<1>5. Plus(Minus(a, c), Plus(b, c)) = Plus(Plus(Minus(a, c), c), b)
  BY <1>1, <1>2, <1>3
<1> QED
  BY <1>3, <1>4, <1>5

\* A sum with one term more.
LEMMA TotalMore ==
  ASSUME NEW S, IsFiniteSet(S), NEW x, x \notin S, NEW f, NEW g,
         \A y \in S : f[y] \in Amount /\ g[y] = f[y], g[x] \in Amount
  PROVE  Total(g, S \cup {x}) = Plus(Total(f, S), g[x])
<1> DEFINE T == S \cup {x}
<1>1. IsFiniteSet(T)
  <2>1. IsFiniteSet({x})
    BY FS_Singleton
  <2> QED
    BY <2>1, FS_Union
<1>2. x \in T /\ T \ {x} = S /\ \A y \in T : g[y] \in Amount
  OBVIOUS
<1> HIDE DEF T
<1>3. Total(g, T) = Plus(Total(g, T \ {x}), g[x])
  BY ONLY <1>1, <1>2, TotalAmount
<1>4. Total(g, S) = Total(f, S)
  BY TotalSame
<1> QED
  BY <1>2, <1>3, <1>4 DEF T

\* A sum does not depend on what the terms are not about.
LEMMA TotalAlike ==
  ASSUME NEW S, IsFiniteSet(S), NEW T, T = S, NEW f, NEW g,
         \A y \in S : f[y] \in Amount /\ g[y] = f[y]
  PROVE  Total(g, T) = Total(f, S)
BY TotalSame

\* What was paid and what came in of it, and what of both went out.
CostTotal(s, a) == Total([e \in KnownOf(s, a) |-> Cost(e)], KnownOf(s, a))
QuantityTotal(s, a) == Total([e \in KnownOf(s, a) |-> Whole(e.quantity)], KnownOf(s, a))
BasisOut(st, a) == Total([e \in OutOf(st, a) |-> st.out[e].basis], OutOf(st, a))
TakenOut(st, a) == Total([e \in OutOf(st, a) |-> st.out[e].taken], OutOf(st, a))

LEMMA KnownIs ==
  ASSUME NEW E, Proper(E), NEW s \in SUBSET E, NEW a
  PROVE  /\ IsFiniteSet(KnownOf(s, a)) /\ KnownOf(s, a) \subseteq s
         /\ \A e \in KnownOf(s, a) : Cost(e) \in Amount /\ Whole(e.quantity) \in Amount
         /\ CostTotal(s, a) \in Amount /\ QuantityTotal(s, a) \in Amount
<1> DEFINE K == KnownOf(s, a)
           f == [e \in K |-> Cost(e)]
           g == [e \in K |-> Whole(e.quantity)]
<1>1. IsFiniteSet(K) /\ K \subseteq s
  BY ProperPart, FS_Subset DEF KnownOf
<1>2. \A e \in K : Cost(e) \in Amount /\ Whole(e.quantity) \in Amount
  <2> SUFFICES ASSUME NEW e \in K PROVE Cost(e) \in Amount /\ Whole(e.quantity) \in Amount
    OBVIOUS
  <2>1. e \in EventSet /\ Cost(e) # None
    BY DEF KnownOf, Proper
  <2> QED
    BY <2>1, EventIs, WholeAmount
<1>3. (\A e \in K : f[e] \in Amount) /\ (\A e \in K : g[e] \in Amount)
  BY <1>2
<1>4. CostTotal(s, a) = Total(f, K) /\ QuantityTotal(s, a) = Total(g, K)
  BY DEF CostTotal, QuantityTotal
<1> HIDE DEF f, g, K
<1>5. Total(f, K) \in Amount
  BY ONLY <1>1, <1>3, TotalAmount
<1>6. Total(g, K) \in Amount
  BY ONLY <1>1, <1>3, TotalAmount
<1> QED
  BY <1>1, <1>2, <1>4, <1>5, <1>6 DEF K

\* What is known of the cost when an event comes after others.
LEMMA KnownGrows ==
  ASSUME NEW s, Proper(s), NEW x \in s, NEW a
  PROVE  /\ a = x.asset /\ ComesIn(x) /\ Cost(x) # None =>
              /\ KnownOf(s, a) = KnownOf(s \ {x}, a) \cup {x} /\ Cost(x) \in Amount
              /\ CostTotal(s, a) = Plus(CostTotal(s \ {x}, a), Cost(x))
              /\ QuantityTotal(s, a) = Plus(QuantityTotal(s \ {x}, a), Whole(x.quantity))
         /\ a # x.asset \/ ~ ComesIn(x) \/ Cost(x) = None =>
              /\ KnownOf(s, a) = KnownOf(s \ {x}, a)
              /\ CostTotal(s, a) = CostTotal(s \ {x}, a)
              /\ QuantityTotal(s, a) = QuantityTotal(s \ {x}, a)
<1> DEFINE K == KnownOf(s, a)
           L == KnownOf(s \ {x}, a)
           f == [e \in L |-> Cost(e)]
           g == [e \in L |-> Whole(e.quantity)]
           p == [e \in K |-> Cost(e)]
           q == [e \in K |-> Whole(e.quantity)]
<1>1. /\ CostTotal(s, a) = Total(p, K) /\ QuantityTotal(s, a) = Total(q, K)
      /\ CostTotal(s \ {x}, a) = Total(f, L) /\ QuantityTotal(s \ {x}, a) = Total(g, L)
  BY DEF CostTotal, QuantityTotal
<1>2. a # x.asset \/ ~ ComesIn(x) \/ Cost(x) = None => K = L
  BY DEF KnownOf
<1>3. a = x.asset /\ ComesIn(x) /\ Cost(x) # None => K = L \cup {x} /\ x \notin L
  BY DEF KnownOf
<1>4. IsFiniteSet(L) /\ \A e \in L : f[e] \in Amount /\ g[e] \in Amount
  <2>1. s \ {x} \in SUBSET s
    OBVIOUS
  <2> QED
    BY <2>1, KnownIs
<1>5. ASSUME K = L PROVE Total(p, K) = Total(f, L) /\ Total(q, K) = Total(g, L)
  <2>1. p = f /\ q = g
    BY <1>5
  <2> QED
    BY <1>5, <2>1
<1>6. ASSUME K = L \cup {x}, x \notin L
      PROVE  /\ Cost(x) \in Amount
             /\ Total(p, K) = Plus(Total(f, L), Cost(x))
             /\ Total(q, K) = Plus(Total(g, L), Whole(x.quantity))
  <2>1. /\ \A y \in L : p[y] = f[y] /\ q[y] = g[y]
        /\ p[x] = Cost(x) /\ q[x] = Whole(x.quantity)
    BY <1>6
  <2>2. p[x] \in Amount /\ q[x] \in Amount
    <3>1. x \in KnownOf(s, a) /\ s \in SUBSET s
      BY <1>6
    <3> QED
      BY <2>1, <3>1, KnownIs
  <2>3. (\A y \in L : f[y] \in Amount /\ p[y] = f[y])
          /\ (\A y \in L : g[y] \in Amount /\ q[y] = g[y])
    BY <1>4, <2>1
  <2> HIDE DEF p, q, f, g, K, L
  <2>4. Total(p, L \cup {x}) = Plus(Total(f, L), p[x])
    BY ONLY <1>4, <1>6, <2>2, <2>3, TotalMore
  <2>5. Total(q, L \cup {x}) = Plus(Total(g, L), q[x])
    BY ONLY <1>4, <1>6, <2>2, <2>3, TotalMore
  <2> QED
    BY <1>6, <2>1, <2>2, <2>4, <2>5
<1> HIDE DEF p, q, f, g
<1>7. CASE K = L
  BY <1>1, <1>3, <1>5, <1>7
<1>8. CASE K # L
  <2>1. K = L \cup {x} /\ x \notin L
    BY <1>2, <1>3, <1>8
  <2>2. a = x.asset /\ ComesIn(x) /\ Cost(x) # None
    BY <1>2, <1>8
  <2> QED
    BY <1>1, <1>6, <2>1, <2>2
<1> QED
  BY <1>7, <1>8

LEMMA OutIs ==
  ASSUME NEW E, Proper(E), NEW st, st.out \in Outs(E), NEW a
  PROVE  /\ IsFiniteSet(OutOf(st, a)) /\ DOMAIN st.out \subseteq E
         /\ \A e \in DOMAIN st.out : st.out[e] \in Told /\ st.out[e].basis \in Amount
                                     /\ st.out[e].taken \in Amount
         /\ BasisOut(st, a) \in Amount /\ TakenOut(st, a) \in Amount
<1> DEFINE O == OutOf(st, a)
           f == [e \in O |-> st.out[e].basis]
           g == [e \in O |-> st.out[e].taken]
<1>1. PICK D \in SUBSET E : st.out \in [D -> Told]
  BY DEF Outs
<1>2. DOMAIN st.out \subseteq E /\ \A e \in DOMAIN st.out : st.out[e] \in Told
  BY <1>1
<1>3. \A d \in Told : d.basis \in Amount /\ d.taken \in Amount
  BY DEF Told
<1>4. IsFiniteSet(O) /\ O \subseteq DOMAIN st.out
  BY <1>2, ProperPart DEF OutOf
<1>5. (\A e \in O : f[e] \in Amount) /\ (\A e \in O : g[e] \in Amount)
  BY <1>2, <1>3, <1>4
<1>6. BasisOut(st, a) = Total(f, O) /\ TakenOut(st, a) = Total(g, O)
  BY DEF BasisOut, TakenOut
<1> HIDE DEF f, g, O
<1>7. Total(f, O) \in Amount
  BY ONLY <1>4, <1>5, TotalAmount
<1>8. Total(g, O) \in Amount
  BY ONLY <1>4, <1>5, TotalAmount
<1> QED
  BY <1>2, <1>3, <1>4, <1>6, <1>7, <1>8 DEF O

\* What is told of what went out, one event more.
LEMMA OutGrows ==
  ASSUME NEW E, Proper(E), NEW st, st.out \in Outs(E), NEW x, x \notin DOMAIN st.out,
         NEW d \in Told, NEW end, end.out = Put(st.out, x, d), NEW a
  PROVE  /\ a = x.asset => /\ BasisOut(end, a) = Plus(BasisOut(st, a), d.basis)
                           /\ TakenOut(end, a) = Plus(TakenOut(st, a), d.taken)
         /\ a # x.asset => /\ BasisOut(end, a) = BasisOut(st, a)
                           /\ TakenOut(end, a) = TakenOut(st, a)
<1> DEFINE O == OutOf(end, a)
           P == OutOf(st, a)
           f == [e \in P |-> st.out[e].basis]
           g == [e \in P |-> st.out[e].taken]
           p == [e \in O |-> end.out[e].basis]
           q == [e \in O |-> end.out[e].taken]
<1>1. /\ BasisOut(end, a) = Total(p, O) /\ TakenOut(end, a) = Total(q, O)
      /\ BasisOut(st, a) = Total(f, P) /\ TakenOut(st, a) = Total(g, P)
  BY DEF BasisOut, TakenOut
<1>2. /\ DOMAIN end.out = DOMAIN st.out \cup {x} /\ end.out[x] = d
      /\ \A e \in DOMAIN st.out : end.out[e] = st.out[e]
  <2> DEFINE f0 == st.out  g0 == Put(f0, x, d)
  <2>1. DOMAIN g0 = DOMAIN f0 \cup {x} /\ g0[x] = d /\ \A k \in DOMAIN f0 : k # x => g0[k] = f0[k]
    BY DEF Put
  <2>2. end.out = g0
    OBVIOUS
  <2> HIDE DEF g0
  <2> QED
    BY <2>1, <2>2
<1>3. a # x.asset => O = P
  BY <1>2 DEF OutOf
<1>4. a = x.asset => O = P \cup {x}
  BY <1>2 DEF OutOf
<1>5. P \subseteq DOMAIN st.out /\ x \notin P
  BY DEF OutOf
<1>6. IsFiniteSet(P) /\ \A e \in P : f[e] \in Amount /\ g[e] \in Amount
  BY <1>5, OutIs
<1>7. \A e \in P : e \in O => p[e] = f[e] /\ q[e] = g[e]
  BY <1>2, <1>5
<1>8. x \in O => p[x] = d.basis /\ q[x] = d.taken
  BY <1>2
<1>9. d.basis \in Amount /\ d.taken \in Amount
  BY DEF Told
<1> HIDE DEF O, P, f, g, p, q
<1>10. ASSUME a # x.asset PROVE Total(p, O) = Total(f, P) /\ Total(q, O) = Total(g, P)
  <2>1. O = P /\ (\A e \in P : f[e] \in Amount /\ p[e] = f[e])
          /\ (\A e \in P : g[e] \in Amount /\ q[e] = g[e])
    BY <1>3, <1>6, <1>7, <1>10
  <2>2. Total(p, P) = Total(f, P)
    BY ONLY <1>6, <2>1, TotalSame
  <2>3. Total(q, P) = Total(g, P)
    BY ONLY <1>6, <2>1, TotalSame
  <2> QED
    BY <2>1, <2>2, <2>3
<1>11. ASSUME a = x.asset
       PROVE  Total(p, O) = Plus(Total(f, P), d.basis) /\ Total(q, O) = Plus(Total(g, P), d.taken)
  <2>1. O = P \cup {x} /\ (\A e \in P : f[e] \in Amount /\ p[e] = f[e])
        /\ (\A e \in P : g[e] \in Amount /\ q[e] = g[e])
    BY <1>4, <1>6, <1>7, <1>11
  <2>2. p[x] = d.basis /\ q[x] = d.taken /\ p[x] \in Amount /\ q[x] \in Amount
    BY <1>8, <1>9, <2>1
  <2>3. Total(p, P \cup {x}) = Plus(Total(f, P), p[x])
    BY ONLY <1>5, <1>6, <2>1, <2>2, TotalMore
  <2>4. Total(q, P \cup {x}) = Plus(Total(g, P), q[x])
    BY ONLY <1>5, <1>6, <2>1, <2>2, TotalMore
  <2> QED
    BY <2>1, <2>2, <2>3, <2>4
<1> QED
  BY <1>1, <1>10, <1>11

-----------------------------------------------------------------------------

\* What holds after the events of s.
AverageKept(s, a, st) ==
  /\ DOMAIN st.out = {e \in s : ~ ComesIn(e)}
  /\ st.held[a].quantity = Whole(Left(s, a))
  /\ Plus(st.held[a].basis, BasisOut(st, a)) = CostTotal(s, a)
  /\ Plus(st.held[a].known, TakenOut(st, a)) = QuantityTotal(s, a)

LEMMA AverageInKeeps ==
  ASSUME NEW E, Proper(E), NEW s \in SUBSET E, NEW x \in s, \A f \in s \ {x} : Later(x, f),
         NEW st \in AverageState(E), NEW a \in Asset, AverageKept(s \ {x}, a, st), ComesIn(x)
  PROVE  AverageKept(s, a, AverageStep(x, st))
<1> DEFINE end == AverageStep(x, st)
           h == st.held[a]
           r == s \ {x}
           n == x.quantity
<1>1. /\ x \in EventSet /\ x.asset \in Asset /\ n \in Nat /\ n > 0 /\ Proper(s) /\ Proper(r)
      /\ Cost(x) \in Amount \cup {None} /\ r \in SUBSET E
  BY ProperPart, EventIs DEF Proper
<1>2. end = [st EXCEPT !.held[x.asset] = AverageIn(st.held[x.asset], x)]
  BY DEF AverageStep
<1>3. /\ end.out = st.out
      /\ end.held[a] = IF a = x.asset THEN AverageIn(h, x) ELSE h
  BY <1>1, <1>2 DEF AverageState
<1>4. BasisOut(end, a) = BasisOut(st, a) /\ TakenOut(end, a) = TakenOut(st, a)
  BY <1>3 DEF BasisOut, TakenOut, OutOf
<1>5. DOMAIN end.out = {e \in s : ~ ComesIn(e)}
  BY <1>3 DEF AverageKept
<1>6. h \in AmountHeld /\ h.known \in Amount /\ h.basis \in Amount /\ st.out \in Outs(E)
  BY DEF AverageState, AmountHeld
<1>7. BasisOut(st, a) \in Amount /\ TakenOut(st, a) \in Amount
  BY <1>6, OutIs
<1>8. /\ h.quantity = Whole(Left(r, a)) /\ Plus(h.basis, BasisOut(st, a)) = CostTotal(r, a)
      /\ Plus(h.known, TakenOut(st, a)) = QuantityTotal(r, a)
  BY DEF AverageKept
<1>9. end.held[a].quantity = Whole(Left(s, a))
  <2>1. CASE a = x.asset
    <3>1. end.held[a].quantity = Plus(h.quantity, Whole(n))
      BY <1>3, <1>6, <2>1 DEF AverageIn, AmountHeld
    <3>2. Left(r, a) \in Nat
      BY <1>1, NetsAre
    <3>3. Left(s, a) = LET m == Left(r, a) + Change(x) IN IF m > 0 THEN m ELSE 0
      BY <1>1, <2>1, LeftGrows
    <3>4. Change(x) = n
      BY DEF Change
    <3>5. Left(s, a) = Left(r, a) + n
      BY <1>1, <3>2, <3>3, <3>4
    <3>6. Plus(Whole(Left(r, a)), Whole(n)) = Whole(Left(r, a) + n)
      <4> DEFINE m == Left(r, a)  k == n
      <4>1. m \in Int /\ k \in Int
        BY <1>1, <3>2
      <4> HIDE DEF m, k
      <4>2. Plus(Whole(m), Whole(k)) = Whole(m + k)
        BY ONLY <4>1, WholesAdd
      <4> QED
        BY <4>2 DEF m, k
    <3> QED
      BY <1>8, <3>1, <3>5, <3>6
  <2>2. CASE a # x.asset
    <3>1. Left(s, a) = Left(r, a)
      BY <2>2, LeftStays
    <3> QED
      BY <1>3, <1>8, <2>2, <3>1
  <2> QED
    BY <2>1, <2>2
<1>11. /\ a = x.asset /\ ComesIn(x) /\ Cost(x) # None =>
              /\ CostTotal(s, a) = Plus(CostTotal(r, a), Cost(x))
              /\ QuantityTotal(s, a) = Plus(QuantityTotal(r, a), Whole(n))
       /\ a # x.asset \/ ~ ComesIn(x) \/ Cost(x) = None =>
              /\ CostTotal(s, a) = CostTotal(r, a)
              /\ QuantityTotal(s, a) = QuantityTotal(r, a)
  BY ONLY <1>1, x \in s, KnownGrows
<1>10. /\ Plus(end.held[a].basis, BasisOut(end, a)) = CostTotal(s, a)
       /\ Plus(end.held[a].known, TakenOut(end, a)) = QuantityTotal(s, a)
  <2>1. CASE a = x.asset /\ Cost(x) # None
    <3>1. /\ end.held[a].basis = Plus(h.basis, Cost(x))
               /\ end.held[a].known = Plus(h.known, Whole(n))
          /\ Cost(x) \in Amount /\ Whole(n) \in Amount
      BY <1>1, <1>3, <2>1, WholeAmount DEF AverageIn
    <3>2. /\ CostTotal(s, a) = Plus(CostTotal(r, a), Cost(x))
          /\ QuantityTotal(s, a) = Plus(QuantityTotal(r, a), Whole(n))
      BY <1>11, <2>1
    <3>3. Plus(Plus(h.basis, Cost(x)), BasisOut(st, a)) = Plus(Plus(h.basis, BasisOut(st, a)), Cost(x))
      BY <1>6, <1>7, <3>1, PlusSwaps
    <3>4. Plus(Plus(h.known, Whole(n)), TakenOut(st, a)) = Plus(Plus(h.known, TakenOut(st, a)), Whole(n))
      BY <1>6, <1>7, <3>1, PlusSwaps
    <3> QED
      BY <1>4, <1>8, <3>1, <3>2, <3>3, <3>4
  <2>2. CASE ~ (a = x.asset /\ Cost(x) # None)
    <3>1. end.held[a].basis = h.basis /\ end.held[a].known = h.known
      <4>1. CASE a = x.asset
        BY <1>3, <1>6, <2>2, <4>1 DEF AverageIn, AmountHeld
      <4>2. CASE a # x.asset
        BY <1>3, <4>2
      <4> QED
        BY <4>1, <4>2
    <3>2. CostTotal(s, a) = CostTotal(r, a) /\ QuantityTotal(s, a) = QuantityTotal(r, a)
      BY <1>11, <2>2
    <3> QED
      BY <1>4, <1>8, <3>1, <3>2
  <2> QED
    BY <2>1, <2>2
<1> QED
  BY <1>5, <1>9, <1>10 DEF AverageKept

\* What goes out takes its share of the cost with it.
LEMMA AverageOutKeeps ==
  ASSUME NEW E, Proper(E), NEW s \in SUBSET E, NEW x \in s, \A f \in s \ {x} : Later(x, f),
         NEW st \in AverageState(E), NEW a \in Asset, AverageKept(s \ {x}, a, st), ~ ComesIn(x)
  PROVE  AverageKept(s, a, AverageStep(x, st))
<1> DEFINE end == AverageStep(x, st)
           h == st.held[a]
           g == st.held[x.asset]
           taken == AverageTaken(g, x)
           basis == AverageBasis(g, taken)
           d == Disposition(x, basis, Minus(Whole(x.quantity), taken), taken)
           r == s \ {x}
           n == x.quantity
<1>1. /\ x \in EventSet /\ x.asset \in Asset /\ n \in Nat /\ n > 0 /\ Proper(s) /\ Proper(r)
      /\ r \in SUBSET E /\ Whole(n) \in Amount
  BY ProperPart, EventIs, WholeAmount DEF Proper
<1>2. end = [held |-> [st.held EXCEPT ![x.asset] = AverageOut(g, x)], out |-> Put(st.out, x, d)]
  BY DEF AverageStep
<1>3. end.out = Put(st.out, x, d) /\ end.held[a] = IF a = x.asset THEN AverageOut(h, x) ELSE h
  BY <1>1, <1>2 DEF AverageState
<1>4. x \notin DOMAIN st.out
  BY DEF AverageKept
<1>5. g \in AmountHeld /\ st.out \in Outs(E)
  BY <1>1 DEF AverageState
<1>6. taken \in Amount /\ basis \in Amount
  BY <1>1, <1>5, TakenIs
<1>7. d \in Told /\ d.basis = basis /\ d.taken = taken
  <2>1. Minus(Whole(n), taken) \in Amount
    BY <1>1, <1>6, MinusIs
  <2>2. d.basis = basis /\ d.taken = taken
    BY DEF Disposition
  <2> HIDE DEF taken, basis
  <2> QED
    BY <1>1, <1>6, <2>1, <2>2, DispositionIs
<1>8. /\ a = x.asset => /\ BasisOut(end, a) = Plus(BasisOut(st, a), basis)
                        /\ TakenOut(end, a) = Plus(TakenOut(st, a), taken)
      /\ a # x.asset => /\ BasisOut(end, a) = BasisOut(st, a)
                        /\ TakenOut(end, a) = TakenOut(st, a)
  <2> HIDE DEF end, d, basis, taken
  <2> QED
    BY <1>3, <1>4, <1>5, <1>7, OutGrows
<1>9. DOMAIN end.out = {e \in s : ~ ComesIn(e)}
  <2> HIDE DEF end, d
  <2>1. DOMAIN end.out = DOMAIN st.out \cup {x}
    <3>1. DOMAIN Put(st.out, x, d) = DOMAIN st.out \cup {x}
      BY ONLY PutIs
    <3> QED
      BY <1>3, <3>1
  <2> QED
    BY <2>1 DEF AverageKept
<1>10. h \in AmountHeld /\ h.known \in Amount /\ h.basis \in Amount
  BY DEF AverageState, AmountHeld
<1>11. BasisOut(st, a) \in Amount /\ TakenOut(st, a) \in Amount
  BY <1>5, OutIs
<1>12. /\ h.quantity = Whole(Left(r, a)) /\ Plus(h.basis, BasisOut(st, a)) = CostTotal(r, a)
       /\ Plus(h.known, TakenOut(st, a)) = QuantityTotal(r, a)
  BY DEF AverageKept
<1>13. CostTotal(s, a) = CostTotal(r, a) /\ QuantityTotal(s, a) = QuantityTotal(r, a)
  BY ONLY <1>1, x \in s, ~ ComesIn(x), KnownGrows
<1>14. CASE a # x.asset
  <2>1. Left(s, a) = Left(r, a)
    BY <1>14, LeftStays
  <2> QED
    BY <1>3, <1>8, <1>9, <1>12, <1>13, <1>14, <2>1 DEF AverageKept
<1>15. CASE a = x.asset
  <2>1. /\ end.held[a].quantity = IF Less(h.quantity, Whole(n)) THEN Whole(0)
                                  ELSE Minus(h.quantity, Whole(n))
        /\ end.held[a].known = Minus(h.known, taken)
        /\ end.held[a].basis = Minus(h.basis, basis)
    BY <1>3, <1>15 DEF AverageOut
  <2>2. end.held[a].quantity = Whole(Left(s, a))
    <3>1. Left(r, a) \in Nat
      BY <1>1, NetsAre
    <3>2. Left(s, a) = LET m == Left(r, a) + Change(x) IN IF m > 0 THEN m ELSE 0
      BY <1>1, <1>15, LeftGrows
    <3>3. Change(x) = -n
      BY DEF Change
    <3>4. /\ Left(r, a) < n => Left(s, a) = 0
          /\ ~ (Left(r, a) < n) => Left(s, a) = Left(r, a) - n
      BY <1>1, <3>1, <3>2, <3>3
    <3>5. /\ Minus(Whole(Left(r, a)), Whole(n)) = Whole(Left(r, a) - n)
          /\ Less(Whole(Left(r, a)), Whole(n)) <=> Left(r, a) < n
      <4> DEFINE m == Left(r, a)  k == n
      <4>1. m \in Int /\ k \in Int
        BY <1>1, <3>1
      <4> HIDE DEF m, k
      <4>2. Minus(Whole(m), Whole(k)) = Whole(m - k) /\ (Less(Whole(m), Whole(k)) <=> m < k)
        BY ONLY <4>1, WholesAdd
      <4> QED
        BY <4>2 DEF m, k
    <3> QED
      BY <1>12, <2>1, <3>4, <3>5
  <2>3. Plus(Minus(h.basis, basis), Plus(BasisOut(st, a), basis)) = Plus(h.basis, BasisOut(st, a))
    BY <1>6, <1>10, <1>11, PlusSwaps
  <2>4. Plus(Minus(h.known, taken), Plus(TakenOut(st, a), taken)) = Plus(h.known, TakenOut(st, a))
    BY <1>6, <1>10, <1>11, PlusSwaps
  <2> QED
    BY <1>8, <1>9, <1>12, <1>13, <1>15, <2>1, <2>2, <2>3, <2>4 DEF AverageKept
<1> QED
  BY <1>14, <1>15

LEMMA TotalFew ==
  ASSUME NEW f
  PROVE  /\ Total(f, {}) = Whole(0)
         /\ \A x : f[x] \in Amount => Total(f, {x}) = f[x]
<1>1. Total(f, {}) = Whole(0)
  <2>1. IsFiniteSet({}) /\ \A x \in {} : f[x] \in Amount
    BY FS_EmptySet
  <2> QED
    BY ONLY <2>1, TotalAmount
<1>2. ASSUME NEW x, f[x] \in Amount PROVE Total(f, {x}) = f[x]
  <2>1. IsFiniteSet({x}) /\ \A y \in {x} : f[y] \in Amount
    BY <1>2, FS_Singleton
  <2>2. \A y \in {x} : Total(f, {x}) = Plus(Total(f, {x} \ {y}), f[y])
    BY ONLY <2>1, TotalAmount
  <2>3. {x} \ {x} = {}
    OBVIOUS
  <2>4. Total(f, {x}) = Plus(Whole(0), f[x])
    BY <1>1, <2>2, <2>3
  <2> QED
    BY <1>2, <2>4, ZeroIs
<1> QED
  BY <1>1, <1>2

LEMMA AverageStartKept ==
  ASSUME NEW a \in Asset
  PROVE  AverageKept({}, a, AverageStart)
<1>1. /\ AverageStart.out = NoneOut /\ DOMAIN NoneOut = {}
      /\ AverageStart.held[a] = NoHolding
  BY DEF AverageStart, NoneOut
<1>2. OutOf(AverageStart, a) = {} /\ KnownOf({}, a) = {}
  BY <1>1 DEF OutOf, KnownOf
<1>3. /\ BasisOut(AverageStart, a) = Whole(0) /\ TakenOut(AverageStart, a) = Whole(0)
      /\ CostTotal({}, a) = Whole(0) /\ QuantityTotal({}, a) = Whole(0)
  BY <1>2, TotalFew DEF BasisOut, TakenOut, CostTotal, QuantityTotal
<1>4. Plus(Whole(0), Whole(0)) = Whole(0)
  BY WholeAmount, ZeroIs
<1>5. NoHolding.quantity = Whole(0) /\ NoHolding.known = Whole(0) /\ NoHolding.basis = Whole(0)
  BY DEF NoHolding
<1> QED
  BY <1>1, <1>3, <1>4, <1>5, LeftOfNone DEF AverageKept

LEMMA AverageKeeps ==
  ASSUME NEW E, Proper(E)
  PROVE  \E end \in AverageState(E) :
           /\ Through(AverageStep, AverageStart, E) = end
           /\ \A a \in Asset : AverageKept(E, a, end)
<1>1. PICK F : /\ F \in [SUBSET E -> AverageState(E)] /\ F[{}] = AverageStart
               /\ \A s \in SUBSET E : s # {} => F[s] = AverageStep(Last(s), F[s \ {Last(s)}])
               /\ Through(AverageStep, AverageStart, E) = F[E]
  BY AverageRuns
<1> DEFINE good == {s \in SUBSET E : \A a \in Asset : AverageKept(s, a, F[s])}
<1>2. {} \in good
  BY <1>1, AverageStartKept
<1>3. \A s \in SUBSET E : s # {} /\ (\A x \in s : s \ {x} \in good) => s \in good
  <2> SUFFICES ASSUME NEW s \in SUBSET E, s # {}, \A x \in s : s \ {x} \in good,
                      NEW a \in Asset
               PROVE  AverageKept(s, a, F[s])
    OBVIOUS
  <2>0. Last(s) \in s /\ \A f \in s \ {Last(s)} : Later(Last(s), f)
    BY ONLY Proper(E), s \in SUBSET E, s # {}, LastsAre
  <2>1. PICK x \in s : x = Last(s) /\ \A f \in s \ {x} : Later(x, f)
    BY <2>0
  <2> DEFINE st == F[s \ {x}]
  <2>2. AverageKept(s \ {x}, a, st)
    OBVIOUS
  <2> HIDE DEF good
  <2>3. st \in AverageState(E) /\ F[s] = AverageStep(x, st)
    BY <1>1, <2>1
  <2> HIDE DEF st
  <2>4. AverageKept(s, a, AverageStep(x, st))
    <3>1. CASE ComesIn(x)
      BY ONLY Proper(E), s \in SUBSET E, x \in s, a \in Asset, <2>1, <2>2, <2>3, <3>1,
          AverageInKeeps
    <3>2. CASE ~ ComesIn(x)
      BY ONLY Proper(E), s \in SUBSET E, x \in s, a \in Asset, <2>1, <2>2, <2>3, <3>2,
          AverageOutKeeps
    <3> QED
      BY <3>1, <3>2
  <2> QED
    BY <2>3, <2>4
<1>4. SUBSET E \subseteq good
  <2>1. IsFiniteSet(E)
    BY DEF Proper
  <2> HIDE DEF good
  <2> QED
    BY ONLY <1>2, <1>3, <2>1, SubsetsReached
<1> QED
  BY <1>1, <1>4

LEMMA NothingLeft ==
  ASSUME NEW E, NEW a, \A e \in E : e.asset # a
  PROVE  Left(E, a) = 0 /\ KnownOf(E, a) = {}
<1>1. {0} \cup {Net(E, a, e) : e \in {f \in E : f.asset = a}} = {0}
  OBVIOUS
<1>2. IsFiniteSet({0}) /\ {0} \subseteq Int /\ \A y \in {0} : y <= 0
  BY ONLY FS_Singleton
<1>3. Max({0}) = 0
  BY ONLY <1>2, GreatestOnly
<1> QED
  BY <1>1, <1>3 DEF Left, KnownOf

LEMMA AverageBalances ==
  ASSUME NEW E, Proper(E), NEW a \in Asset
  PROVE  LET result == Average(E, Asset)
         IN KeepsBasis(result, E, a) /\ LeavesWhatIsLeft(result, E, a)
<1> DEFINE result == Average(E, Asset)
           lots == LotsOf(result, a)
           out == OutOf(result, a)
           R == [l \in lots |-> result.lots[l].remaining]
           K == [l \in lots |-> result.lots[l].known]
           B == [l \in lots |-> result.lots[l].basis]
<1>1. PICK end \in AverageState(E) :
        /\ Through(AverageStep, AverageStart, E) = end
        /\ \A b \in Asset : AverageKept(E, b, end)
  BY AverageKeeps
<1>2. result = [out |-> end.out,
                lots |-> [b \in {e.asset : e \in E} |->
                  [asset |-> b, remaining |-> end.held[b].quantity,
                   known |-> end.held[b].known, basis |-> end.held[b].basis]]]
  BY <1>1 DEF Average, AverageStart
<1>3. /\ result.out = end.out /\ DOMAIN result.lots = {e.asset : e \in E}
      /\ \A b \in {e.asset : e \in E} :
           /\ result.lots[b].asset = b /\ result.lots[b].remaining = end.held[b].quantity
           /\ result.lots[b].known = end.held[b].known /\ result.lots[b].basis = end.held[b].basis
  BY <1>2
<1>4. /\ BasisOut(end, a) = Total([e \in out |-> result.out[e].basis], out)
      /\ TakenOut(end, a) = Total([e \in out |-> result.out[e].taken], out)
  BY <1>3 DEF BasisOut, TakenOut, OutOf
<1> HIDE DEF result
<1>5. /\ Plus(Total(B, lots), BasisOut(end, a)) = CostTotal(E, a)
      /\ Plus(Total(K, lots), TakenOut(end, a)) = QuantityTotal(E, a)
      /\ Total(R, lots) = Whole(Left(E, a))
  <2>1. CASE \E e \in E : e.asset = a
    <3>1. lots = {a}
      BY <1>3, <2>1 DEF LotsOf
    <3>2. /\ R[a] = end.held[a].quantity /\ K[a] = end.held[a].known /\ B[a] = end.held[a].basis
          /\ R[a] \in Amount /\ K[a] \in Amount /\ B[a] \in Amount
      <4>1. end.held[a] \in AmountHeld
        BY DEF AverageState
      <4>2. /\ end.held[a].quantity \in Amount /\ end.held[a].known \in Amount
            /\ end.held[a].basis \in Amount
        BY <4>1 DEF AmountHeld
      <4> QED
        BY <1>3, <2>1, <3>1, <4>2
    <3> HIDE DEF lots, R, K, B
    <3>3. Total(R, {a}) = R[a] /\ Total(K, {a}) = K[a] /\ Total(B, {a}) = B[a]
      BY <3>2, TotalFew
    <3> QED
      BY <1>1, <3>1, <3>2, <3>3 DEF AverageKept
  <2>2. CASE \A e \in E : e.asset # a
    <3>1. lots = {}
      BY <1>3, <2>2 DEF LotsOf
    <3>2. OutOf(end, a) = {}
      <4>1. DOMAIN end.out \subseteq E
        BY <1>1 DEF AverageKept
      <4> QED
        BY <2>2, <4>1 DEF OutOf
    <3>3. /\ BasisOut(end, a) = Whole(0) /\ TakenOut(end, a) = Whole(0)
          /\ CostTotal(E, a) = Whole(0) /\ QuantityTotal(E, a) = Whole(0)
      BY <2>2, <3>2, NothingLeft, TotalFew DEF BasisOut, TakenOut, CostTotal, QuantityTotal
    <3> HIDE DEF lots, R, K, B
    <3>4. Total(R, lots) = Whole(0) /\ Total(K, lots) = Whole(0) /\ Total(B, lots) = Whole(0)
      BY <3>1, TotalFew
    <3>5. Left(E, a) = 0
      BY <2>2, NothingLeft
    <3>6. Plus(Whole(0), Whole(0)) = Whole(0)
      BY WholeAmount, ZeroIs
    <3> QED
      BY <3>3, <3>4, <3>5, <3>6
  <2> QED
    BY <2>1, <2>2
<1>6. KeepsBasis(result, E, a) /\ LeavesWhatIsLeft(result, E, a)
  BY <1>4, <1>5 DEF KeepsBasis, LeavesWhatIsLeft, CostTotal, QuantityTotal
<1> QED
  BY <1>6 DEF result

-----------------------------------------------------------------------------
(* First in first out, last in first out. *)

LEMMA BeforeOrders ==
  ASSUME NEW E, Proper(E), NEW method
  PROVE  /\ \A e, f, g \in E : Before(method, e, f) /\ Before(method, f, g) =>
              Before(method, e, g)
         /\ \A e, f \in E : e # f /\ e.asset = f.asset =>
              (Before(method, e, f) <=> ~ Before(method, f, e))
         /\ \A e \in E : ~ Before(method, e, e)
<1>1. \A e \in E : e.id \in Int /\ e.at \in Int
  BY EventIs DEF Proper
<1>2. \A e, f \in E : e.id = f.id => e = f
  BY DEF Proper
<1>3. CASE method = "lifo"
  BY <1>1, <1>2, <1>3 DEF Before, Later
<1>4. CASE method # "lifo"
  BY <1>1, <1>2, <1>4 DEF Before, Later
<1> QED
  BY <1>3, <1>4

\* The lots that go out before l.
LotsBefore(method, E, l) == {m \in E : Before(method, m, l)}

LEMMA LotsTakenIs ==
  ASSUME NEW E, Proper(E), NEW method, NEW left \in [E -> Nat], NEW e \in E
  PROVE  /\ LotsTaken(method, left, e) \in [E -> Nat]
         /\ \A l \in E : LET wanted == e.quantity - SumFunctionOnSet(left, LotsBefore(method, E, l))
                         IN LotsTaken(method, left, e)[l] =
                              IF l.asset # e.asset \/ wanted <= 0 THEN 0
                              ELSE IF wanted < left[l] THEN wanted ELSE left[l]
         /\ \A l \in E : LotsTaken(method, left, e)[l] <= left[l]
<1> DEFINE before(l) == SumFunctionOnSet(left, LotsBefore(method, E, l))
           wanted(l) == e.quantity - before(l)
           taken(l) == IF l.asset # e.asset \/ wanted(l) <= 0 THEN 0
                       ELSE IF wanted(l) < left[l] THEN wanted(l) ELSE left[l]
<1>1. e.quantity \in Nat
  BY EventIs DEF Proper
<1>2. \A l \in E : before(l) \in Nat
  <2> SUFFICES ASSUME NEW l \in E PROVE before(l) \in Nat
    OBVIOUS
  <2>1. IsFiniteSet(LotsBefore(method, E, l)) /\ \A m \in LotsBefore(method, E, l) :
          left[m] \in Nat
    BY ProperPart DEF LotsBefore
  <2> QED
    BY ONLY <2>1, SumNat
<1>3. DOMAIN left = E
  OBVIOUS
<1>4. LotsTaken(method, left, e) = [l \in E |-> taken(l)]
  BY <1>3 DEF LotsTaken, LotsBefore
<1> HIDE DEF before
<1>5. \A l \in E : taken(l) \in Nat /\ taken(l) <= left[l]
  <2> SUFFICES ASSUME NEW l \in E PROVE taken(l) \in Nat /\ taken(l) <= left[l]
    OBVIOUS
  <2>1. left[l] \in Nat /\ before(l) \in Nat
    BY <1>2
  <2> QED
    BY <1>1, <2>1
<1> QED
  BY <1>4, <1>5 DEF before

Lesser(m, n) == IF m < n THEN m ELSE n

\* The lots that go out first are taken first, and as much as is wanted.
LEMMA FirstTaken ==
  ASSUME NEW E, Proper(E), NEW method, NEW left \in [E -> Nat], NEW e \in E,
         NEW D \in SUBSET {l \in E : l.asset = e.asset},
         \A l \in D : LotsBefore(method, E, l) \subseteq D
  PROVE  SumFunctionOnSet(LotsTaken(method, left, e), D)
           = Lesser(SumFunctionOnSet(left, D), e.quantity)
<1> DEFINE taken == LotsTaken(method, left, e)
           Down(s) == \A l \in s : LotsBefore(method, E, l) \subseteq s
           sum(s) == SumFunctionOnSet(taken, s)
           all(s) == SumFunctionOnSet(left, s)
           good == {s \in SUBSET D : Down(s) => sum(s) = Lesser(all(s), e.quantity)}
<1>1. e.quantity \in Nat
  BY EventIs DEF Proper
<1>2. taken \in [E -> Nat]
  BY LotsTakenIs
<1>3. \A s \in SUBSET D : /\ IsFiniteSet(s) /\ (\A l \in s : taken[l] \in Int)
                          /\ (\A l \in s : left[l] \in Int) /\ (\A l \in s : left[l] \in Nat)
                          /\ (\A l \in s : l \in E /\ l.asset = e.asset)
  <2> SUFFICES ASSUME NEW s \in SUBSET D PROVE IsFiniteSet(s)
    BY <1>2
  <2> QED
    BY ProperPart
<1>4. \A s \in SUBSET D : all(s) \in Nat
  BY <1>3, SumNat
<1>5. \A s \in SUBSET D : \A l \in s : /\ sum(s) = taken[l] + sum(s \ {l})
                                       /\ all(s) = left[l] + all(s \ {l})
  <2> SUFFICES ASSUME NEW s \in SUBSET D, NEW l \in s
               PROVE  sum(s) = taken[l] + sum(s \ {l}) /\ all(s) = left[l] + all(s \ {l})
    OBVIOUS
  <2>1. IsFiniteSet(s) /\ (\A m \in s : taken[m] \in Int) /\ (\A m \in s : left[m] \in Int)
    BY <1>3
  <2> HIDE DEF taken
  <2>2. sum(s) = taken[l] + sum(s \ {l})
    BY ONLY <2>1, l \in s, SumIs
  <2>3. all(s) = left[l] + all(s \ {l})
    BY ONLY <2>1, l \in s, SumIs
  <2> QED
    BY <2>2, <2>3
<1>6. {} \in good
  <2>1. IsFiniteSet({}) /\ (\A l \in {} : taken[l] \in Int) /\ (\A l \in {} : left[l] \in Int)
    BY <1>3
  <2> HIDE DEF taken
  <2>2. sum({}) = 0
    BY ONLY <2>1, SumIs
  <2>3. all({}) = 0
    BY ONLY <2>1, SumIs
  <2> QED
    BY <1>1, <2>2, <2>3 DEF Lesser
<1>7. \A s \in SUBSET D : s # {} /\ (\A l \in s : s \ {l} \in good) => s \in good
  <2> SUFFICES ASSUME NEW s \in SUBSET D, s # {}, \A l \in s : s \ {l} \in good, Down(s)
               PROVE  sum(s) = Lesser(all(s), e.quantity)
    OBVIOUS
  <2> DEFINE R == {p \in s \X s : Before(method, p[1], p[2])}
  <2>1. \A x, y \in s : <<x, y>> \in R <=> Before(method, x, y)
    OBVIOUS
  <2> HIDE DEF R
  <2>2. Ordered(R, s)
    BY <1>3, <2>1, BeforeOrders DEF Ordered
  <2>3. PICK m \in s : \A x \in s \ {m} : <<x, m>> \in R
    BY <2>2, LastOfOrder
  <2>4. LotsBefore(method, E, m) = s \ {m}
    <3>1. \A x \in s \ {m} : x \in E /\ Before(method, x, m)
      BY <1>3, <2>1, <2>3
    <3>2. ~ Before(method, m, m)
      BY <1>3, BeforeOrders
    <3>3. LotsBefore(method, E, m) \subseteq s
      OBVIOUS
    <3> QED
      BY <3>1, <3>2, <3>3 DEF LotsBefore
  <2>5. Down(s \ {m})
    <3> SUFFICES ASSUME NEW l \in s \ {m}, NEW x \in E, Before(method, x, l)
                 PROVE  x \in s \ {m}
      BY DEF LotsBefore
    <3>1. x \in s
      BY DEF LotsBefore
    <3>2. Before(method, l, m) /\ l \in E /\ m \in E
      BY <1>3, <2>1, <2>3
    <3>3. x # m
      BY <3>2, BeforeOrders
    <3> QED
      BY <3>1, <3>3
  <2>6. sum(s \ {m}) = Lesser(all(s \ {m}), e.quantity)
    <3>1. s \ {m} \in good
      OBVIOUS
    <3> QED
      BY <2>5, <3>1
  <2>7. taken[m] = LET wanted == e.quantity - all(s \ {m})
                   IN IF wanted <= 0 THEN 0 ELSE IF wanted < left[m] THEN wanted ELSE left[m]
    <3>1. m \in E /\ m.asset = e.asset
      BY <1>3
    <3>2. LET wanted == e.quantity - SumFunctionOnSet(left, LotsBefore(method, E, m))
          IN LotsTaken(method, left, e)[m] =
               IF m.asset # e.asset \/ wanted <= 0 THEN 0
               ELSE IF wanted < left[m] THEN wanted ELSE left[m]
      BY ONLY Proper(E), left \in [E -> Nat], e \in E, <3>1, LotsTakenIs
    <3> QED
      BY <2>4, <3>1, <3>2
  <2>8. left[m] \in Nat /\ all(s \ {m}) \in Nat /\ s \ {m} \in SUBSET D
    BY <1>3, <1>4
  <2>9. sum(s) = taken[m] + sum(s \ {m}) /\ all(s) = left[m] + all(s \ {m})
    BY <1>5
  <2> HIDE DEF taken, sum, all
  <2> QED
    BY <1>1, <2>6, <2>7, <2>8, <2>9 DEF Lesser
<1>8. SUBSET D \subseteq good
  <2>1. IsFiniteSet(D)
    BY <1>3
  <2> HIDE DEF good
  <2> QED
    BY ONLY <1>6, <1>7, <2>1, SubsetsReached
<1> HIDE DEF sum, all, taken
<1>9. sum(D) = Lesser(all(D), e.quantity)
  BY <1>8
<1> QED
  BY <1>9 DEF sum, all, taken

\* What is left of each event and what was told, nothing at first.
LotsState(E) == [left : [E -> Nat], out : Outs(E)]
LotsStart(E) == [left |-> [e \in E |-> 0], out |-> NoneOut]

LEMMA PartIs ==
  ASSUME NEW l \in EventSet, NEW m \in Int, NEW n \in Int
  PROVE  /\ PartOf(l, m) \in Amount /\ PartOf(l, 0) = Whole(0)
         /\ Plus(PartOf(l, m), PartOf(l, n)) = PartOf(l, m + n)
         /\ Cost(l) # None => PartOf(l, l.quantity) = Cost(l)
         /\ Cost(l) = None => PartOf(l, m) = Whole(0)
<1>1. l.quantity \in Nat /\ l.quantity > 0 /\ Cost(l) \in Amount \cup {None}
  BY EventIs
<1>2. CASE Cost(l) = None
  <2>1. \A k \in Int : PartOf(l, k) = Whole(0)
    BY <1>2 DEF PartOf
  <2>2. m + n \in Int /\ 0 \in Int /\ Plus(Whole(0), Whole(0)) = Whole(0) /\ Whole(0) \in Amount
    BY WholeAmount, ZeroIs
  <2> QED
    BY <1>2, <2>1, <2>2
<1>3. CASE Cost(l) # None
  <2>1. \A k \in Int : PartOf(l, k) = Times(Cost(l), <<k, l.quantity>>)
    BY <1>3 DEF PartOf
  <2> DEFINE c == Cost(l)  q == l.quantity
  <2>2. c \in Amount /\ q \in Nat /\ q > 0
    BY <1>1, <1>3
  <2> HIDE DEF c, q
  <2>3. /\ Times(c, <<m, q>>) \in Amount
        /\ Plus(Times(c, <<m, q>>), Times(c, <<n, q>>)) = Times(c, <<m + n, q>>)
        /\ Times(c, <<0, q>>) = Whole(0) /\ Times(c, <<q, q>>) = c
    BY ONLY <2>2, m \in Int, n \in Int, PartsAdd
  <2>4. m + n \in Int /\ 0 \in Int /\ q \in Int
    BY <2>2
  <2> QED
    BY <1>3, <2>1, <2>3, <2>4 DEF c, q
<1> QED
  BY <1>2, <1>3

\* What the parts taken of lots of known cost did cost.
KnownLots(E) == {l \in E : ComesIn(l) /\ Cost(l) # None}
SoldBasis(taken, K) == Total([l \in K |-> PartOf(l, taken[l])], K)

LEMMA SoldIs ==
  ASSUME NEW E, Proper(E), NEW taken \in [E -> Nat], NEW K \in SUBSET E
  PROVE  /\ SoldBasis(taken, K) \in Amount /\ SumFunctionOnSet(taken, K) \in Nat /\ IsFiniteSet(K)
         /\ \A l \in K : PartOf(l, taken[l]) \in Amount
<1> DEFINE f == [l \in K |-> PartOf(l, taken[l])]
<1>1. IsFiniteSet(K)
  BY ProperPart
<1>2. \A l \in K : PartOf(l, taken[l]) \in Amount
  <2> SUFFICES ASSUME NEW l \in K PROVE PartOf(l, taken[l]) \in Amount
    OBVIOUS
  <2>1. l \in EventSet /\ taken[l] \in Int
    BY DEF Proper
  <2> QED
    BY <2>1, PartIs
<1>3. \A l \in K : f[l] \in Amount
  BY <1>2
<1>4. \A l \in K : taken[l] \in Nat
  OBVIOUS
<1>5. SoldBasis(taken, K) = Total(f, K)
  BY DEF SoldBasis
<1> HIDE DEF f
<1>6. Total(f, K) \in Amount
  BY ONLY <1>1, <1>3, TotalAmount
<1>7. SumFunctionOnSet(taken, K) \in Nat
  BY ONLY <1>1, <1>4, SumNat
<1> QED
  BY <1>1, <1>2, <1>5, <1>6, <1>7

\* What an event does to what is left.
LotOut(method, E, x, st) ==
  LET taken == LotsTaken(method, st.left, x)
      sold == SumFunctionOnSet(taken, KnownLots(E))
  IN Disposition(x, SoldBasis(taken, KnownLots(E)), Whole(x.quantity - sold), Whole(sold))

LEMMA LotStepIs ==
  ASSUME NEW E, Proper(E), NEW method, NEW x \in E, NEW st \in LotsState(E)
  PROVE  LET taken == LotsTaken(method, st.left, x)
         IN /\ ComesIn(x) => LotStep(method, x, st) = [st EXCEPT !.left[x] = x.quantity]
            /\ ~ ComesIn(x) => LotStep(method, x, st) =
                  [left |-> [l \in E |-> st.left[l] - taken[l]],
                   out |-> Put(st.out, x, LotOut(method, E, x, st))]
            /\ LotOut(method, E, x, st) \in Told
            /\ LotStep(method, x, st) \in LotsState(E)
<1> DEFINE taken == LotsTaken(method, st.left, x)
           K == KnownLots(E)
           sold == SumFunctionOnSet(taken, K)
           d == LotOut(method, E, x, st)
<1>1. st.left \in [E -> Nat] /\ st.out \in Outs(E)
  BY DEF LotsState
<1>2. x \in EventSet /\ x.quantity \in Nat
  BY EventIs DEF Proper
<1>3. taken \in [E -> Nat] /\ \A l \in E : taken[l] <= st.left[l]
  BY ONLY Proper(E), x \in E, <1>1, LotsTakenIs
<1>4. K \subseteq E
  BY DEF KnownLots
<1>5. DOMAIN taken = E
  BY <1>3
<1>6. {l \in DOMAIN taken : ComesIn(l) /\ Cost(l) # None} = K
  BY <1>5 DEF KnownLots
<1>7. d = Disposition(x, SoldBasis(taken, K), Whole(x.quantity - sold), Whole(sold))
  BY DEF LotOut
<1>8. ComesIn(x) => LotStep(method, x, st) = [st EXCEPT !.left[x] = x.quantity]
  BY DEF LotStep
<1>9. ~ ComesIn(x) => LotStep(method, x, st) =
        [left |-> [l \in E |-> st.left[l] - taken[l]], out |-> Put(st.out, x, d)]
  BY <1>5, <1>6, <1>7 DEF LotStep, SoldBasis
<1> HIDE DEF d, taken, K
<1>10. SoldBasis(taken, K) \in Amount /\ sold \in Nat
  BY ONLY Proper(E), <1>3, <1>4, SoldIs
<1>11. d \in Told
  <2>1. Whole(sold) \in Amount /\ Whole(x.quantity - sold) \in Amount
    BY <1>2, <1>10, WholeAmount
  <2> HIDE DEF sold
  <2> QED
    BY <1>2, <1>7, <1>10, <2>1, DispositionIs
<1>12. Put(st.out, x, d) \in Outs(E)
  BY <1>1, <1>11, PutOuts
<1>13. [l \in E |-> st.left[l] - taken[l]] \in [E -> Nat]
  BY <1>1, <1>3
<1>14. [st EXCEPT !.left[x] = x.quantity] \in LotsState(E)
  BY <1>1, <1>2 DEF LotsState
<1>15. [left |-> [l \in E |-> st.left[l] - taken[l]], out |-> Put(st.out, x, d)] \in LotsState(E)
  BY <1>12, <1>13 DEF LotsState
<1> QED
  BY <1>8, <1>9, <1>11, <1>14, <1>15 DEF d, taken

LotsRun(method, E, start, F) ==
  F = [s \in SUBSET E |->
        IF s = {} THEN start ELSE LET x == Last(s) IN LotStep(method, x, F[s \ {x}])]

LotsThrough(method, E) ==
  Through(LAMBDA e, state : LotStep(method, e, state), LotsStart(E), E)

LEMMA LotsExpand ==
  ASSUME NEW E, NEW method, \E F : LotsRun(method, E, LotsStart(E), F)
  PROVE  \E F : LotsRun(method, E, LotsStart(E), F) /\ LotsThrough(method, E) = F[E]
<1> DEFINE start == LotsStart(E)
           F == CHOOSE F : LotsRun(method, E, start, F)
<1>1. LotsRun(method, E, start, F)
  OBVIOUS
<1> HIDE DEF start
<1>2. Through(LAMBDA e, state : LotStep(method, e, state), start, E) = F[E]
  BY DEF Through, MapThenFoldSet, LotsRun
<1> QED
  BY <1>1, <1>2 DEF start, LotsThrough

LEMMA LotsRuns ==
  ASSUME NEW E, Proper(E), NEW method
  PROVE  \E F : /\ F \in [SUBSET E -> LotsState(E)] /\ F[{}] = LotsStart(E)
                /\ \A s \in SUBSET E : s # {} => F[s] = LotStep(method, Last(s), F[s \ {Last(s)}])
                /\ LotsThrough(method, E) = F[E]
<1> DEFINE V == LotsState(E)
           c == Lasts(E)
           start == LotsStart(E)
           step(p) == IF p[1] = {} THEN p[2] ELSE LotStep(method, c[p[1]], p[2])
           g == [p \in (SUBSET E) \X V |-> step(p)]
<1>1. start \in V
  <2>1. NoneOut \in Outs(E)
    <3>1. NoneOut \in [{} -> Told]
      BY DEF NoneOut
    <3> QED
      BY <3>1 DEF Outs
  <2> QED
    BY <2>1 DEF LotsStart, LotsState
<1> HIDE DEF start
<1>2. \A s \in SUBSET E : s # {} => /\ c[s] \in s /\ c[s] = Last(s) /\ s \ {c[s]} \in SUBSET E
  <2> SUFFICES ASSUME NEW s \in SUBSET E, s # {}
               PROVE  Lasts(E)[s] \in s /\ Lasts(E)[s] = Last(s)
    OBVIOUS
  <2>1. Proper(E)
    OBVIOUS
  <2>2. Last(s) \in s /\ Lasts(E)[s] = Last(s)
    BY ONLY <2>1, s \in SUBSET E, s # {}, LastsAre
  <2> QED
    BY <2>2
<1>3. IsFiniteSet(E) /\ E \subseteq EventSet
  BY DEF Proper
<1> HIDE DEF c
<1>4. \A s \in SUBSET E, v \in V : s # {} => LotStep(method, c[s], v) \in V
  <2> SUFFICES ASSUME NEW s \in SUBSET E, NEW v \in V, s # {} PROVE LotStep(method, c[s], v) \in V
    OBVIOUS
  <2>1. c[s] \in E
    BY <1>2
  <2> DEFINE x == c[s]
  <2> HIDE DEF x
  <2>2. x \in E
    BY <2>1 DEF x
  <2>3. LotStep(method, x, v) \in LotsState(E)
    BY ONLY Proper(E), v \in LotsState(E), <2>2, LotStepIs
  <2> QED
    BY <2>3 DEF x
<1> HIDE DEF V
<1>5. g \in [(SUBSET E) \X V -> V]
  BY <1>4
<1>6. \A s \in SUBSET E, v \in V : s # {} => g[<<s, v>>] = LotStep(method, c[s], v)
  OBVIOUS
<1> HIDE DEF g
<1>7. PICK F : Folded(F, E, V, start, c, g)
  <2>1. \A s \in SUBSET E : s # {} => c[s] \in s
    BY <1>2
  <2> QED
    BY ONLY <1>1, <1>3, <1>5, <2>1, FoldExists
<1>8. F \in [SUBSET E -> V] /\ F[{}] = start
  BY <1>7 DEF Folded
<1>9. \A s \in SUBSET E : s # {} => F[s] = LotStep(method, Last(s), F[s \ {Last(s)}])
  <2> SUFFICES ASSUME NEW s \in SUBSET E, s # {}
               PROVE  F[s] = LotStep(method, Last(s), F[s \ {Last(s)}])
    OBVIOUS
  <2>1. F[s] = g[<<s, F[s \ {c[s]}]>>]
    BY <1>7 DEF Folded
  <2>2. F[s \ {c[s]}] \in V
    BY <1>2, <1>8
  <2>3. g[<<s, F[s \ {c[s]}]>>] = LotStep(method, c[s], F[s \ {c[s]}])
    BY <1>6, <2>2
  <2> QED
    BY <1>2, <2>1, <2>3
<1>10. LotsRun(method, E, start, F)
  <2>1. F = [s \in SUBSET E |-> F[s]]
    BY <1>8
  <2> QED
    BY <1>8, <1>9, <2>1 DEF LotsRun
<1>11. PICK G : LotsRun(method, E, start, G) /\ LotsThrough(method, E) = G[E]
  <2>1. \E H : LotsRun(method, E, LotsStart(E), H)
    BY <1>10 DEF start
  <2> QED
    BY <2>1, LotsExpand DEF start
<1>12. /\ G = [s \in SUBSET E |-> G[s]] /\ G[{}] = start
       /\ \A s \in SUBSET E : s # {} => G[s] = LotStep(method, Last(s), G[s \ {Last(s)}])
  BY <1>11 DEF LotsRun
<1> DEFINE good == {s \in SUBSET E : G[s] \in V}
<1>13. {} \in good
  BY <1>1, <1>12
<1>14. \A s \in SUBSET E : s # {} /\ (\A x \in s : s \ {x} \in good) => s \in good
  <2> SUFFICES ASSUME NEW s \in SUBSET E, s # {}, \A x \in s : s \ {x} \in good
               PROVE  G[s] \in V
    OBVIOUS
  <2>1. Last(s) \in s /\ c[s] = Last(s)
    BY <1>2
  <2>2. G[s \ {Last(s)}] \in V
    BY <2>1
  <2> HIDE DEF good
  <2> QED
    BY <1>4, <1>12, <2>1, <2>2
<1>15. SUBSET E \subseteq good
  <2> HIDE DEF good
  <2> QED
    BY ONLY <1>3, <1>13, <1>14, SubsetsReached
<1>16. G \in [SUBSET E -> V]
  BY <1>12, <1>15
<1> QED
  BY <1>11, <1>12, <1>16 DEF V, start

AssetLots(E, a) == {l \in E : l.asset = a}

\* What holds after the events of s, of lots among E.
LotsKept(E, s, a, st) ==
  /\ DOMAIN st.out = {e \in s : ~ ComesIn(e)}
  /\ \A l \in E : l \notin s \/ ~ ComesIn(l) => st.left[l] = 0
  /\ SumFunctionOnSet(st.left, AssetLots(E, a)) = Left(s, a)
  /\ Plus(SoldBasis(st.left, KnownOf(s, a)), BasisOut(st, a)) = CostTotal(s, a)
  /\ Plus(Whole(SumFunctionOnSet(st.left, KnownOf(s, a))), TakenOut(st, a)) = QuantityTotal(s, a)

LEMMA SoldSame ==
  ASSUME NEW E, Proper(E), NEW f \in [E -> Nat], NEW g \in [E -> Nat], NEW K \in SUBSET E,
         \A l \in K : g[l] = f[l]
  PROVE  SoldBasis(g, K) = SoldBasis(f, K) /\ SumFunctionOnSet(g, K) = SumFunctionOnSet(f, K)
<1>1. SoldBasis(g, K) = SoldBasis(f, K)
  <2>1. [l \in K |-> PartOf(l, g[l])] = [l \in K |-> PartOf(l, f[l])]
    OBVIOUS
  <2> QED
    BY <2>1 DEF SoldBasis
<1>2. IsFiniteSet(K) /\ \A l \in K : f[l] \in Int /\ g[l] = f[l]
  BY ProperPart
<1>3. SumFunctionOnSet(g, K) = SumFunctionOnSet(f, K)
  BY ONLY <1>2, SumSame
<1> QED
  BY <1>1, <1>3

LEMMA SoldMore ==
  ASSUME NEW E, Proper(E), NEW f \in [E -> Nat], NEW g \in [E -> Nat], NEW K \in SUBSET E,
         NEW x \in E \ K, \A l \in K : g[l] = f[l]
  PROVE  /\ SoldBasis(g, K \cup {x}) = Plus(SoldBasis(f, K), PartOf(x, g[x]))
         /\ SumFunctionOnSet(g, K \cup {x}) = g[x] + SumFunctionOnSet(f, K)
<1> DEFINE T == K \cup {x}
           p == [l \in K |-> PartOf(l, f[l])]
           q == [l \in T |-> PartOf(l, g[l])]
<1>1. T \in SUBSET E
  OBVIOUS
<1>2. IsFiniteSet(K) /\ x \notin K /\ \A l \in K : PartOf(l, f[l]) \in Amount
  BY SoldIs
<1>3. IsFiniteSet(T) /\ \A l \in T : PartOf(l, g[l]) \in Amount
  <2> HIDE DEF T
  <2> QED
    BY <1>1, SoldIs
<1>4. (\A l \in K : p[l] \in Amount /\ q[l] = p[l]) /\ q[x] \in Amount /\ q[x] = PartOf(x, g[x])
  BY <1>2, <1>3
<1>5. SoldBasis(g, T) = Total(q, T) /\ SoldBasis(f, K) = Total(p, K)
  BY DEF SoldBasis
<1> HIDE DEF p, q
<1>6. Total(q, K \cup {x}) = Plus(Total(p, K), q[x])
  BY ONLY <1>2, <1>4, TotalMore
<1>7. x \in T /\ T \ {x} = K /\ \A l \in T : g[l] \in Int
  BY <1>1, <1>2
<1>8. SumFunctionOnSet(g, K) = SumFunctionOnSet(f, K)
  BY SoldSame
<1> HIDE DEF T
<1>9. SumFunctionOnSet(g, T) = g[x] + SumFunctionOnSet(g, T \ {x})
  BY ONLY <1>3, <1>7, SumIs
<1> QED
  BY <1>4, <1>5, <1>6, <1>7, <1>8, <1>9 DEF T

\* What is sold and what is left make up what there was.
LEMMA SoldApart ==
  ASSUME NEW E, Proper(E), NEW f \in [E -> Nat], NEW g \in [E -> Nat], NEW h \in [E -> Nat],
         NEW K \in SUBSET E, \A l \in K : h[l] = f[l] + g[l]
  PROVE  /\ SoldBasis(h, K) = Plus(SoldBasis(f, K), SoldBasis(g, K))
         /\ SumFunctionOnSet(h, K) = SumFunctionOnSet(f, K) + SumFunctionOnSet(g, K)
<1> DEFINE p == [l \in K |-> PartOf(l, f[l])]
           q == [l \in K |-> PartOf(l, g[l])]
           r == [l \in K |-> PartOf(l, h[l])]
<1>1. IsFiniteSet(K)
  BY ProperPart
<1>2. \A l \in K : p[l] \in Amount /\ q[l] \in Amount /\ r[l] = Plus(p[l], q[l])
  <2> SUFFICES ASSUME NEW l \in K
               PROVE  /\ PartOf(l, f[l]) \in Amount /\ PartOf(l, g[l]) \in Amount
                      /\ PartOf(l, h[l]) = Plus(PartOf(l, f[l]), PartOf(l, g[l]))
    OBVIOUS
  <2> DEFINE m == f[l]  n == g[l]
  <2>1. l \in EventSet /\ m \in Int /\ n \in Int /\ h[l] = m + n
    BY DEF Proper
  <2> HIDE DEF m, n
  <2>2. PartOf(l, m) \in Amount /\ Plus(PartOf(l, m), PartOf(l, n)) = PartOf(l, m + n)
    BY ONLY <2>1, PartIs
  <2>3. PartOf(l, n) \in Amount
    BY ONLY <2>1, PartIs
  <2> QED
    BY <2>1, <2>2, <2>3 DEF m, n
<1>3. SoldBasis(h, K) = Total(r, K) /\ SoldBasis(f, K) = Total(p, K)
        /\ SoldBasis(g, K) = Total(q, K)
  BY DEF SoldBasis
<1> HIDE DEF p, q, r
<1>4. Total(r, K) = Plus(Total(p, K), Total(q, K))
  BY ONLY <1>1, <1>2, TotalPlus
<1>5. \A l \in K : f[l] \in Int /\ g[l] \in Int /\ h[l] = f[l] + g[l]
  OBVIOUS
<1>6. SumFunctionOnSet(h, K) = SumFunctionOnSet(f, K) + SumFunctionOnSet(g, K)
  BY ONLY <1>1, <1>5, SumPlus
<1> QED
  BY <1>3, <1>4, <1>6

LEMMA SoldZeros ==
  ASSUME NEW E, Proper(E), NEW f \in [E -> Nat], NEW S \in SUBSET E, NEW K \in SUBSET S,
         \A l \in S \ K : f[l] = 0
  PROVE  SoldBasis(f, S) = SoldBasis(f, K) /\ SumFunctionOnSet(f, S) = SumFunctionOnSet(f, K)
<1> DEFINE p == [l \in S |-> PartOf(l, f[l])]
           q == [l \in K |-> PartOf(l, f[l])]
<1>1. IsFiniteSet(S) /\ \A l \in S : PartOf(l, f[l]) \in Amount
  BY SoldIs
<1>2. (\A l \in S : p[l] \in Amount) /\ \A l \in S \ K : p[l] = Whole(0)
  <2>1. \A l \in S \ K : PartOf(l, 0) = Whole(0)
    <3> SUFFICES ASSUME NEW l \in S \ K PROVE PartOf(l, 0) = Whole(0)
      OBVIOUS
    <3>1. l \in EventSet /\ 0 \in Int
      BY DEF Proper
    <3> QED
      BY <3>1, PartIs
  <2> QED
    BY <1>1, <2>1
<1>3. IsFiniteSet(K) /\ \A l \in K : p[l] \in Amount /\ q[l] = p[l]
  BY <1>1, ProperPart
<1>4. SoldBasis(f, S) = Total(p, S) /\ SoldBasis(f, K) = Total(q, K)
  BY DEF SoldBasis
<1>5. (\A l \in S : f[l] \in Int) /\ \A l \in S \ K : f[l] = 0
  OBVIOUS
<1> HIDE DEF p, q
<1>6. Total(p, S) = Total(p, K)
  BY ONLY K \in SUBSET S, <1>1, <1>2, TotalZeros
<1>7. Total(q, K) = Total(p, K)
  BY ONLY <1>3, TotalSame
<1>8. SumFunctionOnSet(f, S) = SumFunctionOnSet(f, K)
  BY ONLY K \in SUBSET S, <1>1, <1>5, SumZeros
<1> QED
  BY <1>4, <1>6, <1>7, <1>8

LEMMA PlusTurns ==
  ASSUME NEW a \in Amount, NEW b \in Amount, NEW c \in Amount
  PROVE  Plus(a, Plus(b, c)) = Plus(Plus(a, c), b)
<1>1. Plus(Plus(a, c), b) = Plus(Plus(a, b), c)
  BY PlusSwaps
<1>2. Plus(Plus(a, b), c) = Plus(a, Plus(b, c))
  BY PlusAssociates
<1> QED
  BY <1>1, <1>2

LEMMA LotsInKeeps ==
  ASSUME NEW E, Proper(E), NEW method, NEW s \in SUBSET E, NEW x \in s,
         \A f \in s \ {x} : Later(x, f),
         NEW st \in LotsState(E), NEW a, LotsKept(E, s \ {x}, a, st), ComesIn(x)
  PROVE  LotsKept(E, s, a, LotStep(method, x, st))
<1> DEFINE end == LotStep(method, x, st)
           r == s \ {x}
           n == x.quantity
           A == AssetLots(E, a)
           K == KnownOf(r, a)
<1>1. /\ x \in E /\ x \in EventSet /\ n \in Nat /\ n > 0 /\ Proper(s) /\ Proper(r)
           /\ r \in SUBSET E
      /\ Cost(x) \in Amount \cup {None}
  BY ProperPart, EventIs DEF Proper
<1>2. end = [st EXCEPT !.left[x] = n] /\ end \in LotsState(E)
  BY ONLY <1>1, Proper(E), st \in LotsState(E), ComesIn(x), LotStepIs
<1>3. /\ end.out = st.out /\ end.left \in [E -> Nat] /\ st.left \in [E -> Nat]
           /\ st.out \in Outs(E)
      /\ end.left[x] = n /\ \A l \in E \ {x} : end.left[l] = st.left[l]
  BY <1>1, <1>2 DEF LotsState
<1> HIDE DEF end
<1>4. BasisOut(end, a) = BasisOut(st, a) /\ TakenOut(end, a) = TakenOut(st, a)
  BY <1>3 DEF BasisOut, TakenOut, OutOf
<1>5. DOMAIN end.out = {e \in s : ~ ComesIn(e)}
  BY <1>3 DEF LotsKept
<1>6. \A l \in E : l \notin s \/ ~ ComesIn(l) => end.left[l] = 0
  BY <1>3 DEF LotsKept
<1>7. st.left[x] = 0
  BY <1>1 DEF LotsKept
<1>8. BasisOut(st, a) \in Amount /\ TakenOut(st, a) \in Amount
  BY <1>3, OutIs
<1>9. K \subseteq r /\ K \subseteq E /\ x \notin K
  BY DEF KnownOf
<1>10. SoldBasis(st.left, K) \in Amount /\ SumFunctionOnSet(st.left, K) \in Nat
  BY ONLY Proper(E), <1>3, <1>9, SoldIs
<1>11. /\ SumFunctionOnSet(st.left, A) = Left(r, a)
       /\ Plus(SoldBasis(st.left, K), BasisOut(st, a)) = CostTotal(r, a)
       /\ Plus(Whole(SumFunctionOnSet(st.left, K)), TakenOut(st, a)) = QuantityTotal(r, a)
  BY DEF LotsKept
<1>12. Left(r, a) \in Nat
  BY <1>1, NetsAre
<1>13. SumFunctionOnSet(end.left, A) = Left(s, a)
  <2>1. CASE a = x.asset
    <3> DEFINE B == A \ {x}
    <3>1. x \in A /\ B \in SUBSET E /\ A = B \cup {x} /\ x \in E \ B
      BY <1>1, <2>1 DEF AssetLots
    <3>2. (\A l \in B : end.left[l] = st.left[l]) /\ (\A l \in B : st.left[l] = st.left[l])
      BY <1>3, <3>1
    <3> HIDE DEF A, B
    <3>3. SumFunctionOnSet(end.left, B \cup {x}) = end.left[x] + SumFunctionOnSet(st.left, B)
      BY ONLY Proper(E), <1>3, <3>1, <3>2, SoldMore
    <3>4. SumFunctionOnSet(st.left, B \cup {x}) = st.left[x] + SumFunctionOnSet(st.left, B)
      BY ONLY Proper(E), <1>3, <3>1, <3>2, SoldMore
    <3>5. SumFunctionOnSet(st.left, B) \in Nat
      BY ONLY Proper(E), <1>3, <3>1, SoldIs
    <3>6. Left(s, a) = Left(r, a) + n
      <4>1. Left(s, a) = LET m == Left(r, a) + Change(x) IN IF m > 0 THEN m ELSE 0
        BY <1>1, <2>1, LeftGrows
      <4>2. Change(x) = n
        BY DEF Change
      <4> QED
        BY <1>1, <1>12, <4>1, <4>2
    <3> QED
      BY <1>1, <1>3, <1>7, <1>11, <3>1, <3>3, <3>4, <3>5, <3>6
  <2>2. CASE a # x.asset
    <3>1. A \in SUBSET E /\ \A l \in A : end.left[l] = st.left[l]
      BY <1>3, <2>2 DEF AssetLots
    <3> HIDE DEF A
    <3>2. SumFunctionOnSet(end.left, A) = SumFunctionOnSet(st.left, A)
      BY ONLY Proper(E), <1>3, <3>1, SoldSame
    <3>3. Left(s, a) = Left(r, a)
      BY <2>2, LeftStays
    <3> QED
      BY <1>11, <3>2, <3>3
  <2> QED
    BY <2>1, <2>2
<1>17. /\ a = x.asset /\ ComesIn(x) /\ Cost(x) # None =>
            /\ KnownOf(s, a) = K \cup {x} /\ Cost(x) \in Amount
       /\ a # x.asset \/ ~ ComesIn(x) \/ Cost(x) = None => KnownOf(s, a) = K
  BY <1>1 DEF KnownOf
<1>14. /\ a = x.asset /\ ComesIn(x) /\ Cost(x) # None =>
            /\ CostTotal(s, a) = Plus(CostTotal(r, a), Cost(x))
            /\ QuantityTotal(s, a) = Plus(QuantityTotal(r, a), Whole(n))
       /\ a # x.asset \/ ~ ComesIn(x) \/ Cost(x) = None =>
            /\ CostTotal(s, a) = CostTotal(r, a)
            /\ QuantityTotal(s, a) = QuantityTotal(r, a)
  BY ONLY <1>1, x \in s, KnownGrows
<1>15. \A l \in K : end.left[l] = st.left[l]
  BY <1>3, <1>9
<1> HIDE DEF K, A
<1>16. /\ Plus(SoldBasis(end.left, KnownOf(s, a)), BasisOut(end, a)) = CostTotal(s, a)
       /\ Plus(Whole(SumFunctionOnSet(end.left, KnownOf(s, a))), TakenOut(end, a)) = QuantityTotal(s, a)
  <2>1. CASE a = x.asset /\ Cost(x) # None
    <3>1. KnownOf(s, a) = K \cup {x} /\ Cost(x) \in Amount /\ x \in E \ K /\ Whole(n) \in Amount
      BY <1>1, <1>9, <1>14, <1>17, <2>1, WholeAmount
    <3>2. /\ SoldBasis(end.left, K \cup {x}) = Plus(SoldBasis(st.left, K), PartOf(x, end.left[x]))
          /\ SumFunctionOnSet(end.left, K \cup {x}) = end.left[x] + SumFunctionOnSet(st.left, K)
      BY ONLY Proper(E), <1>3, <1>9, <1>15, <3>1, SoldMore
    <3>3. PartOf(x, end.left[x]) = Cost(x)
      <4>1. n \in Int
        BY <1>1
      <4> QED
        BY <1>1, <1>3, <2>1, <4>1, PartIs
    <3> DEFINE m == SumFunctionOnSet(st.left, K)
    <3>4. Whole(n + m) = Plus(Whole(m), Whole(n)) /\ Whole(m) \in Amount
      <4>1. m \in Int /\ n \in Int /\ n + m = m + n
        BY <1>1, <1>10
      <4> HIDE DEF m
      <4>2. Plus(Whole(m), Whole(n)) = Whole(m + n)
        BY ONLY <4>1, WholesAdd
      <4>3. Whole(m) \in Amount
        BY ONLY <4>1, WholeAmount
      <4> QED
        BY <4>1, <4>2, <4>3
    <3>5. Plus(Plus(SoldBasis(st.left, K), Cost(x)), BasisOut(st, a))
            = Plus(Plus(SoldBasis(st.left, K), BasisOut(st, a)), Cost(x))
      BY ONLY <1>8, <1>10, <3>1, PlusSwaps
    <3>6. Plus(Plus(Whole(m), Whole(n)), TakenOut(st, a))
            = Plus(Plus(Whole(m), TakenOut(st, a)), Whole(n))
      BY ONLY <1>8, <3>1, <3>4, PlusSwaps
    <3>7. Plus(SoldBasis(end.left, K \cup {x}), BasisOut(end, a)) = CostTotal(s, a)
      BY <1>4, <1>11, <1>14, <2>1, <3>2, <3>3, <3>5
    <3>8. Plus(Whole(SumFunctionOnSet(end.left, K \cup {x})), TakenOut(end, a)) = QuantityTotal(s, a)
      BY <1>3, <1>4, <1>11, <1>14, <2>1, <3>2, <3>4, <3>6
    <3> QED
      BY <3>1, <3>7, <3>8
  <2>2. CASE ~ (a = x.asset /\ Cost(x) # None)
    <3>1. /\ SoldBasis(end.left, K) = SoldBasis(st.left, K)
          /\ SumFunctionOnSet(end.left, K) = SumFunctionOnSet(st.left, K)
      BY ONLY Proper(E), <1>3, <1>9, <1>15, SoldSame
    <3>2. /\ KnownOf(s, a) = K /\ CostTotal(s, a) = CostTotal(r, a)
          /\ QuantityTotal(s, a) = QuantityTotal(r, a)
      BY <1>14, <1>17, <2>2
    <3> QED
      BY <1>4, <1>11, <3>1, <3>2
  <2> QED
    BY <2>1, <2>2
<1> QED
  BY <1>5, <1>6, <1>13, <1>16 DEF LotsKept, A, end

\* What goes out is taken from what is left.
LEMMA LotsOutKeeps ==
  ASSUME NEW E, Proper(E), NEW method, NEW s \in SUBSET E, NEW x \in s,
         \A f \in s \ {x} : Later(x, f),
         NEW st \in LotsState(E), NEW a, LotsKept(E, s \ {x}, a, st), ~ ComesIn(x)
  PROVE  LotsKept(E, s, a, LotStep(method, x, st))
<1> DEFINE end == LotStep(method, x, st)
           taken == LotsTaken(method, st.left, x)
           sold == SumFunctionOnSet(taken, KnownLots(E))
           d == LotOut(method, E, x, st)
           r == s \ {x}
           n == x.quantity
           A == AssetLots(E, a)
           K == KnownOf(r, a)
<1>1. /\ x \in E /\ x \in EventSet /\ n \in Nat /\ n > 0 /\ Proper(s) /\ Proper(r)
           /\ r \in SUBSET E
  BY ProperPart, EventIs DEF Proper
<1>2. /\ end = [left |-> [l \in E |-> st.left[l] - taken[l]], out |-> Put(st.out, x, d)]
      /\ d \in Told /\ end \in LotsState(E)
  <2>1. /\ LotStep(method, x, st) = [left |-> [l \in E |-> st.left[l] - LotsTaken(method, st.left, x)[l]],
                                     out |-> Put(st.out, x, LotOut(method, E, x, st))]
        /\ LotOut(method, E, x, st) \in Told
        /\ LotStep(method, x, st) \in LotsState(E)
    <3>1. x \in E
      BY <1>1
    <3> QED
      BY ONLY <3>1, Proper(E), st \in LotsState(E), ~ ComesIn(x), LotStepIs
  <2> QED
    BY <2>1
<1>3. d.basis = SoldBasis(taken, KnownLots(E)) /\ d.taken = Whole(sold)
  BY DEF LotOut, Disposition
<1> HIDE DEF d
<1>4. /\ end.left \in [E -> Nat] /\ st.left \in [E -> Nat] /\ st.out \in Outs(E)
      /\ end.out = Put(st.out, x, d) /\ \A l \in E : end.left[l] = st.left[l] - taken[l]
  BY <1>2 DEF LotsState
<1>5. /\ taken \in [E -> Nat] /\ \A l \in E : taken[l] <= st.left[l]
      /\ \A l \in E : l.asset # x.asset => taken[l] = 0
  <2>1. /\ taken \in [E -> Nat] /\ \A l \in E : taken[l] <= st.left[l]
        /\ \A l \in E : LET wanted == n - SumFunctionOnSet(st.left, LotsBefore(method, E, l))
                        IN taken[l] = IF l.asset # x.asset \/ wanted <= 0 THEN 0
                                      ELSE IF wanted < st.left[l] THEN wanted ELSE st.left[l]
    BY ONLY Proper(E), <1>1, <1>4, LotsTakenIs
  <2> HIDE DEF taken
  <2> QED
    BY <2>1
<1> HIDE DEF end, taken
<1>6. x \notin DOMAIN st.out
  BY DEF LotsKept
<1>7. /\ a = x.asset => /\ BasisOut(end, a) = Plus(BasisOut(st, a), d.basis)
                        /\ TakenOut(end, a) = Plus(TakenOut(st, a), d.taken)
      /\ a # x.asset => /\ BasisOut(end, a) = BasisOut(st, a)
                        /\ TakenOut(end, a) = TakenOut(st, a)
  BY ONLY Proper(E), <1>2, <1>4, <1>6, OutGrows
<1>8. DOMAIN end.out = {e \in s : ~ ComesIn(e)}
  <2>1. DOMAIN end.out = DOMAIN st.out \cup {x}
    <3>1. DOMAIN Put(st.out, x, d) = DOMAIN st.out \cup {x}
      BY ONLY PutIs
    <3> QED
      BY <1>4, <3>1
  <2> QED
    BY <2>1 DEF LotsKept
<1>9. \A l \in E : l \notin r \/ ~ ComesIn(l) => st.left[l] = 0
  BY DEF LotsKept
<1>10. \A l \in E : l \notin r \/ ~ ComesIn(l) => taken[l] = 0 /\ end.left[l] = 0
  <2> SUFFICES ASSUME NEW l \in E, st.left[l] = 0 PROVE taken[l] = 0 /\ end.left[l] = 0
    BY <1>9
  <2>1. taken[l] \in Nat /\ taken[l] <= 0 /\ end.left[l] = 0 - taken[l]
    BY <1>4, <1>5
  <2> QED
    BY <2>1
<1>11. \A l \in E : l \notin s \/ ~ ComesIn(l) => end.left[l] = 0
  BY <1>10
<1>12. BasisOut(st, a) \in Amount /\ TakenOut(st, a) \in Amount
  BY ONLY Proper(E), <1>4, OutIs
<1>13. /\ SumFunctionOnSet(st.left, A) = Left(r, a)
       /\ Plus(SoldBasis(st.left, K), BasisOut(st, a)) = CostTotal(r, a)
       /\ Plus(Whole(SumFunctionOnSet(st.left, K)), TakenOut(st, a)) = QuantityTotal(r, a)
  BY DEF LotsKept
<1>14. /\ KnownOf(s, a) = K /\ CostTotal(s, a) = CostTotal(r, a)
       /\ QuantityTotal(s, a) = QuantityTotal(r, a)
  <2>2. KnownOf(s, a) = K
    BY DEF KnownOf
  <2>1. CostTotal(s, a) = CostTotal(r, a) /\ QuantityTotal(s, a) = QuantityTotal(r, a)
    BY ONLY <1>1, x \in s, ~ ComesIn(x), KnownGrows
  <2> QED
    BY <2>1, <2>2
<1>15. /\ K \subseteq KnownLots(E) /\ KnownLots(E) \subseteq E /\ K \subseteq E /\ A \subseteq E
       /\ (\A l \in K : l.asset = a) /\ \A l \in A : l.asset = a
       /\ \A l \in KnownLots(E) \ K : l \notin r \/ l.asset # a
  BY DEF KnownOf, KnownLots, AssetLots
<1>16. ASSUME a # x.asset PROVE LotsKept(E, s, a, end)
  <2>1. (\A l \in K : end.left[l] = st.left[l]) /\ \A l \in A : end.left[l] = st.left[l]
    <3> SUFFICES ASSUME NEW l \in E, l.asset = a PROVE end.left[l] = st.left[l]
      BY <1>15
    <3>1. taken[l] = 0 /\ st.left[l] \in Nat
      BY <1>4, <1>5, <1>16
    <3> QED
      BY <1>4, <3>1
  <2> HIDE DEF K, A
  <2>2. /\ SoldBasis(end.left, K) = SoldBasis(st.left, K)
        /\ SumFunctionOnSet(end.left, K) = SumFunctionOnSet(st.left, K)
    BY ONLY Proper(E), <1>4, <1>15, <2>1, SoldSame
  <2>3. SumFunctionOnSet(end.left, A) = SumFunctionOnSet(st.left, A)
    BY ONLY Proper(E), <1>4, <1>15, <2>1, SoldSame
  <2>4. Left(s, a) = Left(r, a)
    BY <1>16, LeftStays
  <2>5. /\ Plus(SoldBasis(end.left, K), BasisOut(end, a)) = CostTotal(s, a)
        /\ Plus(Whole(SumFunctionOnSet(end.left, K)), TakenOut(end, a)) = QuantityTotal(s, a)
    BY <1>7, <1>13, <1>14, <1>16, <2>2
  <2>6. /\ Plus(SoldBasis(end.left, KnownOf(s, a)), BasisOut(end, a)) = CostTotal(s, a)
        /\ Plus(Whole(SumFunctionOnSet(end.left, KnownOf(s, a))), TakenOut(end, a)) = QuantityTotal(s, a)
    BY ONLY <1>14, <2>5, Zenon
  <2>7. SumFunctionOnSet(end.left, AssetLots(E, a)) = Left(s, a)
    BY <1>13, <2>3, <2>4 DEF A
  <2> QED
    BY ONLY <1>8, <1>11, <2>6, <2>7, Zenon DEF LotsKept
<1>17. ASSUME a = x.asset PROVE LotsKept(E, s, a, end)
  <2>1. (\A l \in K : st.left[l] = end.left[l] + taken[l]) /\ \A l \in A :
          st.left[l] = end.left[l] + taken[l]
    <3> SUFFICES ASSUME NEW l \in E PROVE st.left[l] = end.left[l] + taken[l]
      BY <1>15
    <3>1. st.left[l] \in Nat /\ taken[l] \in Nat /\ end.left[l] = st.left[l] - taken[l]
      BY <1>4, <1>5
    <3> QED
      BY <3>1
  <2>2. \A l \in KnownLots(E) \ K : taken[l] = 0
    BY <1>5, <1>10, <1>15, <1>17
  <2>3. SumFunctionOnSet(taken, A) = Lesser(SumFunctionOnSet(st.left, A), n)
    <3>1. A \in SUBSET {l \in E : l.asset = x.asset} /\ \A l \in A :
            LotsBefore(method, E, l) \subseteq A
      BY <1>17 DEF AssetLots, LotsBefore, Before
    <3> HIDE DEF A
    <3>2. SumFunctionOnSet(LotsTaken(method, st.left, x), A) = Lesser(SumFunctionOnSet(st.left, A), x.quantity)
      BY ONLY Proper(E), <1>1, <1>4, <3>1, FirstTaken
    <3> QED
      BY <3>2 DEF taken
  <2> HIDE DEF K, A
  <2>4. /\ SoldBasis(st.left, K) = Plus(SoldBasis(end.left, K), SoldBasis(taken, K))
        /\ SumFunctionOnSet(st.left, K) = SumFunctionOnSet(end.left, K) + SumFunctionOnSet(taken, K)
    BY ONLY Proper(E), <1>4, <1>5, <1>15, <2>1, SoldApart
  <2>5. SumFunctionOnSet(st.left, A) = SumFunctionOnSet(end.left, A) + SumFunctionOnSet(taken, A)
    BY ONLY Proper(E), <1>4, <1>5, <1>15, <2>1, SoldApart
  <2>6. SoldBasis(taken, KnownLots(E)) = SoldBasis(taken, K) /\ sold = SumFunctionOnSet(taken, K)
    BY ONLY Proper(E), <1>5, <1>15, <2>2, SoldZeros
  <2>7. SoldBasis(end.left, K) \in Amount /\ SumFunctionOnSet(end.left, K) \in Nat
    BY ONLY Proper(E), <1>4, <1>15, SoldIs
  <2>8. SoldBasis(taken, K) \in Amount /\ SumFunctionOnSet(taken, K) \in Nat
    BY ONLY Proper(E), <1>5, <1>15, SoldIs
  <2>9. SumFunctionOnSet(end.left, A) \in Nat
    BY ONLY Proper(E), <1>4, <1>15, SoldIs
  <2>10. SumFunctionOnSet(st.left, A) \in Nat
    BY ONLY Proper(E), <1>4, <1>15, SoldIs
  <2>11. SumFunctionOnSet(end.left, A) = Left(s, a)
    <3>1. Left(s, a) = LET m == Left(r, a) + Change(x) IN IF m > 0 THEN m ELSE 0
      BY <1>1, <1>17, LeftGrows
    <3>2. Change(x) = -n
      BY DEF Change
    <3>3. Left(r, a) \in Nat
      BY <1>1, NetsAre
    <3> DEFINE m == Left(r, a)  t == SumFunctionOnSet(taken, A)  e == SumFunctionOnSet(end.left, A)
    <3>4. m \in Nat /\ e \in Nat /\ t = Lesser(m, n) /\ m = e + t
      BY <1>13, <2>3, <2>5, <2>9, <3>3
    <3> HIDE DEF t, e
    <3>5. e = IF m - n > 0 THEN m - n ELSE 0
      BY <1>1, <3>4 DEF Lesser
    <3> QED
      BY <1>1, <3>1, <3>2, <3>3, <3>5 DEF e
  <2>12. Plus(SoldBasis(end.left, K), BasisOut(end, a)) = CostTotal(s, a)
    <3>1. Plus(SoldBasis(end.left, K), Plus(BasisOut(st, a), SoldBasis(taken, K)))
            = Plus(Plus(SoldBasis(end.left, K), SoldBasis(taken, K)), BasisOut(st, a))
      BY ONLY <1>12, <2>7, <2>8, PlusTurns
    <3> QED
      BY <1>3, <1>7, <1>13, <1>14, <1>17, <2>4, <2>6, <3>1
  <2>13. Plus(Whole(SumFunctionOnSet(end.left, K)), TakenOut(end, a)) = QuantityTotal(s, a)
    <3> DEFINE e == SumFunctionOnSet(end.left, K)  t == SumFunctionOnSet(taken, K)
    <3>1. e \in Int /\ t \in Int
      BY <2>7, <2>8
    <3>2. SumFunctionOnSet(st.left, K) = e + t /\ d.taken = Whole(t)
      BY <1>3, <2>4, <2>6
    <3> HIDE DEF e, t
    <3>3. Whole(e) \in Amount /\ Whole(t) \in Amount
      BY ONLY <3>1, WholeAmount
    <3>4. Plus(Whole(e), Whole(t)) = Whole(e + t)
      BY ONLY <3>1, WholesAdd
    <3>5. Plus(Whole(e), Plus(TakenOut(st, a), Whole(t))) = Plus(Plus(Whole(e), Whole(t)), TakenOut(st, a))
      BY ONLY <1>12, <3>3, PlusTurns
    <3>6. Plus(Whole(e), TakenOut(end, a)) = QuantityTotal(s, a)
      BY <1>7, <1>13, <1>14, <1>17, <3>2, <3>4, <3>5
    <3> QED
      BY <3>6 DEF e
  <2>14. /\ Plus(SoldBasis(end.left, KnownOf(s, a)), BasisOut(end, a)) = CostTotal(s, a)
         /\ Plus(Whole(SumFunctionOnSet(end.left, KnownOf(s, a))), TakenOut(end, a)) = QuantityTotal(s, a)
    BY ONLY <1>14, <2>12, <2>13, Zenon
  <2>15. SumFunctionOnSet(end.left, AssetLots(E, a)) = Left(s, a)
    BY <2>11 DEF A
  <2> QED
    BY ONLY <1>8, <1>11, <2>14, <2>15, Zenon DEF LotsKept
<1> QED
  BY <1>16, <1>17 DEF end

LEMMA LotsStartKept ==
  ASSUME NEW E, Proper(E), NEW a
  PROVE  LotsKept(E, {}, a, LotsStart(E)) /\ LotsStart(E) \in LotsState(E)
<1> DEFINE st == LotsStart(E)
           A == AssetLots(E, a)
<1>1. /\ st.out = NoneOut /\ DOMAIN NoneOut = {} /\ st.left \in [E -> Nat]
      /\ \A e \in E : st.left[e] = 0
  BY DEF LotsStart, NoneOut
<1>2. OutOf(st, a) = {} /\ KnownOf({}, a) = {}
  BY <1>1 DEF OutOf, KnownOf
<1>3. /\ BasisOut(st, a) = Whole(0) /\ TakenOut(st, a) = Whole(0)
      /\ CostTotal({}, a) = Whole(0) /\ QuantityTotal({}, a) = Whole(0)
  BY <1>2, TotalFew DEF BasisOut, TakenOut, CostTotal, QuantityTotal
<1>4. Plus(Whole(0), Whole(0)) = Whole(0)
  BY WholeAmount, ZeroIs
<1>5. SoldBasis(st.left, {}) = Whole(0)
  BY TotalFew DEF SoldBasis
<1>6. SumFunctionOnSet(st.left, {}) = 0
  <2>1. IsFiniteSet({}) /\ \A l \in {} : st.left[l] \in Int
    BY FS_EmptySet
  <2> QED
    BY ONLY <2>1, SumIs
<1>7. SumFunctionOnSet(st.left, A) = 0
  <2>1. A \in SUBSET E /\ {} \in SUBSET A /\ \A l \in A \ {} : st.left[l] = 0
    BY <1>1 DEF AssetLots
  <2> HIDE DEF A
  <2>2. SumFunctionOnSet(st.left, A) = SumFunctionOnSet(st.left, {})
    BY ONLY Proper(E), <1>1, <2>1, SoldZeros
  <2> QED
    BY <1>6, <2>2
<1>8. Left({}, a) = 0
  BY LeftOfNone
<1>9. st \in LotsState(E)
  <2>1. NoneOut \in Outs(E)
    <3>1. NoneOut \in [{} -> Told]
      BY DEF NoneOut
    <3> QED
      BY <3>1 DEF Outs
  <2> QED
    BY <2>1 DEF LotsStart, LotsState
<1>10. LotsKept(E, {}, a, st)
  <2>1. SumFunctionOnSet(st.left, AssetLots(E, a)) = 0
    BY <1>7
  <2> HIDE DEF st, A
  <2> QED
    BY <1>1, <1>2, <1>3, <1>4, <1>5, <1>6, <1>8, <2>1 DEF LotsKept
<1> QED
  BY <1>9, <1>10

LEMMA LotsKeep ==
  ASSUME NEW E, Proper(E), NEW method
  PROVE  \E end \in LotsState(E) :
           LotsThrough(method, E) = end /\ \A a \in Asset : LotsKept(E, E, a, end)
<1>1. PICK F : /\ F \in [SUBSET E -> LotsState(E)] /\ F[{}] = LotsStart(E)
               /\ \A s \in SUBSET E : s # {} => F[s] = LotStep(method, Last(s), F[s \ {Last(s)}])
               /\ LotsThrough(method, E) = F[E]
  BY LotsRuns
<1> DEFINE good == {s \in SUBSET E : \A a \in Asset : LotsKept(E, s, a, F[s])}
<1>2. {} \in good
  BY <1>1, LotsStartKept
<1>3. \A s \in SUBSET E : s # {} /\ (\A x \in s : s \ {x} \in good) => s \in good
  <2> SUFFICES ASSUME NEW s \in SUBSET E, s # {}, \A x \in s : s \ {x} \in good,
                      NEW a \in Asset
               PROVE  LotsKept(E, s, a, F[s])
    OBVIOUS
  <2>0. Last(s) \in s /\ \A f \in s \ {Last(s)} : Later(Last(s), f)
    BY ONLY Proper(E), s \in SUBSET E, s # {}, LastsAre
  <2>1. PICK x \in s : x = Last(s) /\ \A f \in s \ {x} : Later(x, f)
    BY <2>0
  <2> DEFINE st == F[s \ {x}]
  <2>2. LotsKept(E, s \ {x}, a, st)
    OBVIOUS
  <2> HIDE DEF good
  <2>3. st \in LotsState(E) /\ F[s] = LotStep(method, x, st)
    BY <1>1, <2>1
  <2> HIDE DEF st
  <2>4. LotsKept(E, s, a, LotStep(method, x, st))
    <3>1. CASE ComesIn(x)
      BY ONLY Proper(E), s \in SUBSET E, x \in s, <2>1, <2>2, <2>3, <3>1, LotsInKeeps
    <3>2. CASE ~ ComesIn(x)
      BY ONLY Proper(E), s \in SUBSET E, x \in s, <2>1, <2>2, <2>3, <3>2, LotsOutKeeps
    <3> QED
      BY <3>1, <3>2
  <2> QED
    BY <2>3, <2>4
<1>4. SUBSET E \subseteq good
  <2>1. IsFiniteSet(E)
    BY DEF Proper
  <2> HIDE DEF good
  <2> QED
    BY ONLY <1>2, <1>3, <2>1, SubsetsReached
<1> QED
  BY <1>1, <1>4

LEMMA LotsBalance ==
  ASSUME NEW E, Proper(E), NEW method, NEW a \in Asset
  PROVE  LET result == Lots(method, E)
         IN KeepsBasis(result, E, a) /\ LeavesWhatIsLeft(result, E, a)
<1> DEFINE result == Lots(method, E)
           L == LotsOf(result, a)
           out == OutOf(result, a)
           A == AssetLots(E, a)
           K == KnownOf(E, a)
<1>1. PICK end \in LotsState(E) :
        LotsThrough(method, E) = end /\ \A b \in Asset : LotsKept(E, E, b, end)
  BY LotsKeep
<1> DEFINE left == end.left
           known == [l \in E |-> IF Cost(l) = None THEN 0 ELSE left[l]]
<1>2. left \in [E -> Nat] /\ known \in [E -> Nat]
  BY DEF LotsState
<1>3. result = [out |-> end.out,
                lots |-> [l \in {e \in E : left[e] > 0} |->
                  [asset |-> l.asset, remaining |-> Whole(left[l]),
                   known |-> Whole(IF Cost(l) = None THEN 0 ELSE left[l]),
                   basis |-> PartOf(l, left[l])]]]
  BY <1>1 DEF Lots, LotsThrough, LotsStart
<1>4. /\ \A l \in E : known[l] = IF Cost(l) = None THEN 0 ELSE left[l]
      /\ \A l \in E : PartOf(l, left[l]) = PartOf(l, known[l])
  <2> SUFFICES ASSUME NEW l \in E, Cost(l) = None PROVE PartOf(l, left[l]) = PartOf(l, 0)
    OBVIOUS
  <2> QED
    BY DEF PartOf
<1>5. /\ result.out = end.out /\ DOMAIN result.lots = {e \in E : left[e] > 0}
      /\ \A l \in {e \in E : left[e] > 0} :
           /\ result.lots[l].asset = l.asset /\ result.lots[l].remaining = Whole(left[l])
           /\ result.lots[l].known = Whole(known[l]) /\ result.lots[l].basis = PartOf(l, known[l])
  BY <1>3, <1>4
<1> HIDE DEF result, known, left
<1>6. L = {l \in A : left[l] > 0} /\ L \subseteq A /\ A \subseteq E /\ L \subseteq E
        /\ K \subseteq E
      /\ K \subseteq A
  BY <1>5 DEF LotsOf, AssetLots, KnownOf
<1>7. LotsKept(E, E, a, end)
  BY <1>1
<1>8. \A l \in E : ~ ComesIn(l) => left[l] = 0
  BY <1>7 DEF LotsKept, left
<1>9. (\A l \in A \ L : left[l] = 0) /\ (\A l \in A \ L : known[l] = 0)
  <2> SUFFICES ASSUME NEW l \in A \ L PROVE left[l] = 0
    BY <1>4, <1>6
  <2>1. left[l] \in Nat /\ ~ (left[l] > 0)
    BY <1>2, <1>6
  <2> QED
    BY <2>1
<1>10. \A l \in A \ K : known[l] = 0
  BY <1>4, <1>6, <1>8 DEF AssetLots, KnownOf
<1>11. \A l \in K : known[l] = left[l]
  BY <1>4, <1>6 DEF KnownOf
<1>12. \A l \in L : /\ result.lots[l].remaining = Whole(left[l])
                    /\ result.lots[l].known = Whole(known[l])
                    /\ result.lots[l].basis = PartOf(l, known[l])
  BY <1>5, <1>6
<1> HIDE DEF A, L, K, out
<1>13. SoldBasis(known, A) = SoldBasis(known, L)
         /\ SumFunctionOnSet(known, A) = SumFunctionOnSet(known, L)
  BY ONLY Proper(E), <1>2, <1>6, <1>9, SoldZeros
<1>14. SoldBasis(known, A) = SoldBasis(known, K)
         /\ SumFunctionOnSet(known, A) = SumFunctionOnSet(known, K)
  BY ONLY Proper(E), <1>2, <1>6, <1>10, SoldZeros
<1>15. SoldBasis(known, K) = SoldBasis(left, K)
         /\ SumFunctionOnSet(known, K) = SumFunctionOnSet(left, K)
  BY ONLY Proper(E), <1>2, <1>6, <1>11, SoldSame
<1>16. SumFunctionOnSet(left, A) = SumFunctionOnSet(left, L)
  BY ONLY Proper(E), <1>2, <1>6, <1>9, SoldZeros
<1> DEFINE R == [l \in L |-> result.lots[l].remaining]
           Q == [l \in L |-> result.lots[l].known]
           B == [l \in L |-> result.lots[l].basis]
<1>17. IsFiniteSet(L)
  BY <1>6, ProperPart
<1>18. Total(B, L) = SoldBasis(known, L)
  <2>1. B = [l \in L |-> PartOf(l, known[l])]
    BY <1>12
  <2> QED
    BY <2>1 DEF SoldBasis
<1>19. (\A l \in L : left[l] \in Int /\ R[l] = Whole(left[l]))
       /\ (\A l \in L : known[l] \in Int /\ Q[l] = Whole(known[l]))
  BY <1>2, <1>6, <1>12
<1> HIDE DEF R, Q, B
<1>20. Total(R, L) = Whole(SumFunctionOnSet(left, L))
  BY ONLY <1>17, <1>19, SumWhole
<1>21. Total(Q, L) = Whole(SumFunctionOnSet(known, L))
  BY ONLY <1>17, <1>19, SumWhole
<1>22. /\ SumFunctionOnSet(left, A) = Left(E, a)
       /\ Plus(SoldBasis(left, K), BasisOut(end, a)) = CostTotal(E, a)
       /\ Plus(Whole(SumFunctionOnSet(left, K)), TakenOut(end, a)) = QuantityTotal(E, a)
  BY <1>7 DEF LotsKept, left, A, K
<1>23. /\ BasisOut(end, a) = Total([e \in out |-> result.out[e].basis], out)
       /\ TakenOut(end, a) = Total([e \in out |-> result.out[e].taken], out)
  BY <1>5 DEF BasisOut, TakenOut, OutOf, out
<1>24. KeepsBasis(result, E, a)
  <2>1. /\ Plus(Total(B, L), BasisOut(end, a)) = CostTotal(E, a)
        /\ Plus(Total(Q, L), TakenOut(end, a)) = QuantityTotal(E, a)
    BY <1>13, <1>14, <1>15, <1>18, <1>21, <1>22
  <2> QED
    BY <1>23, <2>1 DEF KeepsBasis, CostTotal, QuantityTotal, B, Q, L, out
<1>25. LeavesWhatIsLeft(result, E, a)
  <2>1. Total(R, L) = Whole(Left(E, a))
    BY <1>16, <1>20, <1>22
  <2> QED
    BY <2>1 DEF LeavesWhatIsLeft, R, L
<1> QED
  BY <1>24, <1>25 DEF result

\* Whatever the method, a calculation balances.
LEMMA Balances ==
  ASSUME NEW E, Proper(E), NEW method, NEW a \in Asset
  PROVE  LET result == CalculateCostBasis(method, E, Asset)
         IN KeepsBasis(result, E, a) /\ LeavesWhatIsLeft(result, E, a)
<1>1. CASE method = "acb"
  BY <1>1, AverageBalances DEF CalculateCostBasis
<1>2. CASE method # "acb"
  BY <1>2, LotsBalance DEF CalculateCostBasis
<1> QED
  BY <1>1, <1>2

-----------------------------------------------------------------------------
(* The profit and loss of the account (Pnl). *)

\* What several providers' whole values make is an amount.
LEMMA CombinedAmount ==
  ASSUME NEW S, IsFiniteSet(S), \A o \in S : o.value \in Amount
  PROVE  Combined(S) \in Amount \cup {None}
<1>1. CASE S = {}
  BY <1>1 DEF Combined
<1>2. CASE S # {}
  <2> DEFINE T == Preferred(S)
             n == Cardinality(T)
             h == n \div 2
  <2>1. T # {} /\ T \in SUBSET S
    BY <1>2, PreferredIs
  <2>2. IsFiniteSet(T) /\ \A o \in T : o.value \in Amount
    BY <2>1, FS_Subset
  <2>3. Combined(S) = Median(T)
    BY <1>2 DEF Combined
  <2> HIDE DEF T
  <2>4. Observations(T)
    BY <2>2 DEF Observations, Amount
  <2>5. n \in Nat /\ n # 0
    BY <2>1, <2>2, FS_CardinalityType, FS_EmptySet
  <2>6. \A k \in 1 .. n : Nth(T, k) \in Amount
    <3> TAKE k \in 1 .. n
    <3>1. \E o \in T : Nth(T, k) = o.value
      BY <2>4, NthIs
    <3> QED
      BY <2>2, <3>1
  <2>7. CASE n % 2 = 1
    <3>1. h + 1 \in 1 .. n
      BY <2>5, <2>7
    <3>2. Median(T) = Nth(T, h + 1)
      BY <2>7 DEF Median
    <3> QED
      BY <2>3, <2>6, <3>1, <3>2
  <2>8. CASE n % 2 # 1
    <3>1. h \in 1 .. n /\ h + 1 \in 1 .. n
      BY <2>5, <2>8
    <3>2. Median(T) = Over(Plus(Nth(T, h), Nth(T, h + 1)), Whole(2))
      BY <2>8 DEF Median
    <3>3. Nth(T, h) \in Amount /\ Nth(T, h + 1) \in Amount
      BY <2>6, <3>1
    <3>4. Plus(Nth(T, h), Nth(T, h + 1)) \in Amount
      BY <3>3, PlusIs
    <3>5. Whole(2) \in Amount /\ Whole(2)[1] = 2
      BY WholeAmount
    <3>6. Over(Plus(Nth(T, h), Nth(T, h + 1)), Whole(2)) \in Amount
      BY ONLY <3>4, <3>5, 2 > 0, OverIs
    <3> QED
      BY <2>3, <3>2, <3>6
  <2> QED
    BY <2>7, <2>8
<1> QED
  BY <1>1, <1>2

\* What has been imported and what a calculation has read of it is a part of
\* Kraken's history, and every price it found is one.
PnlTyped ==
  /\ IsFiniteSet(trades) /\ trades \subseteq Trade
  /\ IsFiniteSet(entries) /\ entries \subseteq Entry
  /\ IsFiniteSet(marketPoints) /\ marketPoints \subseteq Point
  /\ IsFiniteSet(pnl.trades) /\ pnl.trades \subseteq Trade
  /\ IsFiniteSet(pnl.entries) /\ pnl.entries \subseteq Entry
  /\ pnl = [at |-> pnl.at, method |-> pnl.method, currency |-> pnl.currency,
            trades |-> pnl.trades, entries |-> pnl.entries, exact |-> pnl.exact,
            prices |-> pnl.prices]
  /\ \A p \in DOMAIN pnl.prices : pnl.prices[p] \in Amount \cup {None}

\* A run that is kept is what its method makes of its events.
RunsTrue ==
  \A r \in runs :
    Proper(r.events) /\ r.lots = CalculateCostBasis(r.method, r.events, Asset).lots

PnlInv == PnlTyped /\ RunsTrue /\ RunExplains

LEMMA PnlInvInit == PnlInit => PnlInv
<1> SUFFICES ASSUME PnlInit PROVE PnlInv
  OBVIOUS
<1>1. IsFiniteSet({})
  BY FS_EmptySet
<1>2. DOMAIN NoPnl.prices = {} /\ NoPnl.trades = {} /\ NoPnl.entries = {}
  BY DEF NoPnl
<1>3. PnlTyped
  BY <1>1, <1>2 DEF PnlInit, PnlTyped, NoPnl
<1> QED
  BY <1>3 DEF PnlInit, PnlInv, RunsTrue, RunExplains

\* What a calculation is made of is a history with every event once.
LEMMA BasisEventsProper ==
  ASSUME PnlTyped, \A x \in Estimated : Period(x) \in DOMAIN pnl.prices
  PROVE  Proper(BasisEvents)
<1>1. \A x \in Estimated : Worth(x) \in Amount \cup {None}
  <2> SUFFICES ASSUME NEW x \in Estimated PROVE Worth(x) \in Amount \cup {None}
    OBVIOUS
  <2>1. x.quantity \in Nat
    BY PnlAssumptions DEF Estimated, PnlTyped
  <2>2. Whole(x.quantity) \in Amount
    BY <2>1, WholeAmount
  <2>3. pnl.prices[Period(x)] \in Amount \cup {None}
    BY DEF PnlTyped
  <2>4. CASE pnl.prices[Period(x)] = None
    BY <2>4 DEF Worth
  <2>5. CASE pnl.prices[Period(x)] # None
    <3>1. Times(Whole(x.quantity), pnl.prices[Period(x)]) \in Amount
      BY ONLY <2>2, <2>3, <2>5, TimesIs
    <3> QED
      BY <2>5, <3>1 DEF Worth
  <2> QED
    BY <2>4, <2>5
<1>2. ASSUME NEW t \in pnl.trades PROVE TradeEvent(t) \in EventSet
  <2>1. /\ t.id \in Int /\ t.at \in Int /\ t.asset \in Asset /\ t.quantity \in Nat \ {0}
        /\ t.cost \in Nat /\ t.fee \in Nat
    BY PnlAssumptions DEF PnlTyped
  <2>2. Whole(t.cost) \in Amount /\ Whole(t.cost)[1] = t.cost /\ Whole(t.fee) \in Amount
        /\ Whole(0) \in Amount
    BY <2>1, WholeAmount
  <2>3. t.quote # pnl.currency => Worth(t) \in Amount \cup {None}
    BY <1>1 DEF Estimated
  <2>4. FeeWorth(t) \in Amount
    <3>1. CASE t.quote = pnl.currency \/ Worth(t) = None \/ t.cost = 0
      BY <2>2, <3>1 DEF FeeWorth
    <3>2. CASE t.quote # pnl.currency /\ Worth(t) # None /\ t.cost # 0
      <4>1. Worth(t) \in Amount
        BY <2>3, <3>2
      <4>2. Times(Whole(t.fee), Worth(t)) \in Amount
        BY ONLY <2>2, <4>1, TimesIs
      <4>3. Whole(t.cost)[1] > 0
        BY <2>1, <2>2, <3>2
      <4>4. Over(Times(Whole(t.fee), Worth(t)), Whole(t.cost)) \in Amount
        BY ONLY <2>2, <4>2, <4>3, OverIs
      <4> QED
        BY <3>2, <4>4 DEF FeeWorth
    <3> QED
      BY <3>1, <3>2
  <2> DEFINE value == IF t.quote = pnl.currency THEN Whole(t.cost) ELSE Worth(t)
             type == IF t.side = "buy" THEN "acquisition" ELSE "disposition"
  <2>5. value \in Amount \cup {None}
    BY <2>2, <2>3
  <2>6. type \in {"acquisition", "disposition"}
    OBVIOUS
  <2>7. TradeEvent(t) = [id |-> t.id, asset |-> t.asset, at |-> t.at, quantity |-> t.quantity,
                         type |-> type, value |-> value, fee |-> FeeWorth(t)]
    BY DEF TradeEvent
  <2> HIDE DEF value, type
  <2> QED
    BY <2>1, <2>4, <2>5, <2>6, <2>7 DEF EventSet
<1>3. ASSUME NEW l \in pnl.entries PROVE LedgerEvent(l) \in EventSet
  <2>1. l.id \in Int /\ l.at \in Int /\ l.asset \in Asset /\ l.quantity \in Nat \ {0}
    BY PnlAssumptions DEF PnlTyped
  <2>2. Whole(0) \in Amount
    BY WholeAmount
  <2> DEFINE value == IF Reward(l) THEN Worth(l) ELSE None
             type == IF l.type = "withdrawal" THEN "internal_out"
                     ELSE IF l \in pnl.exact THEN "internal_in"
                     ELSE IF Reward(l) THEN "reward" ELSE "acquisition"
  <2>3. value \in Amount \cup {None}
    BY <1>1 DEF Estimated
  <2>4. type \in {"internal_out", "internal_in", "reward", "acquisition"}
    OBVIOUS
  <2>5. LedgerEvent(l) = [id |-> l.id, asset |-> l.asset, at |-> l.at, quantity |-> l.quantity,
                          type |-> type, value |-> value, fee |-> Whole(0)]
    BY DEF LedgerEvent
  <2> HIDE DEF value, type
  <2> QED
    BY <2>1, <2>2, <2>3, <2>4, <2>5 DEF EventSet
<1>4. IsFiniteSet(BasisEvents)
  <2>1. IsFiniteSet(pnl.trades) /\ IsFiniteSet(pnl.entries)
    BY DEF PnlTyped
  <2>2. IsFiniteSet({TradeEvent(t) : t \in pnl.trades})
    <3> DEFINE f == [t \in pnl.trades |-> TradeEvent(t)]
    <3>1. f = [t \in pnl.trades |-> f[t]]
            /\ {f[t] : t \in pnl.trades} = {TradeEvent(t) : t \in pnl.trades}
      OBVIOUS
    <3> HIDE DEF f
    <3> QED
      BY <2>1, <3>1, RangeFinite
  <2>3. IsFiniteSet({LedgerEvent(l) : l \in pnl.entries})
    <3> DEFINE f == [l \in pnl.entries |-> LedgerEvent(l)]
    <3>1. f = [l \in pnl.entries |-> f[l]]
            /\ {f[l] : l \in pnl.entries} = {LedgerEvent(l) : l \in pnl.entries}
      OBVIOUS
    <3> HIDE DEF f
    <3> QED
      BY <2>1, <3>1, RangeFinite
  <2> QED
    BY ONLY <2>2, <2>3, FS_Union DEF BasisEvents
<1>5. \A e, f \in BasisEvents : e.id = f.id => e = f
  <2> SUFFICES ASSUME NEW e \in BasisEvents, NEW f \in BasisEvents, e.id = f.id PROVE e = f
    OBVIOUS
  <2> DEFINE Made(g, x) == (x \in pnl.trades /\ g = TradeEvent(x)) \/ (x \in pnl.entries
        /\ g = LedgerEvent(x))
  <2>1. \A g, x : Made(g, x) => g.id = x.id /\ x \in Trade \cup Entry
    BY DEF TradeEvent, LedgerEvent, PnlTyped
  <2>2. \A g \in BasisEvents : \E x : Made(g, x)
    BY DEF BasisEvents
  <2>3. \A g, h, x : Made(g, x) /\ Made(h, x) => g = h
    BY PnlAssumptions DEF PnlTyped
  <2> HIDE DEF Made
  <2>4. PICK x, y : Made(e, x) /\ Made(f, y)
    BY <2>2
  <2>5. x = y
    <3>1. x.id = y.id /\ x \in Trade \cup Entry /\ y \in Trade \cup Entry
      BY <2>1, <2>4
    <3> QED
      BY <3>1, PnlAssumptions
  <2> QED
    BY <2>3, <2>4, <2>5
<1> QED
  BY <1>2, <1>3, <1>4, <1>5 DEF Proper, BasisEvents

LEMMA PnlInvStep == PnlInv /\ [PnlNext]_pnlVars => PnlInv'
<1> SUFFICES ASSUME PnlInv, [PnlNext]_pnlVars PROVE PnlInv'
  OBVIOUS
<1> USE DEF PnlInv
<1>1. \A S, x : IsFiniteSet(S) => IsFiniteSet(S \cup {x})
  BY FS_AddElement
<1>2. CASE ImportTrade
  <2>1. PICK t \in Trade : trades' = trades \cup {t}
    BY <1>2 DEF ImportTrade
  <2>2. IsFiniteSet(trades') /\ trades' \subseteq Trade
    BY <1>1, <2>1 DEF PnlTyped
  <2> QED
    BY <1>2, <2>2 DEF ImportTrade, PnlTyped, RunsTrue, RunExplains
<1>3. CASE ImportEntry
  <2>1. PICK l \in Entry : entries' = entries \cup {l}
    BY <1>3 DEF ImportEntry
  <2>2. IsFiniteSet(entries') /\ entries' \subseteq Entry
    BY <1>1, <2>1 DEF PnlTyped
  <2> QED
    BY <1>3, <2>2 DEF ImportEntry, PnlTyped, RunsTrue, RunExplains
<1>4. CASE StorePrice
  <2>1. PICK p \in Point : marketPoints' = marketPoints \cup {p}
    BY <1>4 DEF StorePrice
  <2>2. IsFiniteSet(marketPoints') /\ marketPoints' \subseteq Point
    BY <1>1, <2>1 DEF PnlTyped
  <2> QED
    BY <1>4, <2>2 DEF StorePrice, PnlTyped, RunsTrue, RunExplains
<1>5. CASE ChooseCurrency
  BY <1>5 DEF ChooseCurrency, PnlTyped, RunsTrue, RunExplains
<1>6. CASE StartPnl
  <2>1. PnlTyped'
    <3>1. IsFiniteSet({})
      BY FS_EmptySet
    <3>2. PICK m \in Method :
            pnl' = [NoPnl EXCEPT !.at = "trades", !.method = m, !.currency = currency, !.trades = trades]
      BY <1>6 DEF StartPnl
    <3>3. pnl' = [at |-> "trades", method |-> m, currency |-> currency, trades |-> trades,
                  entries |-> {}, exact |-> {}, prices |-> [p \in {} |-> None]]
      BY <3>2 DEF NoPnl
    <3> QED
      BY <1>6, <3>1, <3>3 DEF StartPnl, stored, PnlTyped
  <2> QED
    BY <1>6, <2>1 DEF StartPnl, RunsTrue, RunExplains
<1>7. CASE ReadEntries
  <2>1. PICK exact \in SUBSET entries :
          pnl' = [pnl EXCEPT !.at = "prices", !.entries = entries, !.exact = exact]
    BY <1>7 DEF ReadEntries
  <2>2. pnl' = [at |-> "prices", method |-> pnl.method, currency |-> pnl.currency,
                trades |-> pnl.trades, entries |-> entries, exact |-> exact,
                    prices |-> pnl.prices]
    BY <2>1 DEF PnlTyped
  <2>3. PnlTyped'
    BY <1>7, <2>2 DEF ReadEntries, stored, PnlTyped
  <2> QED
    BY <1>7, <2>3 DEF ReadEntries, RunsTrue, RunExplains
<1>8. CASE PriceNext
  <2> DEFINE x == First({y \in Estimated : Period(y) \notin DOMAIN pnl.prices})
             Value(S) == IF x.asset = pnl.currency THEN Whole(1)
                         ELSE Combined({[p EXCEPT !.value = Whole(@)] : p \in S})
  <2>1. PICK S \in OneOfProvider(NewestPrices(x.asset, x.at)) :
          pnl' = [pnl EXCEPT !.prices = Put(@, Period(x), Value(S))]
    BY <1>8 DEF PriceNext
  <2>2. S \in SUBSET marketPoints
    BY <2>1 DEF OneOfProvider, NewestPrices
  <2>3. IsFiniteSet(S) /\ \A p \in S : p.value \in Nat
    BY <2>2, PnlAssumptions, FS_Subset DEF PnlTyped
  <2> HIDE DEF x
  <2>4. Value(S) \in Amount \cup {None}
    <3> DEFINE f == [p \in S |-> [p EXCEPT !.value = Whole(@)]]
               T == {f[p] : p \in S}
    <3>1. f = [p \in S |-> f[p]] /\ T = {[p EXCEPT !.value = Whole(@)] : p \in S}
      OBVIOUS
    <3>2. \A o \in T : o.value \in Amount
      <4> TAKE o \in T
      <4>1. PICK p \in S : o = [p EXCEPT !.value = Whole(@)]
        BY <3>1
      <4>2. Whole(p.value) \in Amount
        BY <2>3, WholeAmount
      <4> QED
        BY <4>1, <4>2
    <3> HIDE DEF f
    <3>3. IsFiniteSet(T)
      BY <2>3, <3>1, RangeFinite
    <3>4. Combined(T) \in Amount \cup {None}
      BY <3>2, <3>3, CombinedAmount
    <3>5. Whole(1) \in Amount
      BY WholeAmount
    <3> QED
      BY <3>1, <3>4, <3>5
  <2> DEFINE value == Value(S)
             prices == Put(pnl.prices, Period(x), value)
  <2> HIDE DEF value
  <2>5. \A p \in DOMAIN prices : prices[p] \in Amount \cup {None}
    BY <2>4 DEF Put, PnlTyped, value
  <2>6. pnl' = [at |-> pnl.at, method |-> pnl.method, currency |-> pnl.currency,
                trades |-> pnl.trades, entries |-> pnl.entries, exact |-> pnl.exact,
                prices |-> prices]
    BY <2>1 DEF PnlTyped, value
  <2> HIDE DEF prices
  <2>7. PnlTyped'
    BY <1>8, <2>5, <2>6 DEF PriceNext, stored, PnlTyped
  <2> QED
    BY <1>8, <2>7 DEF PriceNext, RunsTrue, RunExplains
<1>9. CASE Answer
  <2> DEFINE result == CalculateCostBasis(pnl.method, BasisEvents, Asset)
             old == {r \in runs : Reusable(r, BasisEvents)}
             run == IF old # {} THEN CHOOSE r \in old : TRUE
                    ELSE [events |-> BasisEvents, method |-> pnl.method,
                          currency |-> pnl.currency, lots |-> result.lots]
  <2>1. /\ runs' = runs \cup {run}
        /\ answer' = {[method |-> pnl.method, currency |-> pnl.currency,
                       lots |-> result.lots, run |-> run]}
    BY <1>9 DEF Answer
  <2>2. Proper(BasisEvents)
    BY <1>9, BasisEventsProper DEF Answer
  <2>3. /\ run.events = BasisEvents /\ run.method = pnl.method
        /\ run.currency = pnl.currency /\ run.lots = result.lots
    <3>1. CASE old = {}
      BY <3>1
    <3>2. CASE old # {}
      <4>1. run \in old
        BY <3>2
      <4> QED
        BY <4>1 DEF Reusable, RunsTrue
    <3> QED
      BY <3>1, <3>2
  <2> HIDE DEF run, old
  <2>4. RunsTrue'
    BY <2>1, <2>2, <2>3 DEF RunsTrue
  <2>5. RunExplains'
    BY <2>1, <2>3 DEF RunExplains
  <2>6. PnlTyped'
    BY <1>9, PnlInvInit, FS_EmptySet DEF Answer, stored, NoPnl, PnlTyped
  <2> QED
    BY <2>4, <2>5, <2>6
<1>10. CASE UNCHANGED pnlVars
  BY <1>10 DEF pnlVars, stored, PnlTyped, RunsTrue, RunExplains
<1> QED
  BY <1>2, <1>3, <1>4, <1>5, <1>6, <1>7, <1>8, <1>9, <1>10 DEF PnlNext

\* Whatever was imported and read, whichever deposits are the owner's own, and
\* whatever the method, an answer balances with the history it was made of, and
\* the run it names is kept and explains it.
THEOREM ExplainedAlways == PnlSpec => []Explained
<1>1. PnlInit => PnlInv
  BY PnlInvInit
<1>2. PnlInv /\ [PnlNext]_pnlVars => PnlInv'
  BY PnlInvStep
<1>3. PnlInv => Explained
  <2> SUFFICES ASSUME PnlInv, NEW told \in answer, NEW a \in Asset
               PROVE  LET result == CalculateCostBasis(told.method, told.run.events, Asset)
                      IN /\ KeepsBasis(result, told.run.events, a)
                         /\ LeavesWhatIsLeft(result, told.run.events, a)
    BY DEF Explained, Balanced, PnlInv
  <2>1. Proper(told.run.events)
    BY DEF PnlInv, RunExplains, RunsTrue
  <2> QED
    BY <2>1, Balances
<1> QED
  BY <1>1, <1>2, <1>3, PTL DEF PnlSpec

=============================================================================
