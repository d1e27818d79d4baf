---------------------------- MODULE Kraken_proofs ----------------------------
(***************************************************************************)
(* Proofs about KrakenImport, KrakenAccount and Transfers.                 *)
(*                                                                         *)
(* For every length of history, size of pages and overlap, a walk over a   *)
(* listing that grows loses no entry but those that a failed query of the  *)
(* closed orders leaves behind.                                            *)
(*                                                                         *)
(* For every set of things listed, every sequence of endpoints, length of  *)
(* half hour, retention and number of movements and failures, a refresh    *)
(* keeps what the endpoints list, its snapshot is the whole account, the   *)
(* graphs are told of what is stored, and the Earn page agrees with the    *)
(* ledger.                                                                 *)
(*                                                                         *)
(* For every set of ledgers and chain events, and every order in which     *)
(* they come, are read and are matched, nothing is matched twice, and what *)
(* is stored when the reconciliation is at rest is each ledger's best of   *)
(* what the earlier ones left.                                             *)
(***************************************************************************)
EXTENDS KrakenImport, KrakenAccount, Transfers, FiniteSetTheorems, WellFoundedInduction, TLAPS

-----------------------------------------------------------------------------
(* Listings and pages                                                       *)

LEMMA NewestExists ==
  ASSUME NEW n \in Nat, NEW S, S \subseteq 1 .. n, S # {}
  PROVE  \E m \in S : \A t \in S : t <= m
<1> DEFINE T == {n - t : t \in S}
<1>1. T \subseteq Nat /\ T # {}
  <2>1. \A t \in S : t \in 1 .. n
    OBVIOUS
  <2>2. \A t \in S : n - t \in Nat
    BY <2>1
  <2> QED
    BY <2>2
<1>2. PICK d \in T : \A e \in T : ~ (<<e, d>> \in OpToRel(<, Nat))
  <2> HIDE DEF T
  <2> QED
    BY <1>1, NatLessThanWellFounded, WFMin
<1>3. \A e \in T : ~ (e < d)
  BY <1>1, <1>2 DEF OpToRel
<1>4. PICK m \in S : d = n - m
  OBVIOUS
<1>5. \A t \in S : t <= m
  <2> SUFFICES ASSUME NEW t \in S PROVE t <= m
    OBVIOUS
  <2>1. n - t \in T
    OBVIOUS
  <2> QED
    BY <1>3, <1>4, <2>1
<1> QED
  BY <1>5

LEMMA ListingFinite ==
  ASSUME NEW n \in Nat, NEW S, S \subseteq 1 .. n
  PROVE  IsFiniteSet(S)
<1>1. IsFiniteSet(1 .. n)
  BY FS_Interval
<1> QED
  BY <1>1, FS_Subset

LEMMA BeforeType ==
  ASSUME NEW n \in Nat, NEW S, S \subseteq 1 .. n, NEW t
  PROVE  Before(t, S) \in Nat
<1>1. {u \in S : u > t} \subseteq 1 .. n
  OBVIOUS
<1> QED
  BY <1>1, ListingFinite, FS_CardinalityType DEF Before

\* More comes before an older entry, and in a longer listing.
LEMMA BeforeMonotone ==
  ASSUME NEW n \in Nat, NEW S, NEW T, S \subseteq T, T \subseteq 1 .. n,
         NEW t \in Int, NEW u \in Int, t <= u
  PROVE  Before(u, S) <= Before(t, T)
<1>1. {v \in S : v > u} \subseteq {v \in T : v > t}
  <2> SUFFICES ASSUME NEW v \in S, v > u PROVE v > t
    OBVIOUS
  <2>1. v \in Int
    OBVIOUS
  <2> QED
    BY <2>1
<1>2. {v \in T : v > t} \subseteq 1 .. n
  OBVIOUS
<1> QED
  BY <1>1, <1>2, ListingFinite, FS_Subset DEF Before

\* What is left of the listing after a page: it lies behind the page, and the
\* page was not the last.
LEMMA BehindThePage ==
  ASSUME now \in Nat, offset \in Nat, Listing \subseteq 1 .. now,
         NEW t \in Rest, t \notin Page
  PROVE  /\ Page # {}
         /\ Before(t, Listing) >= offset + Cardinality(Page)
         /\ Cardinality(Listing) > Before(t, Listing)
<1> USE Assumptions
<1>1. Rest \subseteq Listing /\ Rest \subseteq 1 .. now /\ Page \subseteq Rest /\ t \in 1 .. now
  BY DEF Rest, Page
<1>2. PICK m \in Rest : \A u \in Rest : u <= m
  BY <1>1, NewestExists
<1>3. Page # {}
  <2>1. {u \in Rest : u > m} = {}
    <3> SUFFICES ASSUME NEW u \in Rest, u > m PROVE FALSE
      OBVIOUS
    <3>1. u \in Int /\ m \in Int /\ u <= m
      BY <1>1, <1>2
    <3> QED
      BY <3>1
  <2>2. Before(m, Rest) = 0
    BY <2>1, FS_EmptySet DEF Before
  <2> QED
    BY <2>2 DEF Page
<1> DEFINE U == {u \in Listing : u > m}
           V == {u \in Listing : u > t}
<1>4. IsFiniteSet(U) /\ IsFiniteSet(Page) /\ IsFiniteSet(V) /\ IsFiniteSet(Listing)
  <2>1. U \subseteq 1 .. now /\ Page \subseteq 1 .. now /\ V \subseteq 1 .. now
    BY <1>1
  <2> QED
    BY <2>1, ListingFinite
<1>5. U \cap Page = {}
  <2> SUFFICES ASSUME NEW u \in Page, u > m PROVE FALSE
    OBVIOUS
  <2>1. u \in Int /\ m \in Int /\ u <= m
    BY <1>1, <1>2
  <2> QED
    BY <2>1
<1>6. Page \subseteq V
  <2> SUFFICES ASSUME NEW p \in Page, p <= t PROVE FALSE
    BY <1>1
  <2>1. Before(t, Rest) <= Before(p, Rest)
    <3>1. t \in Int /\ p \in Int /\ Rest \subseteq Rest
      BY <1>1
    <3> QED
      BY <1>1, <3>1, BeforeMonotone
  <2>2. Before(p, Rest) < PageSize /\ ~ (Before(t, Rest) < PageSize)
    BY DEF Page
  <2>3. Before(t, Rest) \in Nat /\ Before(p, Rest) \in Nat
    BY <1>1, BeforeType
  <2> QED
    BY <2>1, <2>2, <2>3
<1>7. U \subseteq V
  <2> SUFFICES ASSUME NEW u \in Listing, u > m PROVE u > t
    OBVIOUS
  <2>1. u \in Int /\ t \in Int /\ m \in Int /\ t <= m
    BY <1>1, <1>2
  <2> QED
    BY <2>1
<1>8. Cardinality(U) + Cardinality(Page) <= Cardinality(V)
  <2> HIDE DEF U, V
  <2>1. Cardinality(U \cup Page) = Cardinality(U) + Cardinality(Page)
    <3>1. Cardinality(U \cup Page) = Cardinality(U) + Cardinality(Page) - Cardinality(U \cap Page)
      BY <1>4, FS_Union
    <3>2. Cardinality(U \cap Page) = 0
      BY <1>5, FS_EmptySet
    <3>3. Cardinality(U) \in Nat /\ Cardinality(Page) \in Nat
      BY <1>4, FS_CardinalityType
    <3> QED
      BY <3>1, <3>2, <3>3
  <2>2. U \cup Page \in SUBSET V
    BY <1>6, <1>7
  <2>3. Cardinality(U \cup Page) <= Cardinality(V)
    BY <2>2, <1>4, FS_Subset
  <2> QED
    BY <2>1, <2>3
<1>9. Cardinality(U) >= offset
  BY <1>1 DEF Rest, Before
<1>10. Cardinality(V) < Cardinality(Listing)
  <2>1. V \in SUBSET (Listing \ {t})
    BY <1>1
  <2>2. IsFiniteSet(Listing \ {t}) /\ Cardinality(Listing \ {t}) = Cardinality(Listing) - 1
    BY <1>1, <1>4, FS_RemoveElement
  <2>3. Cardinality(V) <= Cardinality(Listing \ {t})
    BY <2>1, <2>2, FS_Subset
  <2> QED
    BY <2>2, <2>3, <1>4, FS_CardinalityType
<1>11. Cardinality(U) \in Nat /\ Cardinality(Page) \in Nat /\ Cardinality(V) \in Nat
  BY <1>4, FS_CardinalityType
<1>12. Before(t, Listing) = Cardinality(V)
  BY DEF Before
<1> QED
  <2> HIDE DEF U, V
  <2> QED
    BY <1>3, <1>8, <1>9, <1>10, <1>11, <1>12

-----------------------------------------------------------------------------
(* The inductive invariant                                                  *)

\* A walk agrees with the row, and never starts after the next one would.
WalkInv ==
  /\ cursor.start <= NextStart
  /\ walking /\ Resumed => offset = cursor.offset /\ start = cursor.start
  /\ walking /\ ~ Resumed => offset = 0 /\ start = NextStart

ImportInv == TypeOK /\ WalkInv /\ NothingLost

LEMMA ImportInit == Init => ImportInv
<1> SUFFICES ASSUME Init PROVE ImportInv
  OBVIOUS
<1> USE Assumptions DEF Init
<1>1. TypeOK
  <2>1. now \in Nat /\ history \subseteq 1 .. now /\ imported \subseteq history
    OBVIOUS
  <2>2. newest \in 0 .. now /\ trouble \in 0 .. MaxTrouble
    BY <2>1
  <2> QED
    BY <2>1, <2>2 DEF TypeOK
<1>2. WalkInv
  BY DEF WalkInv, NextStart, Resumed
<1>3. NothingLost
  <2> SUFFICES ASSUME NEW t \in history PROVE t > NextStart
    BY DEF NothingLost
  <2> QED
    BY DEF NextStart
<1> QED
  BY <1>1, <1>2, <1>3 DEF ImportInv

LEMMA NextStartType == ASSUME TypeOK PROVE NextStart \in Nat
BY Assumptions DEF TypeOK, NextStart

\* A newer newest entry moves the next walk's start forwards, if at all.
LEMMA NextStartGrows ==
  ASSUME newest \in Nat, newest' \in Nat, newest <= newest'
  PROVE  /\ NextStart \in Nat /\ NextStart' \in Nat /\ NextStart <= NextStart'
         /\ NextStart' <= newest'
<1> DEFINE a == newest
           b == newest'
<1>1. a \in Nat /\ b \in Nat /\ a <= b /\ Overlap \in Nat
  BY Assumptions
<1>2. NextStart' = IF b > Overlap THEN b - Overlap ELSE 0
  BY DEF NextStart
<1>3. NextStart = IF a > Overlap THEN a - Overlap ELSE 0
  BY DEF NextStart
<1> HIDE DEF a, b
<1>4. NextStart \in Nat /\ NextStart' \in Nat /\ NextStart <= NextStart' /\ NextStart' <= b
  BY <1>1, <1>2, <1>3
<1> QED
  BY <1>4 DEF b

\* A new entry, however late, is one the next walk asks for; and the others
\* come no earlier in a longer listing.
LEMMA OccurStep ==
  ASSUME ImportInv, NEW t \in Time, Occur(t)
  PROVE  ImportInv'
<1> USE Assumptions
<1>1. /\ history' = history \cup {t} /\ t \in 1 .. now /\ t >= now - Lag
      /\ UNCHANGED <<now, imported, cursor, completeness, newest, walking, offset, start,
                    trouble, closed, skipped>>
  BY DEF Occur, row, walk
<1>2. TypeOK'
  BY <1>1 DEF ImportInv, TypeOK
<1>3. WalkInv'
  BY <1>1 DEF ImportInv, WalkInv, NextStart, Resumed
<1>4. NothingLost'
  <2> SUFFICES ASSUME NEW u \in history', u \notin imported, u \notin skipped
               PROVE  u > NextStart \/ (Resumed /\ Ahead(u)')
    BY <1>1 DEF NothingLost, NextStart, Resumed
  <2>1. CASE u = t
    BY <2>1, <1>1 DEF ImportInv, TypeOK, NextStart
  <2>2. CASE u \in history /\ Resumed /\ Ahead(u)
    <3> DEFINE S == {v \in history : v > cursor.start}
               T == {v \in history' : v > cursor.start}
    <3>1. S \subseteq T /\ T \subseteq 1 .. now /\ now \in Nat /\ u \in Int
      <4>1. history \subseteq 1 .. now /\ now \in Nat
        BY DEF ImportInv, TypeOK
      <4>2. history \subseteq history' /\ history' \subseteq 1 .. now
        BY <1>1, <4>1
      <4>3. S \subseteq T /\ T \subseteq history'
        BY <4>2
      <4> QED
        <5> HIDE DEF S, T
        <5>1. u \in 1 .. now
          BY <4>2
        <5> QED
          BY <4>1, <4>2, <4>3, <5>1
    <3>2. Before(u, S) <= Before(u, T) /\ Before(u, S) \in Nat /\ Before(u, T) \in Nat
      <4> HIDE DEF S, T
      <4>1. S \subseteq 1 .. now
        BY <3>1
      <4>2. Before(u, S) <= Before(u, T)
        <5>1. u <= u
          BY <3>1
        <5> QED
          BY <3>1, <5>1, BeforeMonotone, Zenon
      <4> QED
        BY <3>1, <4>1, <4>2, BeforeType
    <3>3. u > cursor.start /\ Before(u, S) >= cursor.offset /\ cursor.offset \in Nat
      BY <2>2 DEF Ahead, ImportInv, TypeOK
    <3>4. Before(u, T) >= cursor.offset
      <4> HIDE DEF S, T
      <4> QED
        BY <3>2, <3>3
    <3> QED
      BY <1>1, <2>2, <3>3, <3>4 DEF Ahead
  <2> QED
    BY <1>1, <2>1, <2>2 DEF ImportInv, NothingLost
<1> QED
  BY <1>2, <1>3, <1>4 DEF ImportInv

LEMMA BeginStep ==
  ASSUME ImportInv, Begin
  PROVE  ImportInv'
<1> USE Assumptions
<1>1. UNCHANGED <<now, history, imported, cursor, completeness, newest, trouble, closed, skipped>>
  BY DEF Begin, world, row
<1>2. TypeOK'
  BY <1>1, NextStartType DEF Begin, ImportInv, TypeOK
<1>3. WalkInv'
  BY <1>1 DEF Begin, ImportInv, WalkInv, NextStart, Resumed
<1>4. NothingLost'
  BY <1>1 DEF ImportInv, NothingLost, NextStart, Resumed, Ahead
<1> QED
  BY <1>2, <1>3, <1>4 DEF ImportInv

LEMMA StoreStep ==
  ASSUME ImportInv, StorePage
  PROVE  ImportInv'
<1> USE Assumptions
<1>1. /\ walking /\ imported' = imported \cup Page
      /\ newest' \in Page \cup {newest} /\ \A t \in Page \cup {newest} : t <= newest'
      /\ completeness' = IF Last THEN "complete" ELSE "syncing"
      /\ cursor' = [offset |-> IF Last THEN 0 ELSE NextOffset, start |-> start]
      /\ walking' = ~ Last /\ offset' = NextOffset
      /\ UNCHANGED <<now, history, start, trouble, closed, skipped>>
  BY DEF StorePage, world
<1>2. /\ Listing \subseteq 1 .. now /\ Rest \subseteq Listing /\ Page \subseteq Rest
      /\ Listing \subseteq history /\ now \in Nat /\ offset \in Nat /\ start \in Nat
      /\ newest \in 0 .. now
  <2>1. now \in Nat /\ history \subseteq 1 .. now /\ offset \in Nat /\ start \in Nat
        /\ newest \in 0 .. now
    BY DEF ImportInv, TypeOK
  <2>2. Rest \subseteq Listing /\ Page \subseteq Rest /\ Listing \subseteq history
    BY DEF Listing, Rest, Page
  <2> QED
    BY <2>1, <2>2
<1>3. Cardinality(Page) \in Nat /\ Cardinality(Listing) \in Nat /\ NextOffset \in Nat
  <2>1. Page \subseteq 1 .. now
    BY <1>2
  <2>2. IsFiniteSet(Page) /\ IsFiniteSet(Listing)
    BY <1>2, <2>1, ListingFinite
  <2>3. Cardinality(Page) \in Nat /\ Cardinality(Listing) \in Nat
    BY <2>2, FS_CardinalityType
  <2> QED
    BY <1>2, <2>3 DEF NextOffset
<1>4. newest' \in 0 .. now /\ newest <= newest'
  BY <1>1, <1>2
<1>5. TypeOK'
  BY <1>1, <1>2, <1>3, <1>4 DEF ImportInv, TypeOK
<1>6. /\ NextStart \in Nat /\ NextStart' \in Nat
      /\ NextStart <= NextStart' /\ NextStart' <= newest'
  <2>1. newest \in Nat /\ newest' \in Nat /\ newest <= newest'
    BY <1>2, <1>4
  <2> QED
    BY <2>1, NextStartGrows
<1>7. WalkInv'
  <2>1. start <= NextStart
    BY <1>1, <1>6 DEF ImportInv, WalkInv
  <2>2. cursor'.start <= NextStart'
    BY <1>1, <1>2, <1>6, <2>1
  <2>3. walking' => completeness' = "syncing" /\ offset' = cursor'.offset /\ start' = cursor'.start
    BY <1>1
  <2> QED
    BY <2>2, <2>3 DEF WalkInv, Resumed
<1>8. NothingLost'
  <2> SUFFICES ASSUME NEW t \in history, t \notin imported, t \notin skipped, t \notin Page
               PROVE  t > NextStart' \/ (Resumed' /\ Ahead(t)')
    BY <1>1 DEF NothingLost
  <2>0. t \in 1 .. now
    BY DEF ImportInv, TypeOK
  <2>1. CASE t \in Rest
    <3>1. /\ Page # {} /\ Before(t, Listing) >= NextOffset
          /\ Cardinality(Listing) > Before(t, Listing)
      BY <1>2, <2>1, BehindThePage DEF NextOffset
    <3>2. ~ Last
      <4>1. Before(t, Listing) \in Nat
        BY <1>2, BeforeType
      <4> QED
        BY <1>3, <3>1, <4>1 DEF Last
    <3>3. t > start /\ Listing = {u \in history : u > start}
      BY <1>2, <2>1 DEF Listing
    <3> QED
      BY <1>1, <3>1, <3>2, <3>3 DEF Ahead, Resumed
  <2>2. CASE t \notin Rest
    <3>1. ~ (Resumed /\ Ahead(t))
      <4> SUFFICES ASSUME Resumed, Ahead(t) PROVE FALSE
        OBVIOUS
      <4>1. offset = cursor.offset /\ start = cursor.start
        BY <1>1 DEF ImportInv, WalkInv
      <4> QED
        BY <2>2, <4>1 DEF Ahead, Rest, Listing
    <3>2. t > NextStart
      BY <3>1 DEF ImportInv, NothingLost
    <3>3. t \in Listing
      <4>1. start <= NextStart
        BY <1>1, <1>6 DEF ImportInv, WalkInv
      <4>2. t > start
        BY <1>2, <1>6, <2>0, <3>2, <4>1
      <4> QED
        BY <4>2 DEF Listing
    <3>4. CASE newest' = newest
      BY <3>2, <3>4 DEF NextStart
    <3>5. CASE newest' \in Page
      <4>1. newest' \in Rest /\ newest' \in 1 .. now
        BY <1>2, <3>5
      <4>2. newest' < t
        <5> SUFFICES ASSUME t <= newest' PROVE FALSE
          BY <2>0, <4>1
        <5>1. Before(newest', Listing) <= Before(t, Listing)
          <6>1. t \in Int /\ newest' \in Int
            BY <1>2, <2>0, <4>1
          <6> QED
            BY <1>2, <6>1, BeforeMonotone
        <5>2. Before(newest', Listing) >= offset /\ ~ (Before(t, Listing) >= offset)
          BY <2>2, <3>3, <4>1 DEF Rest
        <5>3. Before(t, Listing) \in Nat /\ Before(newest', Listing) \in Nat
          BY <1>2, BeforeType
        <5> QED
          BY <1>2, <5>1, <5>2, <5>3
      <4>3. t \in Int /\ newest' \in Int /\ newest' > 0
        BY <1>2, <2>0, <4>1
      <4>4. t > NextStart'
        BY <1>6, <4>2, <4>3
      <4> QED
        BY <4>4
    <3> QED
      BY <1>1, <3>4, <3>5
  <2> QED
    BY <2>1, <2>2
<1> QED
  BY <1>5, <1>7, <1>8 DEF ImportInv

\* An entry that a failed query of the closed orders does not leave behind is
\* ahead of the walk it goes on with, or within the overlap of now.
LEMMA NotedStep ==
  ASSUME ImportInv, Noted
  PROVE  ImportInv'
<1> USE Assumptions
<1>1. /\ walking /\ newest' = now /\ walking' = FALSE
      /\ cursor' = [offset |-> offset, start |-> start]
      /\ completeness' = IF offset > 0 \/ Resumed THEN "syncing" ELSE "partial"
      /\ skipped' = skipped \cup LeftBehind
      /\ trouble' = trouble + 1 /\ trouble' \in 0 .. MaxTrouble
      /\ UNCHANGED <<now, history, imported, offset, start, closed>>
  BY DEF Noted, world, ImportInv, TypeOK
<1>2. /\ now \in Nat /\ offset \in Nat /\ start \in Nat /\ newest \in 0 .. now
      /\ history \subseteq 1 .. now
  BY DEF ImportInv, TypeOK
<1>3. TypeOK'
  <2>1. LeftBehind \subseteq history
    BY DEF LeftBehind, Listing
  <2>2. skipped' \subseteq history' /\ imported' \subseteq history' /\ closed' \in BOOLEAN
    BY <1>1, <2>1 DEF ImportInv, TypeOK
  <2>3. completeness' \in {"syncing", "partial"} /\ cursor' \in [offset : Nat, start : Nat]
    BY <1>1, <1>2
  <2>4. now' \in 1 .. MaxTime /\ history' \subseteq 1 .. now' /\ newest' \in 0 .. now'
    BY <1>1, <1>2 DEF ImportInv, TypeOK
  <2> QED
    BY <1>1, <1>2, <2>2, <2>3, <2>4 DEF TypeOK
<1>4. /\ NextStart \in Nat /\ NextStart' \in Nat /\ NextStart <= NextStart'
      /\ NextStart' = IF now > Overlap THEN now - Overlap ELSE 0
  BY <1>1, <1>2 DEF NextStart
<1>5. start <= NextStart
  BY <1>1, <1>2, <1>4 DEF ImportInv, WalkInv
<1>6. WalkInv'
  BY <1>1, <1>2, <1>4, <1>5 DEF WalkInv
<1>7. NothingLost'
  <2> SUFFICES ASSUME NEW t \in history, t \notin imported, t \notin skipped,
                      t \notin LeftBehind
               PROVE  t > NextStart' \/ (Resumed' /\ Ahead(t)')
    BY <1>1 DEF NothingLost
  <2>1. t \in 1 .. now
    BY <1>2
  <2>2. CASE Resumed /\ Ahead(t)
    <3>1. offset = cursor.offset /\ start = cursor.start
      BY <1>1, <2>2 DEF ImportInv, WalkInv
    <3> QED
      BY <1>1, <2>2, <3>1 DEF Ahead, Resumed
  <2>3. CASE ~ (Resumed /\ Ahead(t))
    <3>1. t > NextStart
      BY <2>3 DEF ImportInv, NothingLost
    <3>2. t \in Listing
      BY <1>2, <1>4, <1>5, <2>1, <3>1 DEF Listing
    <3>3. Resumed => t \notin Rest
      <4> SUFFICES ASSUME Resumed, t \in Rest PROVE FALSE
        OBVIOUS
      <4>1. offset = cursor.offset /\ start = cursor.start
        BY <1>1 DEF ImportInv, WalkInv
      <4> QED
        BY <2>3, <4>1 DEF Ahead, Rest, Listing
    <3>4. ~ (t <= now - Overlap)
      BY <3>2, <3>3 DEF LeftBehind
    <3> QED
      BY <1>2, <1>4, <2>1, <3>4
  <2> QED
    BY <2>2, <2>3
<1> QED
  BY <1>3, <1>6, <1>7 DEF ImportInv

LEMMA ImportStep == ImportInv /\ [Next]_vars => ImportInv'
<1> SUFFICES ASSUME ImportInv, [Next]_vars PROVE ImportInv'
  OBVIOUS
<1>1. CASE Tick
  <2>1. /\ now' = now + 1 /\ now' \in 1 .. MaxTime
        /\ UNCHANGED <<history, imported, cursor, completeness, newest, walking, offset, start,
                      trouble, closed, skipped>>
    BY <1>1, Assumptions DEF Tick, row, walk, ImportInv, TypeOK
  <2>2. TypeOK'
    BY <2>1 DEF ImportInv, TypeOK
  <2> QED
    BY <2>1, <2>2 DEF ImportInv, WalkInv, NothingLost, NextStart, Resumed, Ahead
<1>2. ASSUME NEW t \in Time, Occur(t) PROVE ImportInv'
  BY <1>2, OccurStep
<1>3. CASE Begin
  BY <1>3, BeginStep
<1>4. CASE StorePage
  BY <1>4, StoreStep
<1>5. CASE Interrupted
  <2>1. /\ walking' = FALSE /\ trouble' \in 0 .. MaxTrouble
        /\ UNCHANGED <<now, history, imported, cursor, completeness, newest, offset, start,
                      closed, skipped>>
    BY <1>5, Assumptions DEF Interrupted, world, row, ImportInv, TypeOK
  <2>2. TypeOK'
    BY <2>1 DEF ImportInv, TypeOK
  <2> QED
    BY <2>1, <2>2 DEF ImportInv, WalkInv, NothingLost, NextStart, Resumed, Ahead
<1>6. CASE Noted
  BY <1>6, NotedStep
<1>7. CASE UNCHANGED vars
  BY <1>7 DEF vars, world, row, walk, ImportInv, TypeOK, WalkInv, NothingLost, NextStart,
              Resumed, Ahead
<1> QED
  BY <1>1, <1>2, <1>3, <1>4, <1>5, <1>6, <1>7 DEF Next

THEOREM ImportInvariant == Spec => []ImportInv
BY ImportInit, ImportStep, PTL DEF Spec

\* No entry is lost, for every history, page size and overlap: entries that
\* come in during a walk, show up late or find the walk interrupted stay ahead
\* of it or within the next one.  Only a failed query of the closed orders
\* leaves some behind, of those older than the overlap.
THEOREM NothingIsLost == Spec => []NothingLost
<1>1. ImportInv => NothingLost
  BY DEF ImportInv
<1> QED
  BY ImportInvariant, <1>1, PTL

\* A history reported complete has no hole but those.
THEOREM CompleteIsComplete == Spec => []CompleteMeansAll
<1>1. ImportInv => CompleteMeansAll
  BY DEF ImportInv, NothingLost, CompleteMeansAll, Resumed
<1> QED
  BY ImportInvariant, <1>1, PTL

-----------------------------------------------------------------------------
(* Induction over numbers and over the subsets of a finite set, and sums    *)
(* over one: what the Earn allocations come to.                             *)

One(S) == CHOOSE x \in S : TRUE

LEMMA NaturalsReached ==
  ASSUME NEW S, 0 \in S, \A n \in Nat : n \in S => n + 1 \in S
  PROVE  Nat \subseteq S
<1> DEFINE T == Nat \ S
<1> SUFFICES ASSUME T # {} PROVE FALSE
  OBVIOUS
<1>1. PICK b \in T : \A x \in T : ~ (<<x, b>> \in OpToRel(<, Nat))
  <2>1. T \subseteq Nat
    OBVIOUS
  <2> HIDE DEF T
  <2> QED
    BY <2>1, NatLessThanWellFounded, WFMin
<1>2. b \in Nat /\ b # 0 /\ \A x \in T : ~ (x < b)
  BY <1>1 DEF OpToRel
<1>3. b - 1 \in Nat /\ b - 1 < b /\ (b - 1) + 1 = b
  BY <1>2
<1> QED
  BY <1>2, <1>3

LEMMA SubsetsReached ==
  ASSUME NEW D, IsFiniteSet(D), NEW P, {} \in P,
         \A s \in SUBSET D : s # {} /\ s \ {One(s)} \in P => s \in P
  PROVE  D \in P
<1> DEFINE N == {n \in Nat : \A s \in SUBSET D : Cardinality(s) = n => s \in P}
<1>1. 0 \in N
  <2> SUFFICES ASSUME NEW s \in SUBSET D, Cardinality(s) = 0 PROVE s \in P
    OBVIOUS
  <2> QED
    BY FS_Subset, FS_EmptySet
<1>2. ASSUME NEW n \in Nat, n \in N PROVE n + 1 \in N
  <2> SUFFICES ASSUME NEW s \in SUBSET D, Cardinality(s) = n + 1 PROVE s \in P
    OBVIOUS
  <2>1. IsFiniteSet(s) /\ s # {}
    BY FS_Subset, FS_EmptySet
  <2>2. One(s) \in s
    BY <2>1 DEF One
  <2>3. Cardinality(s \ {One(s)}) = Cardinality(s) - 1
    BY <2>1, <2>2, FS_RemoveElement
  <2>4. Cardinality(s \ {One(s)}) = n
    BY <2>3
  <2> QED
    BY <1>2, <2>1, <2>4
<1> HIDE DEF N
<1>3. Nat \subseteq N
  BY <1>1, <1>2, NaturalsReached
<1> QED
  BY <1>3, FS_CardinalityType DEF N

\* What a sum adds up: the subsets, one element after the other.
Adds(h, f) ==
  /\ h[{}] = 0
  /\ \A s \in SUBSET DOMAIN f : s # {} => h[s] = f[One(s)] + h[s \ {One(s)}]

LEMMA SumAdds ==
  ASSUME NEW D, IsFiniteSet(D), NEW f \in [D -> Int]
  PROVE  \E h \in [SUBSET D -> Int] : Adds(h, f) /\ SumFunction(f) = h[D]
<1> DEFINE step(h) == [s \in SUBSET D |-> IF s = {} THEN 0 ELSE f[One(s)] + h[s \ {One(s)}]]
           N == {n \in Nat : \E h \in [SUBSET D -> Int] :
                   \A s \in SUBSET D : Cardinality(s) <= n => h[s] = step(h)[s]}
<1>a. \A h \in [SUBSET D -> Int] : step(h) \in [SUBSET D -> Int]
  <2> SUFFICES ASSUME NEW h \in [SUBSET D -> Int], NEW s \in SUBSET D, s # {}
               PROVE  f[One(s)] + h[s \ {One(s)}] \in Int
    OBVIOUS
  <2>1. One(s) \in D
    BY DEF One
  <2> QED
    BY <2>1
<1>b. \A s \in SUBSET D : Cardinality(s) \in Nat /\ IsFiniteSet(s)
  BY FS_Subset, FS_CardinalityType
<1>c. ASSUME NEW s \in SUBSET D, s # {} PROVE Cardinality(s \ {One(s)}) = Cardinality(s) - 1
  <2>1. One(s) \in s
    BY <1>c DEF One
  <2> QED
    BY <1>b, <2>1, FS_RemoveElement
<1>1. 0 \in N
  <2> DEFINE h == [s \in SUBSET D |-> 0]
  <2>1. ASSUME NEW s \in SUBSET D, Cardinality(s) <= 0 PROVE h[s] = step(h)[s]
    <3>1. s = {}
      BY <1>b, <2>1, FS_EmptySet
    <3> QED
      BY <3>1
  <2>2. h \in [SUBSET D -> Int]
    OBVIOUS
  <2> HIDE DEF h, step
  <2> QED
    BY <2>1, <2>2
<1>2. ASSUME NEW n \in Nat, n \in N PROVE n + 1 \in N
  <2>1. PICK h \in [SUBSET D -> Int] : \A s \in SUBSET D : Cardinality(s) <= n => h[s] = step(h)[s]
    BY <1>2
  <2> DEFINE g == step(h)
  <2>2. g \in [SUBSET D -> Int]
    BY <1>a
  <2>3. ASSUME NEW s \in SUBSET D, Cardinality(s) <= n + 1 PROVE g[s] = step(g)[s]
    <3>1. CASE s = {}
      BY <3>1
    <3>2. CASE s # {}
      <4>1. Cardinality(s \ {One(s)}) <= n
        BY <1>b, <1>c, <2>3, <3>2
      <4>2. g[s \ {One(s)}] = h[s \ {One(s)}]
        BY <2>1, <4>1
      <4>3. g[s] = f[One(s)] + h[s \ {One(s)}]
        BY <3>2
      <4>4. step(g)[s] = f[One(s)] + g[s \ {One(s)}]
        BY <3>2
      <4> QED
        BY <4>2, <4>3, <4>4
    <3> QED
      BY <3>1, <3>2
  <2> HIDE DEF g, step
  <2> QED
    BY <2>2, <2>3
<1>3. Nat \subseteq N
  <2> HIDE DEF N
  <2> QED
    BY <1>1, <1>2, NaturalsReached
<1>4. PICK h \in [SUBSET D -> Int] :
        \A s \in SUBSET D : Cardinality(s) <= Cardinality(D) => h[s] = step(h)[s]
  BY <1>3, <1>b
<1>5. h = step(h)
  <2>1. \A s \in SUBSET D : h[s] = step(h)[s]
    BY <1>4, <1>b, FS_Subset
  <2> QED
    BY <2>1
<1> DEFINE c == CHOOSE g : g = step(g)
<1>6. c = step(c)
  <2> HIDE DEF step
  <2> QED
    BY <1>5
<1>7. SumFunction(f) = c[D]
  BY DEF SumFunction, SumFunctionOnSet, FoldFunctionOnSet, MapThenFoldSet, One
<1> HIDE DEF c
<1>8. \A s \in SUBSET D : (s = {} => c[s] = 0) /\ (s # {} => c[s] = f[One(s)] + c[s \ {One(s)}])
  BY <1>6
<1>9. Adds(c, f)
  BY <1>8 DEF Adds
<1>10. c \in [SUBSET D -> Int]
  <2> DEFINE P == {s \in SUBSET D : c[s] = h[s]}
  <2>1. \A s \in SUBSET D : s # {} => h[s] = f[One(s)] + h[s \ {One(s)}]
    BY <1>5
  <2>2. h[{}] = 0
    BY <1>5
  <2>3. ASSUME NEW E \in SUBSET D PROVE E \in P
    <3>1. {} \in P
      BY <1>8, <2>2
    <3>2. ASSUME NEW s \in SUBSET E, s # {}, s \ {One(s)} \in P PROVE s \in P
      <4>1. s \in SUBSET D
        OBVIOUS
      <4>2. c[s] = f[One(s)] + c[s \ {One(s)}] /\ h[s] = f[One(s)] + h[s \ {One(s)}]
        BY <1>8, <2>1, <3>2, <4>1
      <4> QED
        BY <3>2, <4>1, <4>2
    <3> HIDE DEF P
    <3> QED
      BY <1>b, <3>1, <3>2, SubsetsReached
  <2>4. c = [s \in SUBSET D |-> h[s]]
    BY <1>6, <2>3
  <2> QED
    BY <2>4
<1> QED
  BY <1>7, <1>9, <1>10

LEMMA SumNatural ==
  ASSUME NEW D, IsFiniteSet(D), NEW f \in [D -> Nat]
  PROVE  SumFunction(f) \in Nat
<1>0. f \in [D -> Int]
  OBVIOUS
<1>1. PICK h \in [SUBSET D -> Int] : Adds(h, f) /\ SumFunction(f) = h[D]
  BY <1>0, SumAdds
<1> DEFINE P == {s \in SUBSET D : h[s] \in Nat}
<1>2. {} \in P
  BY <1>1 DEF Adds
<1>3. ASSUME NEW s \in SUBSET D, s # {}, s \ {One(s)} \in P PROVE s \in P
  <2>1. One(s) \in D
    BY <1>3 DEF One
  <2> QED
    BY <1>1, <1>3, <2>1 DEF Adds
<1> HIDE DEF P
<1>4. D \in P
  BY <1>2, <1>3, SubsetsReached
<1> QED
  BY <1>1, <1>4 DEF P

LEMMA SumZero ==
  ASSUME NEW D, IsFiniteSet(D)
  PROVE  SumFunction([i \in D |-> 0]) = 0
<1> DEFINE f == [i \in D |-> 0]
<1>1. PICK h \in [SUBSET D -> Int] : Adds(h, f) /\ SumFunction(f) = h[D]
  <2>1. f \in [D -> Int]
    OBVIOUS
  <2> HIDE DEF f
  <2> QED
    BY <2>1, SumAdds
<1> DEFINE P == {s \in SUBSET D : h[s] = 0}
<1>2. {} \in P
  BY <1>1 DEF Adds
<1>3. ASSUME NEW s \in SUBSET D, s # {}, s \ {One(s)} \in P PROVE s \in P
  <2>1. One(s) \in D
    BY <1>3 DEF One
  <2> QED
    BY <1>1, <1>3, <2>1 DEF Adds
<1> HIDE DEF P
<1>4. D \in P
  BY <1>2, <1>3, SubsetsReached
<1> QED
  BY <1>1, <1>4 DEF P

LEMMA SumMoves ==
  ASSUME NEW D, IsFiniteSet(D), NEW f \in [D -> Int], NEW i \in D, NEW a \in Int
  PROVE  SumFunction([f EXCEPT ![i] = @ + a]) = SumFunction(f) + a
<1> DEFINE g == [f EXCEPT ![i] = @ + a]
<1>1. PICK h \in [SUBSET D -> Int] : Adds(h, f) /\ SumFunction(f) = h[D]
  BY SumAdds
<1>2. PICK k \in [SUBSET D -> Int] : Adds(k, g) /\ SumFunction(g) = k[D]
  <2>1. g \in [D -> Int]
    OBVIOUS
  <2> HIDE DEF g
  <2> QED
    BY <2>1, SumAdds
<1> DEFINE P == {s \in SUBSET D : k[s] = h[s] + IF i \in s THEN a ELSE 0}
<1>3. {} \in P
  BY <1>1, <1>2 DEF Adds
<1>4. ASSUME NEW s \in SUBSET D, s # {}, s \ {One(s)} \in P PROVE s \in P
  <2>1. One(s) \in D /\ One(s) \in s
    BY <1>4 DEF One
  <2>2. h[s] = f[One(s)] + h[s \ {One(s)}] /\ k[s] = g[One(s)] + k[s \ {One(s)}]
    BY <1>1, <1>2, <1>4 DEF Adds
  <2>3. /\ h[s \ {One(s)}] \in Int
        /\ k[s \ {One(s)}] = h[s \ {One(s)}] + IF i \in s \ {One(s)} THEN a ELSE 0
    BY <1>4
  <2>4. CASE One(s) = i
    BY <2>1, <2>2, <2>3, <2>4
  <2>5. CASE One(s) # i
    BY <2>1, <2>2, <2>3, <2>5
  <2> QED
    BY <2>4, <2>5
<1> HIDE DEF P
<1>5. D \in P
  BY <1>3, <1>4, SubsetsReached
<1> QED
  BY <1>1, <1>2, <1>5 DEF P

-----------------------------------------------------------------------------
(* The steps of a run                                                       *)

LEMMA Halves ==
  ASSUME NEW a \in Nat, NEW b \in Nat, a <= b
  PROVE  HalfOf(a) \in Nat /\ HalfOf(a) <= HalfOf(b)
<1>1. HalfHour \in Nat \ {0}
  BY AccountAssumptions
<1>2. a \div HalfHour \in Nat
  BY <1>1, SMT
<1>3. a \div HalfHour <= b \div HalfHour
  BY <1>1, SMT
<1> QED
  BY <1>2, <1>3 DEF HalfOf

FinalStep == Len(Endpoint) + 6

LEMMA StepsAre ==
  /\ FinalStep \in Nat /\ FinalStep >= 6 /\ Len(Steps) = FinalStep
  /\ Steps[1] = "ledgers" /\ Steps[2] = "balances" /\ Steps[3] = "allocations"
  /\ Steps[4] = "strategies" /\ Steps[FinalStep - 1] = "snapshot" /\ Steps[FinalStep] = "announce"
  /\ \A k \in 5 .. FinalStep - 2 : Steps[k] \in Range(Endpoint)
<1>1. /\ Endpoint \in Seq(DOMAIN Policy \ {"allocations"})
  BY AccountAssumptions
<1>2. Len(Endpoint) \in Nat
  BY <1>1
<1> DEFINE first == <<"ledgers", "balances", "allocations", "strategies">>
           last == <<"snapshot", "announce">>
           Name == DOMAIN Policy \cup {"ledgers", "balances", "allocations", "strategies",
                                        "snapshot", "announce"}
<1>3. first \in Seq(Name) /\ last \in Seq(Name) /\ Len(first) = 4 /\ Len(last) = 2
  OBVIOUS
<1>4. Endpoint \in Seq(Name)
  BY <1>1
<1> DEFINE most == first \o Endpoint
<1>5. /\ most \in Seq(Name) /\ Len(most) = 4 + Len(Endpoint)
      /\ \A k \in 1 .. 4 : most[k] = first[k]
      /\ \A k \in 5 .. Len(Endpoint) + 4 : most[k] = Endpoint[k - 4]
  BY <1>2, <1>3, <1>4
<1>6. /\ Len(most \o last) = FinalStep
      /\ \A k \in 1 .. Len(most) : (most \o last)[k] = most[k]
      /\ (most \o last)[Len(most) + 1] = "snapshot" /\ (most \o last)[Len(most) + 2] = "announce"
  BY <1>2, <1>3, <1>5 DEF FinalStep
<1>7. Steps = most \o last
  BY DEF Steps
<1>8. \A k \in 1 .. Len(Endpoint) : Endpoint[k] \in Range(Endpoint)
  BY <1>1 DEF Range
<1> QED
  BY <1>2, <1>5, <1>6, <1>7, <1>8 DEF FinalStep

LEMMA ListsAre ==
  /\ Lists \subseteq DOMAIN Policy
  /\ \A e \in DOMAIN Policy : e \notin {"ledgers", "balances", "strategies", "snapshot", "announce"}
  /\ "allocations" \notin Range(Endpoint)
<1>1. \A e \in Range(Endpoint) : e \in DOMAIN Policy \ {"allocations"}
  BY AccountAssumptions DEF Range
<1>2. DOMAIN Policy = {"allocations", "operations", "margin", "openOrders", "tradeBalance", "funding",
                       "tradeVolume", "creditLines"}
  BY DEF Policy
<1> QED
  BY <1>1, <1>2 DEF Lists

\* Which step has which name.
LEMMA StepNames ==
  ASSUME NEW k \in 1 .. FinalStep
  PROVE  /\ Steps[k] = "ledgers" <=> k = 1
         /\ Steps[k] = "balances" <=> k = 2
         /\ Steps[k] = "allocations" <=> k = 3
         /\ Steps[k] = "strategies" <=> k = 4
         /\ Steps[k] = "snapshot" <=> k = FinalStep - 1
         /\ Steps[k] = "announce" <=> k = FinalStep
         /\ Steps[k] \in Lists <=> k \in {3} \cup 5 .. FinalStep - 2
<1>1. k \in {1, 2, 3, 4, FinalStep - 1, FinalStep} \/ k \in 5 .. FinalStep - 2
  BY StepsAre
<1>2. "allocations" \in Lists /\ Range(Endpoint) \subseteq Lists
  BY DEF Lists
<1>3. CASE k \in 5 .. FinalStep - 2
  <2>1. Steps[k] \in Range(Endpoint) /\ k \notin {1, 2, 3, 4, FinalStep - 1, FinalStep}
    BY <1>3, StepsAre
  <2>2. Steps[k] \notin {"ledgers", "balances", "strategies", "snapshot", "announce", "allocations"}
    BY <1>2, <2>1, ListsAre
  <2> QED
    BY <1>2, <1>3, <2>1, <2>2
<1>4. CASE k \in {1, 2, 3, 4, FinalStep - 1, FinalStep}
  <2>1. FinalStep - 1 > 4
    BY StepsAre
  <2>2. \A x \in {"ledgers", "balances", "strategies", "snapshot", "announce"} : x \notin Lists
    BY ListsAre
  <2> QED
    BY <1>2, <1>4, <2>1, <2>2, StepsAre
<1> QED
  BY <1>1, <1>3, <1>4

-----------------------------------------------------------------------------
(* The types of the account and of its run                                  *)

Shot == [spot : Nat \cup {Unknown}, earn : Nat \cup {Unknown}]

RunType ==
  [step : 0 .. FinalStep, page : Item \cup {0}, ids : SUBSET Item, warned : BOOLEAN, balances : Shot,
   allocations : [Item -> Nat], changed : BOOLEAN, differs : BOOLEAN, half : Half]

\* What Kraken has.
AccountTypes ==
  /\ instant \in Instant /\ spot \in Nat /\ earn \in [Item -> Nat] /\ listed \subseteq Item
  /\ suffixed \in BOOLEAN /\ ledger \in [Instant -> Int]
  /\ moves \in 0 .. MaxMoves

\* What is stored of it.
StoredTypes ==
  /\ kept \in [Instant -> Int] /\ complete \in BOOLEAN /\ allocated \in [Item -> Nat]
  /\ rates \subseteq Half
  /\ seen \in [Lists -> [Item -> [present : BOOLEAN, at : Instant \cup {Never}]]]
  /\ snapshot \in [Half -> Shot]

MarkTypes ==
  /\ told \in BOOLEAN /\ moved \in BOOLEAN
  /\ blurred \subseteq Half /\ churned \subseteq Item
  /\ spoilt \subseteq Half /\ failures \in 0 .. MaxFailures

Typed == AccountTypes /\ StoredTypes /\ MarkTypes /\ run \in RunType

LEMMA TypedMeans == Typed <=> AccountTypeOK
BY StepsAre DEF Typed, AccountTypes, StoredTypes, MarkTypes, RunType, Shot, AccountTypeOK

LEMMA HalfIs == ASSUME Typed PROVE HalfOf(instant) \in Half
<1>1. instant \in Nat /\ MaxInstant \in Nat /\ instant <= MaxInstant
  BY AccountAssumptions DEF Typed, AccountTypes, Instant
<1>2. HalfOf(instant) \in Nat /\ HalfOf(instant) <= HalfOf(MaxInstant) /\ HalfOf(MaxInstant) \in Nat
  BY <1>1, Halves
<1>3. Half = 0 .. HalfOf(MaxInstant)
  BY DEF Half, HalfOf
<1> QED
  BY <1>2, <1>3

LEMMA AtIs ==
  ASSUME Typed, NEW x, At(x)
  PROVE  /\ run.step \in 1 .. FinalStep /\ Steps[run.step] = x
BY DEF Typed, RunType, At

LEMMA Advances ==
  ASSUME NEW r \in RunType, r.step < FinalStep
  PROVE  /\ Advance(r) \in RunType
         /\ Advance(r).step = r.step + 1 /\ Advance(r).page = 0 /\ Advance(r).ids = {}
         /\ Advance(r).warned = FALSE /\ Advance(r).balances = r.balances
         /\ Advance(r).allocations = r.allocations
         /\ Advance(r).changed = r.changed /\ Advance(r).differs = r.differs
         /\ Advance(r).half = r.half
<1>1. r.step + 1 \in 0 .. FinalStep
  BY StepsAre DEF RunType
<1> QED
  BY <1>1 DEF Advance, RunType

LEMMA RestingTyped == Resting \in RunType
<1>1. 0 \in Half /\ 0 \in 0 .. FinalStep
  BY StepsAre, Halves, AccountAssumptions DEF Half, HalfOf
<1>2. NoSnapshot \in Shot /\ [i \in Item |-> 0] \in [Item -> Nat]
  BY DEF NoSnapshot, Shot
<1> QED
  BY <1>1, <1>2 DEF Resting, RunType

LEMMA AccountTypedInit == AccountInit => Typed
<1> SUFFICES ASSUME AccountInit PROVE Typed
  OBVIOUS
<1> USE AccountAssumptions DEF AccountInit
<1>1. instant \in Instant /\ ledger \in [Instant -> Int] /\ kept \in [Instant -> Int]
  BY DEF Instant
<1>2. AccountTypes
  BY <1>1 DEF AccountTypes
<1>3. seen \in [Lists -> [Item -> [present : BOOLEAN, at : Instant \cup {Never}]]]
  BY DEF Absent
<1>4. snapshot \in [Half -> Shot]
  BY DEF NoSnapshot, Shot
<1>5. StoredTypes
  <2>1. allocated \in [Item -> Nat] /\ complete \in BOOLEAN /\ rates \subseteq Half
    OBVIOUS
  <2> QED
    BY <1>1, <1>3, <1>4, <2>1 DEF StoredTypes
<1>6. MarkTypes
  <2>1. told \in BOOLEAN /\ moved \in BOOLEAN
    OBVIOUS
  <2>2. blurred \subseteq Half /\ churned \subseteq Item /\ spoilt \subseteq Half
    OBVIOUS
  <2>3. failures \in 0 .. MaxFailures
    OBVIOUS
  <2> QED
    BY <2>1, <2>2, <2>3 DEF MarkTypes
<1> QED
  BY <1>2, <1>5, <1>6, RestingTyped DEF Typed

-----------------------------------------------------------------------------
(* Pages                                                                    *)

LEMMA LeastItem ==
  ASSUME NEW S \in SUBSET Item, S # {}
  PROVE  Min(S) \in S /\ \A x \in S : Min(S) <= x
<1>0. S \in SUBSET Nat
  BY AccountAssumptions
<1>1. PICK b \in S : \A x \in S : ~ (<<x, b>> \in OpToRel(<, Nat))
  BY <1>0, NatLessThanWellFounded, WFMin
<1>2. \A x \in S : x \in Nat /\ b \in Nat /\ ~ (x < b)
  BY <1>0, <1>1 DEF OpToRel
<1>3. \A x \in S : b =< x
  BY <1>2
<1> QED
  BY <1>3 DEF Min

LEMMA GreatestItem ==
  ASSUME NEW S \in SUBSET Item, S # {}
  PROVE  Max(S) \in S /\ \A x \in S : x <= Max(S)
<1> DEFINE P == {s \in SUBSET S : s = {} \/ \E m \in s : \A x \in s : x <= m}
<1>0. S \subseteq Nat /\ IsFiniteSet(S)
  BY AccountAssumptions, FS_Subset
<1>1. {} \in P
  OBVIOUS
<1>2. ASSUME NEW s \in SUBSET S, s # {}, s \ {One(s)} \in P PROVE s \in P
  <2>1. One(s) \in s
    BY <1>2 DEF One
  <2>2. CASE s \ {One(s)} = {}
    <3>1. \A x \in s : x = One(s) /\ x \in Nat
      BY <1>0, <2>2
    <3> QED
      BY <2>1, <3>1
  <2>3. CASE s \ {One(s)} # {}
    <3>1. PICK m \in s \ {One(s)} : \A x \in s \ {One(s)} : x <= m
      BY <1>2, <2>3
    <3>2. m \in Nat /\ One(s) \in Nat /\ \A x \in s : x \in Nat
      BY <1>0, <2>1
    <3>3. CASE m >= One(s)
      <4>1. \A x \in s : x <= m
        BY <3>1, <3>2, <3>3
      <4> QED
        BY <4>1
    <3>4. CASE m < One(s)
      <4>1. \A x \in s : x <= One(s)
        BY <3>1, <3>2, <3>4
      <4> QED
        BY <2>1, <4>1
    <3> QED
      BY <3>2, <3>3, <3>4
  <2> QED
    BY <2>2, <2>3
<1> HIDE DEF P
<1>3. S \in P
  BY <1>0, <1>1, <1>2, SubsetsReached
<1>4. \E m \in S : \A x \in S : m >= x
  BY <1>0, <1>3 DEF P
<1>5. Max(S) \in S /\ \A x \in S : Max(S) >= x
  BY <1>4 DEF Max
<1> QED
  BY <1>0, <1>5

LEMMA PageIs ==
  ASSUME Typed, NEW e \in Lists
  PROVE  /\ Listed(e) \subseteq Item
         /\ PageOf(e) \subseteq {i \in Listed(e) : i > run.page}
         /\ PageOf(e) # {} => Max(PageOf(e)) \in PageOf(e)
         /\ ~LastPage(e) =>
              /\ Policy[e].paged
              /\ PageOf(e) = {Max(PageOf(e))}
              /\ \A i \in Listed(e) : i > run.page => Max(PageOf(e)) <= i
<1> DEFINE rest == {i \in Listed(e) : i > run.page}
<1>1. Listed(e) \subseteq Item
  BY DEF Listed, Typed, AccountTypes
<1>2. rest \in SUBSET Item
  BY <1>1
<1>3. rest # {} => Min(rest) \in rest /\ \A x \in rest : Min(rest) <= x
  BY <1>2, LeastItem
<1>4. PageOf(e) = IF ~Policy[e].paged \/ rest = {} THEN rest ELSE {Min(rest)}
  BY DEF PageOf
<1> HIDE DEF rest
<1>5. PageOf(e) \subseteq rest
  BY <1>3, <1>4
<1>6. PageOf(e) # {} => Max(PageOf(e)) \in PageOf(e)
  BY <1>2, <1>5, GreatestItem
<1>7. ASSUME ~LastPage(e)
      PROVE  /\ Policy[e].paged
             /\ PageOf(e) = {Max(PageOf(e))}
             /\ \A i \in Listed(e) : i > run.page => Max(PageOf(e)) <= i
  <2>1. PageOf(e) # rest
    BY <1>7 DEF LastPage, rest
  <2>2. Policy[e].paged /\ rest # {} /\ PageOf(e) = {Min(rest)}
    BY <1>4, <2>1
  <2>3. Max(PageOf(e)) = Min(rest)
    BY <1>6, <2>2
  <2> QED
    BY <1>3, <2>2, <2>3 DEF rest
<1> QED
  BY <1>1, <1>5, <1>6, <1>7 DEF rest

-----------------------------------------------------------------------------
(* What the steps make of the run                                           *)

LEMMA InEarnTyped == ASSUME Typed PROVE InEarn(earn) \in Nat /\ InEarn(run.allocations) \in Nat
<1>1. IsFiniteSet(Item) /\ earn \in [Item -> Nat] /\ run.allocations \in [Item -> Nat]
  BY AccountAssumptions DEF Typed, AccountTypes, RunType
<1> QED
  BY <1>1, SumNatural DEF InEarn

\* The page as it was read, before it is decided whether another one follows.
PageRead(e) ==
  [run EXCEPT !.ids = run.ids \cup PageOf(e),
              !.page = IF PageOf(e) = {} THEN @ ELSE Max(PageOf(e)),
              !.allocations = IF e = "allocations"
                 THEN [i \in Item |-> IF i \in PageOf(e) THEN earn[i] ELSE @[i]] ELSE @,
              !.differs = @ \/ allocated' # allocated]

LEMMA PageReadIs ==
  ASSUME Typed, NEW e \in Lists, ReadPage(e)
  PROVE  /\ PageRead(e) \in RunType
         /\ PageRead(e).step = run.step
         /\ PageRead(e).ids = run.ids \cup PageOf(e)
         /\ PageRead(e).page = IF PageOf(e) = {} THEN run.page ELSE Max(PageOf(e))
         /\ PageRead(e).warned = run.warned
         /\ PageRead(e).balances = run.balances
         /\ PageRead(e).allocations =
              IF e = "allocations"
                THEN [i \in Item |-> IF i \in PageOf(e) THEN earn[i] ELSE run.allocations[i]]
                ELSE run.allocations
         /\ PageRead(e).changed = run.changed
         /\ PageRead(e).differs = (run.differs \/ allocated' # allocated)
         /\ PageRead(e).half = run.half
         /\ run' = IF LastPage(e) THEN Advance(PageRead(e)) ELSE PageRead(e)
<1>1. PageOf(e) \subseteq Item /\ (PageOf(e) # {} => Max(PageOf(e)) \in Item)
  BY PageIs
<1>2. run \in RunType /\ earn \in [Item -> Nat]
  BY DEF Typed, AccountTypes
<1>3. (run.differs \/ allocated' # allocated) \in BOOLEAN
  OBVIOUS
<1>4. run' = IF LastPage(e) THEN Advance(PageRead(e)) ELSE PageRead(e)
  BY DEF ReadPage, PageRead
<1>5. [i \in Item |-> IF i \in PageOf(e) THEN earn[i] ELSE run.allocations[i]] \in [Item -> Nat]
  BY <1>2 DEF RunType
<1>6. PageRead(e) \in RunType
  BY <1>1, <1>2, <1>3, <1>5 DEF RunType, PageRead
<1> QED
  BY <1>2, <1>4, <1>6 DEF RunType, PageRead

LEMMA EarlyStep ==
  ASSUME Typed, NEW x, At(x), x # "announce"
  PROVE  run.step < FinalStep
<1>1. run.step \in 1 .. FinalStep /\ Steps[run.step] = x
  BY AtIs
<1> QED
  BY <1>1, StepNames, StepsAre

LEMMA ListStep ==
  ASSUME Typed, NEW e \in Lists, At(e)
  PROVE  /\ run.step \in {3} \cup 5 .. FinalStep - 2 /\ run.step < FinalStep
         /\ e = "allocations" <=> run.step = 3
         /\ e \in DOMAIN Policy
         /\ ~At("ledgers") /\ ~At("balances") /\ ~At("strategies") /\ ~At("snapshot") /\ ~At("announce")
<1>1. run.step \in 1 .. FinalStep /\ Steps[run.step] = e
  BY AtIs
<1>2. e \notin {"ledgers", "balances", "strategies", "snapshot", "announce"} /\ e \in DOMAIN Policy
  BY ListsAre
<1>3. run.step \in {3} \cup 5 .. FinalStep - 2 /\ (e = "allocations" <=> run.step = 3)
  BY <1>1, StepNames
<1>4. run.step < FinalStep
  BY <1>3, StepsAre
<1> QED
  BY <1>1, <1>2, <1>3, <1>4 DEF At

\* The run after each kind of step.
LEMMA RunTyped == ASSUME Typed, [AccountNext]_accountVars PROVE run' \in RunType
<1>0. run \in RunType /\ HalfOf(instant) \in Half
  BY HalfIs DEF Typed
<1>1. CASE run' = run
  BY <1>0, <1>1
<1>2. CASE run' = Resting
  BY <1>2, RestingTyped
<1>3. CASE Start
  <2>1. 1 \in 0 .. FinalStep
    BY StepsAre
  <2> QED
    BY <1>3, <2>1, RestingTyped DEF Start, RunType
<1>4. CASE ImportLedgers
  <2>1. Advance(run) \in RunType /\ run' = [Advance(run) EXCEPT !.differs = @ \/ kept # ledger]
    BY <1>0, <1>4, EarlyStep, Advances DEF ImportLedgers
  <2> QED
    BY <2>1 DEF RunType
<1>5. CASE ReadBalances
  <2> DEFINE read == [spot |-> spot, earn |-> IF suffixed THEN InEarn(earn) ELSE 0]
  <2>1. Advance(run) \in RunType /\ run' = [Advance(run) EXCEPT !.balances = read]
    BY <1>0, <1>5, EarlyStep, Advances DEF ReadBalances
  <2>2. read \in Shot
    BY InEarnTyped DEF Typed, AccountTypes, Shot
  <2> HIDE DEF read
  <2> QED
    BY <2>1, <2>2 DEF RunType
<1>6. ASSUME NEW e \in Lists, ReadPage(e) PROVE run' \in RunType
  <2>1. PageRead(e) \in RunType /\ PageRead(e).step < FinalStep
    BY <1>6, PageReadIs, ListStep DEF ReadPage
  <2>2. Advance(PageRead(e)) \in RunType
    BY <2>1, Advances
  <2> QED
    BY <1>6, <2>1, <2>2, PageReadIs
<1>7. ASSUME NEW e \in Lists, PageFails(e) PROVE run' \in RunType
  <2>1. CASE Policy[e].error = "attempt"
    BY <1>2, <1>7, <2>1 DEF PageFails, Ends
  <2>2. CASE Policy[e].error # "attempt"
    <3>1. Advance(run) \in RunType
      BY <1>0, <1>7, ListStep, Advances DEF PageFails
    <3>2. ~LastPage(e) => Max(PageOf(e)) \in Item
      BY PageIs
    <3>3. ~LastPage(e) => [run EXCEPT !.warned = TRUE, !.page = Max(PageOf(e))] \in RunType
      BY <1>0, <3>2 DEF RunType
    <3> QED
      BY <1>7, <2>2, <3>1, <3>3 DEF PageFails
  <2> QED
    BY <2>1, <2>2
<1>8. CASE ReadStrategies
  <2>1. Advance(run) \in RunType /\ run' = [Advance(run) EXCEPT !.differs = @ \/ rates' # rates]
    BY <1>0, <1>8, EarlyStep, Advances DEF ReadStrategies
  <2> QED
    BY <2>1 DEF RunType
<1>9. CASE StrategiesFail
  BY <1>0, <1>9, EarlyStep, Advances DEF StrategiesFail
<1>10. CASE WriteSnapshot
  <2>1. /\ Advance(run) \in RunType
        /\ run' = [Advance(run) EXCEPT !.changed = snapshot' # snapshot, !.half = HalfOf(instant)]
    BY <1>0, <1>10, EarlyStep, Advances DEF WriteSnapshot
  <2> QED
    BY <1>0, <2>1 DEF RunType
<1>11. CASE ProcessEnds \/ LedgersFail \/ Announce
  BY <1>2, <1>11 DEF ProcessEnds, LedgersFail, Ends, Announce
<1>12. CASE \E i \in Item : Allocate(i) \/ Deallocate(i) \/ Reward(i) \/ ListingChanges(i)
  BY <1>1, <1>12 DEF Allocate, Deallocate, Reward, EarnMoves, ListingChanges, Moves
<1>13. CASE (\E amount \in {-1, 1} : SpotMoves(amount)) \/ InstantPasses \/ ApplyRetention
  BY <1>1, <1>13 DEF SpotMoves, Moves, InstantPasses, ApplyRetention
<1>14. CASE UNCHANGED accountVars
  BY <1>1, <1>14 DEF accountVars
<1> QED
  BY <1>3, <1>4, <1>5, <1>6, <1>7, <1>8, <1>9, <1>10, <1>11, <1>12, <1>13, <1>14, Zenon
     DEF AccountNext

LEMMA MovesTyped ==
  ASSUME Typed, AccountNext,
         \/ \E i \in Item : Allocate(i) \/ Deallocate(i) \/ Reward(i) \/ ListingChanges(i)
         \/ \E amount \in {-1, 1} : SpotMoves(amount)
  PROVE  Typed'
<1> USE AccountAssumptions
<1>0. run' \in RunType
  BY RunTyped
<1>1. UNCHANGED <<instant, stored, told, run, spoilt, suffixed, failures>> /\ moves' \in 0 .. MaxMoves
      /\ moved' \in BOOLEAN
  <2>1. Moves
    BY DEF Allocate, Deallocate, Reward, EarnMoves, ListingChanges, SpotMoves
  <2> QED
    BY <2>1 DEF Moves, Typed, AccountTypes
<1>2. StoredTypes'
  BY <1>1 DEF Typed, StoredTypes, stored
<1>a. \A ids \in SUBSET Item : Churned(ids) \in SUBSET Item
  BY DEF Churned, Typed, MarkTypes
<1>3. ASSUME NEW i \in Item, NEW amount \in {-1, 1}, NEW from \in {-1, 0, 1}, EarnMoves(i, amount, from)
      PROVE  Typed'
  <2>1. earn' \in [Item -> Nat] /\ spot' \in Nat /\ UNCHANGED listed
    BY <1>3 DEF EarnMoves, Typed, AccountTypes
  <2>2. ledger' \in [Instant -> Int]
    BY <1>3 DEF EarnMoves, Typed, AccountTypes
  <2>3. AccountTypes'
    BY <1>1, <2>1, <2>2 DEF Typed, AccountTypes
  <2>4. churned' \subseteq Item
    BY <1>3, <1>a DEF EarnMoves
  <2>5. blurred' \subseteq Half
    BY <1>3, HalfIs DEF EarnMoves, Typed, MarkTypes
  <2> QED
    BY <1>0, <1>1, <1>2, <2>3, <2>4, <2>5 DEF Typed, MarkTypes
<1>4. ASSUME NEW i \in Item, ListingChanges(i) PROVE Typed'
  <2>1. UNCHANGED <<spot, earn, ledger, blurred>> /\ listed' \subseteq Item
    BY <1>4 DEF ListingChanges, Typed, AccountTypes
  <2>2. churned' \subseteq Item
    BY <1>4, <1>a DEF ListingChanges
  <2> QED
    BY <1>0, <1>1, <1>2, <2>1, <2>2 DEF Typed, AccountTypes, MarkTypes
<1>5. ASSUME NEW amount \in {-1, 1}, SpotMoves(amount) PROVE Typed'
  <2>1. UNCHANGED <<earn, listed, ledger, blurred, churned>> /\ spot' \in Nat
    BY <1>5 DEF SpotMoves, Typed, AccountTypes
  <2> QED
    BY <1>0, <1>1, <1>2, <2>1 DEF Typed, AccountTypes, MarkTypes
<1> QED
  BY <1>3, <1>4, <1>5 DEF Allocate, Deallocate, Reward

LEMMA EndsTyped ==
  ASSUME Typed, Ends
  PROVE  UNCHANGED <<instant, account, moves>> /\ (told' \in BOOLEAN => MarkTypes')
<1>1. UNCHANGED <<instant, account, moves, blurred>> /\ failures' \in 0 .. MaxFailures
      /\ moved' = FALSE /\ churned' = {}
  BY AccountAssumptions DEF Ends, Typed, MarkTypes
<1>2. spoilt' \subseteq Half
  BY HalfIs DEF Ends, Typed, MarkTypes
<1> QED
  BY <1>1, <1>2 DEF MarkTypes, Typed

LEMMA AccountTyped == Typed /\ [AccountNext]_accountVars => Typed'
<1> SUFFICES ASSUME Typed, [AccountNext]_accountVars PROVE Typed'
  OBVIOUS
<1>0. run' \in RunType
  BY RunTyped
<1>a. UNCHANGED <<instant, account, moves>> => AccountTypes'
  BY DEF account, Typed, AccountTypes
<1>b. UNCHANGED stored => StoredTypes'
  BY DEF stored, Typed, StoredTypes
<1>c. UNCHANGED <<told, past, failures>> => MarkTypes'
  BY DEF past, Typed, MarkTypes
<1>1. CASE \/ \E i \in Item : Allocate(i) \/ Deallocate(i) \/ Reward(i) \/ ListingChanges(i)
           \/ \E amount \in {-1, 1} : SpotMoves(amount)
  <2>1. AccountNext
    BY <1>1, Zenon DEF AccountNext
  <2> QED
    BY <1>1, <2>1, MovesTyped
<1>2. CASE InstantPasses
  <2>1. instant' \in Instant /\ UNCHANGED <<account, stored, told, past, bounds>>
    BY <1>2, AccountAssumptions DEF InstantPasses, Typed, AccountTypes, Instant
  <2>2. AccountTypes'
    BY <2>1 DEF account, bounds, Typed, AccountTypes
  <2> QED
    BY <1>0, <1>b, <1>c, <2>1, <2>2 DEF Typed, bounds
<1>3. CASE Start \/ ReadBalances
  BY <1>0, <1>3, <1>a, <1>b, <1>c DEF Start, ReadBalances, Typed, bounds
<1>4. CASE ProcessEnds
  BY <1>0, <1>4, <1>a, <1>b, EndsTyped DEF ProcessEnds, Typed, MarkTypes
<1>5. CASE ImportLedgers
  <2>1. /\ UNCHANGED <<instant, account, moves, allocated, rates, seen, snapshot>>
        /\ UNCHANGED <<moved, blurred, churned, spoilt, failures>>
        /\ kept' = ledger /\ complete' = TRUE /\ told' \in BOOLEAN
    BY <1>5 DEF ImportLedgers, bounds
  <2>2. StoredTypes' /\ MarkTypes'
    BY <2>1 DEF Typed, StoredTypes, MarkTypes, AccountTypes
  <2> QED
    BY <1>0, <1>a, <2>1, <2>2 DEF Typed
<1>6. CASE LedgersFail
  <2>1. /\ UNCHANGED <<allocated, rates, seen, snapshot>> /\ Ends
        /\ complete' = FALSE /\ told' \in BOOLEAN
    BY <1>6 DEF LedgersFail
  <2>2. kept' \in [Instant -> Int]
    BY <1>6 DEF LedgersFail, Typed, AccountTypes, StoredTypes
  <2>3. StoredTypes'
    BY <2>1, <2>2 DEF Typed, StoredTypes
  <2> QED
    BY <1>0, <1>a, <2>1, <2>3, EndsTyped DEF Typed
<1>7. ASSUME NEW e \in Lists, ReadPage(e) PROVE Typed'
  <2>1. /\ UNCHANGED <<instant, account, moves, kept, complete, rates, snapshot>>
        /\ UNCHANGED <<moved, blurred, spoilt, failures>> /\ told' \in BOOLEAN
        /\ churned' \subseteq churned
    BY <1>7 DEF ReadPage, bounds
  <2>2. seen' \in [Lists -> [Item -> [present : BOOLEAN, at : Instant \cup {Never}]]]
    <3>1. Recorded(e, PageOf(e), run.ids \cup PageOf(e), Marks(e))
            \in [Item -> [present : BOOLEAN, at : Instant \cup {Never}]]
      BY DEF Recorded, Typed, AccountTypes, StoredTypes
    <3> QED
      BY <1>7, <3>1 DEF ReadPage, Typed, StoredTypes
  <2>3. allocated' \in [Item -> Nat]
    BY <1>7 DEF ReadPage, Typed, AccountTypes, StoredTypes
  <2>4. StoredTypes' /\ MarkTypes'
    BY <2>1, <2>2, <2>3 DEF Typed, StoredTypes, MarkTypes
  <2> QED
    BY <1>0, <1>a, <2>1, <2>4 DEF Typed
<1>8. ASSUME NEW e \in Lists, PageFails(e) PROVE Typed'
  <2>1. CASE Policy[e].error = "attempt"
    <3>1. Ends /\ UNCHANGED <<stored, told>>
      BY <1>8, <2>1 DEF PageFails
    <3> QED
      BY <1>0, <1>a, <1>b, <3>1, EndsTyped DEF Typed, MarkTypes
  <2>2. CASE Policy[e].error # "attempt"
    <3>1. /\ UNCHANGED <<instant, account, moves, stored, told, moved, blurred, spoilt>>
          /\ failures' \in 0 .. MaxFailures /\ churned' \subseteq churned
      BY <1>8, <2>2, AccountAssumptions DEF PageFails, Typed, MarkTypes
    <3>2. MarkTypes'
      BY <3>1 DEF Typed, MarkTypes
    <3> QED
      BY <1>0, <1>a, <1>b, <3>1, <3>2 DEF Typed
  <2> QED
    BY <2>1, <2>2
<1>9. CASE ReadStrategies
  <2>1. /\ UNCHANGED <<instant, account, moves, kept, complete, allocated, seen, snapshot>>
        /\ UNCHANGED <<past, failures>> /\ told' \in BOOLEAN
    BY <1>9 DEF ReadStrategies, bounds
  <2>2. rates' \subseteq Half
    BY <1>9, HalfIs DEF ReadStrategies, Typed, StoredTypes
  <2>3. StoredTypes' /\ MarkTypes'
    BY <2>1, <2>2 DEF Typed, StoredTypes, MarkTypes, past
  <2> QED
    BY <1>0, <1>a, <2>1, <2>3 DEF Typed
<1>10. CASE StrategiesFail
  <2>1. UNCHANGED <<instant, account, stored, told, past, moves>> /\ failures' \in 0 .. MaxFailures
    BY <1>10, AccountAssumptions DEF StrategiesFail, Typed, MarkTypes
  <2>2. MarkTypes'
    BY <2>1 DEF Typed, MarkTypes, past
  <2> QED
    BY <1>0, <1>a, <1>b, <2>1, <2>2 DEF Typed
<1>11. CASE WriteSnapshot
  <2> DEFINE value == WithEarn(run.balances, run.allocations)
  <2>1. /\ UNCHANGED <<instant, account, moves, kept, complete, allocated, rates, seen>>
        /\ UNCHANGED <<moved, churned, spoilt, failures>> /\ told' \in BOOLEAN
        /\ snapshot' = [snapshot EXCEPT ![HalfOf(instant)] = value]
    BY <1>11 DEF WriteSnapshot, bounds
  <2>2. value \in Shot
    <3>1. run.balances \in Shot /\ InEarn(run.allocations) \in Nat
      BY InEarnTyped DEF Typed, RunType
    <3> DEFINE more == InEarn(run.allocations) - run.balances.earn
    <3>2. more \in Int
      BY <3>1 DEF Shot, Unknown
    <3>3. Max({0, more}) \in {0, more} /\ Max({0, more}) >= 0
      <4>1. \E m \in {0, more} : \A x \in {0, more} : m >= x
        BY <3>2
      <4> QED
        BY <4>1 DEF Max
    <3>4. run.balances.earn + Max({0, more}) \in Nat \cup {Unknown}
      BY <3>1, <3>2, <3>3 DEF Shot, Unknown
    <3> HIDE DEF more
    <3>5. value = [run.balances EXCEPT !.earn = run.balances.earn + Max({0, more})]
      BY DEF WithEarn, more
    <3> QED
      BY <3>1, <3>4, <3>5 DEF Shot
  <2>3. snapshot' \in [Half -> Shot]
    BY <2>1, <2>2 DEF Typed, StoredTypes
  <2>4. blurred' \subseteq Half
    BY <1>11, HalfIs DEF WriteSnapshot, Typed, MarkTypes
  <2>5. StoredTypes' /\ MarkTypes'
    BY <2>1, <2>3, <2>4 DEF Typed, StoredTypes, MarkTypes
  <2> QED
    BY <1>0, <1>a, <2>1, <2>5 DEF Typed
<1>12. CASE Announce
  <2>1. /\ UNCHANGED <<instant, account, moves, stored, blurred, churned, spoilt, failures>>
        /\ told' \in BOOLEAN /\ moved' = FALSE
    BY <1>12 DEF Announce, bounds
  <2> QED
    BY <1>0, <1>a, <1>b, <2>1 DEF Typed, MarkTypes
<1>13. CASE ApplyRetention
  <2>1. /\ UNCHANGED <<instant, account, moves, kept, complete, allocated, rates>>
        /\ UNCHANGED <<told, moved, blurred, spoilt, failures>>
    BY <1>13 DEF ApplyRetention, bounds
  <2>2. seen' \in [Lists -> [Item -> [present : BOOLEAN, at : Instant \cup {Never}]]]
    BY <1>13 DEF ApplyRetention, Typed, StoredTypes, Absent
  <2>3. snapshot' \in [Half -> Shot]
    BY <1>13 DEF ApplyRetention, Typed, StoredTypes, NoSnapshot, Shot
  <2>4. churned' \subseteq Item
    BY <1>13 DEF ApplyRetention, Churned, Typed, MarkTypes
  <2>5. StoredTypes' /\ MarkTypes'
    BY <2>1, <2>2, <2>3, <2>4 DEF Typed, StoredTypes, MarkTypes
  <2> QED
    BY <1>0, <1>a, <2>1, <2>5 DEF Typed
<1>14. CASE UNCHANGED accountVars
  BY <1>0, <1>14, <1>a, <1>b, <1>c DEF accountVars, Typed, bounds
<1> QED
  BY <1>1, <1>2, <1>3, <1>4, <1>5, <1>6, <1>7, <1>8, <1>9, <1>10, <1>11, <1>12, <1>13, <1>14, Zenon
     DEF AccountNext

-----------------------------------------------------------------------------
(* The walk over an endpoint                                                *)

\* What is listed up to the page the walk has reached was on one of its pages,
\* and what was on one is listed and present.
PagesInv(e) ==
  \A i \in Item \ churned :
    /\ (i \in Listed(e) /\ i <= run.page /\ ~run.warned) => i \in run.ids
    /\ i \in run.ids => i \in Listed(e) /\ seen[e][i].present

ListingInv ==
  /\ run.page = 0 => run.ids = {}
  /\ \A e \in Lists : At(e) => PagesInv(e)

LEMMA ListingMoves ==
  ASSUME Typed, ListingInv, UNCHANGED <<run, seen>>,
         \A e \in Lists, i \in Item \ churned' : i \in Listed(e)' <=> i \in Listed(e),
         churned \subseteq churned'
  PROVE  ListingInv'
BY DEF ListingInv, PagesInv, At

\* What is present has been seen at some instant.
SeenInv == \A e \in Lists, i \in Item : seen[e][i].present => seen[e][i].at # Never

LEMMA SeenStep == Typed /\ SeenInv /\ [AccountNext]_accountVars => SeenInv'
<1> SUFFICES ASSUME Typed, SeenInv, [AccountNext]_accountVars PROVE SeenInv'
  OBVIOUS
<1>1. CASE UNCHANGED seen
  BY <1>1 DEF SeenInv
<1>2. ASSUME NEW e \in Lists, ReadPage(e) PROVE SeenInv'
  <2> DEFINE new == Recorded(e, PageOf(e), run.ids \cup PageOf(e), Marks(e))
  <2>1. seen' = [seen EXCEPT ![e] = new]
    BY <1>2 DEF ReadPage
  <2>2. instant # Never
    BY AccountAssumptions DEF Typed, AccountTypes, Instant, Never
  <2>3. \A i \in Item : new[i].present => new[i].at # Never
    BY <2>2 DEF Recorded, SeenInv
  <2> HIDE DEF new
  <2> QED
    BY <2>1, <2>3 DEF SeenInv, Typed, StoredTypes
<1>3. CASE ApplyRetention
  BY <1>3 DEF ApplyRetention, SeenInv, Absent
<1>4. CASE \E e \in Lists : PageFails(e)
  BY <1>1, <1>4 DEF PageFails, Ends, stored
<1>5. CASE \/ Start \/ ProcessEnds \/ LedgersFail \/ Announce \/ ImportLedgers
           \/ ReadBalances \/ ReadStrategies \/ StrategiesFail \/ WriteSnapshot \/ InstantPasses
  BY <1>1, <1>5 DEF Start, ProcessEnds, LedgersFail, Announce, ImportLedgers, ReadBalances,
                    ReadStrategies, StrategiesFail, WriteSnapshot, InstantPasses, stored
<1>6. CASE \/ \E i \in Item : Allocate(i) \/ Deallocate(i) \/ Reward(i) \/ ListingChanges(i)
           \/ \E amount \in {-1, 1} : SpotMoves(amount)
  BY <1>1, <1>6 DEF Allocate, Deallocate, Reward, EarnMoves, ListingChanges, SpotMoves, Moves, stored
<1>7. CASE UNCHANGED accountVars
  BY <1>1, <1>7 DEF accountVars, stored
<1> QED
  BY <1>2, <1>3, <1>4, <1>5, <1>6, <1>7, Zenon DEF AccountNext

LEMMA ListingStep == Typed /\ SeenInv /\ ListingInv /\ [AccountNext]_accountVars => ListingInv'
<1> SUFFICES ASSUME Typed, SeenInv, ListingInv, [AccountNext]_accountVars PROVE ListingInv'
  OBVIOUS
<1>0. Typed'
  BY AccountTyped
<1>a. ASSUME run'.page = 0, run'.ids = {} PROVE ListingInv'
  <2>1. ASSUME NEW i \in Item PROVE ~(i <= run'.page)
    BY <1>a, AccountAssumptions
  <2> QED
    BY <1>a, <2>1 DEF ListingInv, PagesInv
<1>b. Resting.page = 0 /\ Resting.ids = {}
  BY DEF Resting
<1>1. ASSUME NEW i \in Item, NEW amount \in {-1, 1}, NEW from \in {-1, 0, 1}, EarnMoves(i, amount, from)
      PROVE  ListingInv'
  <2>1. /\ UNCHANGED <<run, seen, listed>>
        /\ earn' = [earn EXCEPT ![i] = @ + amount]
        /\ churned' = Churned(IF (earn[i] > 0) = (earn'[i] > 0) THEN {} ELSE {i})
    BY <1>1 DEF EarnMoves, Moves, stored
  <2>2. CASE run.page = 0
    BY <1>a, <2>1, <2>2 DEF ListingInv
  <2>3. CASE run.page # 0
    <3>1. churned' = churned \cup (IF (earn[i] > 0) = (earn'[i] > 0) THEN {} ELSE {i})
      BY <2>1, <2>3 DEF Churned
    <3>2. ASSUME NEW j \in Item \ churned' PROVE (earn'[j] > 0) <=> (earn[j] > 0)
      <4>1. CASE j = i
        BY <3>1, <4>1
      <4>2. CASE j # i
        BY <2>1, <4>2 DEF Typed, AccountTypes
      <4> QED
        BY <4>1, <4>2
    <3> QED
      BY <2>1, <3>1, <3>2, ListingMoves DEF Listed
  <2> QED
    BY <2>2, <2>3
<1>2. ASSUME NEW i \in Item, ListingChanges(i) PROVE ListingInv'
  <2>1. /\ UNCHANGED <<run, seen, earn>>
        /\ listed' = IF i \in listed THEN listed \ {i} ELSE listed \cup {i}
        /\ churned' = Churned({i})
    BY <1>2 DEF ListingChanges, Moves, stored
  <2>2. CASE run.page = 0
    BY <1>a, <2>1, <2>2 DEF ListingInv
  <2>3. CASE run.page # 0
    <3>1. churned' = churned \cup {i}
      BY <2>1, <2>3 DEF Churned
    <3> QED
      BY <2>1, <3>1, ListingMoves DEF Listed
  <2> QED
    BY <2>2, <2>3
<1>3. CASE \/ \E amount \in {-1, 1} : SpotMoves(amount)
           \/ InstantPasses
           \/ UNCHANGED accountVars
  <2>1. UNCHANGED <<run, seen, earn, listed, churned>>
    BY <1>3 DEF SpotMoves, Moves, InstantPasses, accountVars, account, stored, past
  <2> QED
    BY <2>1, ListingMoves DEF Listed
<1>4. CASE Start \/ ProcessEnds \/ LedgersFail \/ Announce
  <2>1. run'.page = 0 /\ run'.ids = {}
    BY <1>4, <1>b DEF Start, ProcessEnds, LedgersFail, Announce, Ends, Resting
  <2> QED
    BY <1>a, <2>1
<1>5. CASE ImportLedgers \/ ReadBalances \/ ReadStrategies \/ StrategiesFail \/ WriteSnapshot
  <2>1. Advance(run) \in RunType /\ Advance(run).page = 0 /\ Advance(run).ids = {}
    BY <1>5, EarlyStep, Advances
       DEF Typed, ImportLedgers, ReadBalances, ReadStrategies, StrategiesFail, WriteSnapshot
  <2>2. run'.page = 0 /\ run'.ids = {}
    BY <1>5, <2>1
       DEF ImportLedgers, ReadBalances, ReadStrategies, StrategiesFail, WriteSnapshot, RunType
  <2> QED
    BY <1>a, <2>2
<1>6. ASSUME NEW e \in Lists, ReadPage(e) PROVE ListingInv'
  <2>1. PageRead(e) \in RunType /\ PageRead(e).step < FinalStep /\ At(e)
    BY <1>6, PageReadIs, ListStep DEF ReadPage
  <2>2. CASE LastPage(e)
    <3>1. run' = Advance(PageRead(e))
      BY <1>6, <2>2, PageReadIs
    <3> QED
      BY <1>a, <2>1, <3>1, Advances
  <2>3. CASE ~LastPage(e)
    <3> DEFINE page == PageOf(e)
    <3>1. /\ run'.step = run.step /\ run'.ids = run.ids \cup page /\ run'.warned = run.warned
          /\ run'.page = Max(page) /\ page = {Max(page)} /\ Max(page) \in Item /\ Max(page) \in Listed(e)
          /\ Max(page) > run.page
          /\ \A i \in Listed(e) : i > run.page => Max(page) <= i
      BY <1>6, <2>3, PageReadIs, PageIs
    <3>2. /\ UNCHANGED <<earn, listed, churned>>
          /\ seen' = [seen EXCEPT ![e] = Recorded(e, page, run.ids \cup page, Marks(e))]
      BY <1>6, <2>3 DEF ReadPage, account
    <3>3. \A i \in Item : i \in Nat
      BY AccountAssumptions
    <3>4. run'.page # 0
      BY <3>1, <3>3, AccountAssumptions
    <3>5. ~Marks(e)
      BY <2>3 DEF Marks
    <3>6. ASSUME NEW i \in Item PROVE seen'[e][i] = IF i \in page THEN [present |-> TRUE, at |-> instant]
                                                    ELSE seen[e][i]
      BY <3>2, <3>5 DEF Recorded, Typed, StoredTypes
    <3>7. PagesInv(e)
      BY <2>1 DEF ListingInv
    <3>8. ASSUME NEW i \in Item \ churned'
          PROVE  /\ (i \in Listed(e) /\ i <= run'.page /\ ~run'.warned) => i \in run'.ids
                 /\ i \in run'.ids => i \in Listed(e) /\ seen'[e][i].present
      <4>1. i \in Item /\ i \notin churned /\ i \in Nat /\ Max(page) \in Nat /\ run.page \in Nat
        BY <3>1, <3>2, <3>3 DEF Typed, RunType
      <4>2. ASSUME i \in Listed(e), i <= run'.page, ~run'.warned PROVE i \in run'.ids
        <5>1. CASE i <= run.page
          BY <3>1, <3>7, <4>1, <4>2, <5>1 DEF PagesInv
        <5>2. CASE i > run.page
          <6>1. i = Max(page)
            BY <3>1, <4>1, <4>2, <5>2
          <6> QED
            BY <3>1, <6>1
        <5> QED
          BY <4>1, <5>1, <5>2
      <4>3. ASSUME i \in run'.ids PROVE i \in Listed(e) /\ seen'[e][i].present
        <5>1. CASE i \in page
          BY <3>1, <3>6, <4>1, <5>1
        <5>2. CASE i \notin page
          BY <3>1, <3>6, <3>7, <4>1, <4>3, <5>2 DEF PagesInv
        <5> QED
          BY <5>1, <5>2
      <4> QED
        BY <4>2, <4>3
    <3>9. ASSUME NEW f \in Lists, At(f)' PROVE f = e
      BY <2>1, <3>1, <3>9 DEF At
    <3>10. Listed(e)' = Listed(e)
      BY <3>2 DEF Listed
    <3>11. PagesInv(e)'
      BY <3>8, <3>10 DEF PagesInv
    <3> QED
      BY <3>4, <3>9, <3>11 DEF ListingInv
  <2> QED
    BY <2>2, <2>3
<1>7. ASSUME NEW e \in Lists, PageFails(e) PROVE ListingInv'
  <2>1. CASE Policy[e].error = "attempt"
    BY <1>7, <1>a, <1>b, <2>1 DEF PageFails, Ends
  <2>2. CASE Policy[e].error # "attempt" /\ (Policy[e].error = "endpoint" \/ LastPage(e))
    <3>1. run' = Advance(run)
      BY <1>7, <2>2 DEF PageFails
    <3>2. run.step < FinalStep
      BY <1>7, ListStep DEF PageFails
    <3> QED
      BY <1>a, <3>1, <3>2, Advances DEF Typed
  <2>3. CASE Policy[e].error # "attempt" /\ Policy[e].error # "endpoint" /\ ~LastPage(e)
    <3>1. run' = [run EXCEPT !.warned = TRUE, !.page = Max(PageOf(e))]
      BY <1>7, <2>3 DEF PageFails
    <3>2. /\ run'.step = run.step /\ run'.ids = run.ids /\ run'.warned = TRUE
          /\ run'.page = Max(PageOf(e)) /\ Max(PageOf(e)) \in Item
      BY <2>3, <3>1, PageIs DEF Typed, RunType
    <3>3. UNCHANGED <<earn, listed, seen, churned>> /\ At(e)
      BY <1>7, <2>3, <3>2 DEF PageFails, account, stored
    <3>4. run'.page # 0
      BY <3>2, AccountAssumptions
    <3>5. \A f \in Lists : At(f)' => At(f)
      BY <3>2 DEF At
    <3>6. \A f \in Lists : Listed(f)' = Listed(f)
      BY <3>3 DEF Listed
    <3> QED
      BY <3>2, <3>3, <3>4, <3>5, <3>6 DEF ListingInv, PagesInv
  <2> QED
    BY <2>1, <2>2, <2>3
<1>8. CASE ApplyRetention
  <2>1. /\ UNCHANGED <<run, earn, listed>>
        /\ churned' = Churned({i \in Item : \E e \in Lists : seen[e][i].at \in 0 .. Cutoff - 1})
        /\ seen' = [e \in Lists |-> [i \in Item |->
                      IF seen[e][i].at < Cutoff THEN Absent ELSE seen[e][i]]]
    BY <1>8 DEF ApplyRetention, account
  <2>2. CASE run.page = 0
    BY <1>a, <2>1, <2>2 DEF ListingInv
  <2>3. CASE run.page # 0
    <3>1. churned' = churned \cup {i \in Item : \E e \in Lists : seen[e][i].at \in 0 .. Cutoff - 1}
      BY <2>1, <2>3 DEF Churned
    <3>2. ASSUME NEW e \in Lists, NEW i \in Item \ churned', seen[e][i].present
          PROVE  seen'[e][i].present
      <4>1. ~(seen[e][i].at \in 0 .. Cutoff - 1)
        BY <3>1
      <4>2. CASE seen[e][i].at < Cutoff
        <5>1. seen[e][i].at \in Instant \cup {Never} /\ seen[e][i].at # Never
          BY <3>2 DEF SeenInv, Typed, StoredTypes
        <5>2. Cutoff \in Int
          BY AccountAssumptions DEF Cutoff, Typed, AccountTypes, Instant
        <5> QED
          BY <4>1, <4>2, <5>1, <5>2, AccountAssumptions DEF Instant
      <4>3. CASE ~(seen[e][i].at < Cutoff)
        BY <2>1, <3>2, <4>3
      <4> QED
        BY <4>2, <4>3
    <3>3. \A e \in Lists : Listed(e)' = Listed(e)
      BY <2>1 DEF Listed
    <3>4. churned \subseteq churned'
      BY <3>1
    <3> QED
      BY <2>1, <3>2, <3>3, <3>4 DEF ListingInv, PagesInv, At
  <2> QED
    BY <2>2, <2>3
<1> QED
  BY <1>1, <1>2, <1>3, <1>4, <1>5, <1>6, <1>7, <1>8, Zenon
     DEF AccountNext, Allocate, Deallocate, Reward

LEMMA ListingIsKept ==
  ASSUME Typed, SeenInv, ListingInv, AccountNext, NEW e \in Lists, At(e),
         run' # run, failures' = failures,
         NEW i \in Item \ churned
  PROVE  LET ends == run'.step = run.step + 1 /\ ~run.warned
             present == seen'[e][i].present
         IN /\ (i \in Listed(e) /\ (ends \/ seen[e][i].present)) => present
            /\ (i \notin Listed(e) /\ ends /\ Policy[e].marks) => ~present
<1> DEFINE page == PageOf(e)
           ids == run.ids \cup page
<1>1. run.step # 0 /\ Steps[run.step] = e
  BY DEF At
<1>2. ReadPage(e)
  <2>1. failures \in Int
    BY AccountAssumptions DEF Typed, MarkTypes
  <2>2. ~Ends /\ ~StrategiesFail
    BY <2>1 DEF Ends, StrategiesFail
  <2>3. ASSUME NEW f \in Lists, ReadPage(f) \/ PageFails(f) PROVE ReadPage(e)
    <3>1. f = e
      BY <1>1, <2>3 DEF ReadPage, PageFails, At
    <3>2. ~PageFails(f)
      BY <2>1, <2>2 DEF PageFails
    <3> QED
      BY <2>3, <3>1, <3>2
  <2>4. ~Start /\ ~Announce /\ ~ImportLedgers /\ ~ReadBalances /\ ~ReadStrategies /\ ~WriteSnapshot
    BY <1>1, ListStep DEF Start, Announce, ImportLedgers, ReadBalances, ReadStrategies, WriteSnapshot
  <2>5. ~ProcessEnds /\ ~LedgersFail
    BY <2>2 DEF ProcessEnds, LedgersFail
  <2>6. ~InstantPasses /\ ~ApplyRetention
    BY DEF InstantPasses, ApplyRetention
  <2>7. ~Moves
    BY DEF Moves
  <2>8. ~(\E j \in Item : Allocate(j) \/ Deallocate(j) \/ Reward(j) \/ ListingChanges(j))
    BY <2>7 DEF Allocate, Deallocate, Reward, EarnMoves, ListingChanges
  <2>9. ~(\E amount \in {-1, 1} : SpotMoves(amount))
    BY <2>7 DEF SpotMoves
  <2> QED
    BY <2>2, <2>3, <2>4, <2>5, <2>6, <2>8, <2>9, Zenon DEF AccountNext
<1>3. seen' = [seen EXCEPT ![e] = Recorded(e, page, ids, Marks(e))]
  BY <1>2 DEF ReadPage
<1>4. seen'[e][i] =
        IF i \in page THEN [present |-> TRUE, at |-> instant]
        ELSE IF Marks(e) /\ i \notin ids /\ seen[e][i].present THEN [present |-> FALSE, at |-> instant]
        ELSE seen[e][i]
  BY <1>3 DEF Recorded, Typed, StoredTypes
<1>5. PagesInv(e)
  BY DEF ListingInv
<1>6. page \subseteq Listed(e)
  BY PageIs
<1>7. LastPage(e) /\ i \in Listed(e) /\ i \notin page => i <= run.page
  <2>1. i \in Nat /\ run.page \in Nat
    BY AccountAssumptions DEF Typed, RunType
  <2> QED
    BY <2>1 DEF LastPage
<1>8. run'.step = run.step + 1 => LastPage(e)
  <2> SUFFICES ASSUME ~LastPage(e) PROVE run'.step # run.step + 1
    OBVIOUS
  <2>1. run'.step = run.step
    BY <1>2, PageReadIs
  <2>2. run.step \in Int
    BY AtIs, <1>1
  <2> QED
    BY <2>1, <2>2
<1>9. Marks(e) <=> LastPage(e) /\ Policy[e].marks /\ ~run.warned
  BY DEF Marks
<1>10. ASSUME i \in Listed(e), (run'.step = run.step + 1 /\ ~run.warned) \/ seen[e][i].present
       PROVE  seen'[e][i].present
  <2>1. CASE i \in page
    BY <1>4, <2>1
  <2>2. CASE i \notin page /\ Marks(e)
    <3>1. i \in ids
      BY <1>5, <1>7, <1>9, <1>10, <2>2 DEF PagesInv
    <3>2. seen[e][i].present
      BY <1>5, <2>2, <3>1 DEF PagesInv
    <3> QED
      BY <1>4, <2>2, <3>1, <3>2
  <2>3. CASE i \notin page /\ ~Marks(e)
    <3>1. seen'[e][i] = seen[e][i]
      BY <1>4, <2>3
    <3>2. seen[e][i].present
      BY <1>5, <1>7, <1>8, <1>10, <2>3 DEF PagesInv
    <3> QED
      BY <3>1, <3>2
  <2> QED
    BY <2>1, <2>2, <2>3
<1>11. ASSUME i \notin Listed(e), run'.step = run.step + 1, ~run.warned, Policy[e].marks
       PROVE  ~seen'[e][i].present
  <2>1. Marks(e) /\ i \notin page /\ i \notin run.ids
    BY <1>5, <1>6, <1>8, <1>9, <1>11 DEF PagesInv
  <2> QED
    BY <1>4, <2>1
<1> QED
  BY <1>10, <1>11

-----------------------------------------------------------------------------
(* What the graphs are told                                                 *)

Written(h) == snapshot[h] # NoSnapshot

\* What is stored and not told will be told by this run, or by another one of
\* a half hour without a snapshot yet, or an attempt of this half hour failed.
TellInv ==
  /\ \A h \in Half : Written(h) => h <= HalfOf(instant)
  /\ run.step > 2 => run.balances.spot # Unknown
  /\ run.step = 0 => ~run.differs
  /\ run.step = FinalStep =>
       /\ run.half <= HalfOf(instant)
       /\ \A h \in Half : Written(h) => h <= run.half
       /\ ~told => run.differs \/ run.changed \/ run.half \in spoilt
  /\ run.step # FinalStep =>
       /\ ~run.changed
       /\ ~told => \/ run.differs \/ HalfOf(instant) \in spoilt
                   \/ ~Written(HalfOf(instant))

LEMMA TellStep == Typed /\ TellInv /\ [AccountNext]_accountVars => TellInv'
<1> SUFFICES ASSUME Typed, TellInv, [AccountNext]_accountVars PROVE TellInv'
  OBVIOUS
<1>0. Typed'
  BY AccountTyped
<1>h. /\ HalfOf(instant) \in Half /\ HalfOf(instant) \in Nat /\ Half \subseteq Nat
      /\ instant \in Nat /\ FinalStep \in Nat /\ FinalStep >= 6
  <2>1. instant \in Nat
    BY AccountAssumptions DEF Typed, AccountTypes, Instant
  <2>2. Half \subseteq Nat
    BY DEF Half
  <2> QED
    BY <2>1, <2>2, HalfIs, StepsAre
<1>r. run.step \in 0 .. FinalStep
  BY DEF Typed, RunType
<1>1. CASE UNCHANGED <<instant, snapshot, told, spoilt, run>>
  <2>1. HalfOf(instant)' = HalfOf(instant) /\ \A h : Written(h)' = Written(h)
    BY <1>1 DEF HalfOf, Written
  <2>2. run' = run /\ told' = told /\ spoilt' = spoilt
    BY <1>1
  <2> QED
    BY <2>1, <2>2 DEF TellInv
<1>2. CASE InstantPasses
  <2>1. instant' = instant + 1 /\ UNCHANGED <<snapshot, told, spoilt, run>>
    BY <1>2 DEF InstantPasses, stored, past
  <2>2. HalfOf(instant) <= HalfOf(instant') /\ HalfOf(instant') \in Nat
    BY <1>h, <2>1, Halves
  <2>3. \A h \in Half : h <= HalfOf(instant) => h <= HalfOf(instant')
    BY <1>h, <2>2
  <2>4. HalfOf(instant') = HalfOf(instant) \/ HalfOf(instant') > HalfOf(instant)
    BY <1>h, <2>2
  <2>5. HalfOf(instant') \in Half
    <3>1. instant' \in Nat /\ MaxInstant \in Nat /\ instant' <= MaxInstant
      BY <1>h, <1>2, AccountAssumptions DEF InstantPasses
    <3>2. HalfOf(instant') <= HalfOf(MaxInstant) /\ HalfOf(MaxInstant) \in Nat
      BY <3>1, Halves
    <3>3. Half = 0 .. HalfOf(MaxInstant)
      BY DEF Half, HalfOf
    <3> QED
      BY <2>2, <3>2, <3>3
  <2>6. HalfOf(instant') > HalfOf(instant) => ~Written(HalfOf(instant'))
    BY <1>h, <2>2, <2>5 DEF TellInv
  <2>7. run.half \in Half
    BY DEF Typed, RunType
  <2>8. \A h : Written(h)' = Written(h)
    BY <2>1 DEF Written
  <2>9. HalfOf(instant)' = HalfOf(instant')
    BY DEF HalfOf
  <2> QED
    BY <2>1, <2>3, <2>4, <2>6, <2>7, <2>8, <2>9 DEF TellInv
<1>a. ASSUME UNCHANGED <<instant, snapshot, spoilt>>, run.step # FinalStep, run'.step # FinalStep,
             ~run'.changed, run.differs => run'.differs, ~told' => ~told \/ run'.differs,
             run'.step > 2 => run'.balances.spot # Unknown, run'.step = 0 => ~run'.differs
      PROVE  TellInv'
  <2>1. HalfOf(instant)' = HalfOf(instant) /\ \A h : Written(h)' = Written(h)
    BY <1>a DEF HalfOf, Written
  <2> QED
    BY <1>a, <2>1 DEF TellInv
<1>b. ASSUME UNCHANGED snapshot, Ends PROVE TellInv'
  <2>1. UNCHANGED <<instant, snapshot>> /\ run' = Resting /\ spoilt' = spoilt \cup {HalfOf(instant)}
    BY <1>b DEF Ends
  <2>2. HalfOf(instant)' = HalfOf(instant) /\ \A h : Written(h)' = Written(h)
    BY <2>1 DEF HalfOf, Written
  <2>3. run'.step = 0 /\ run'.changed = FALSE /\ run'.differs = FALSE
    BY <2>1 DEF Resting
  <2> QED
    BY <1>h, <2>1, <2>2, <2>3 DEF TellInv
<1>3. CASE Start
  <2>1. /\ UNCHANGED <<instant, snapshot, told, spoilt>> /\ run.step = 0
        /\ run' = [Resting EXCEPT !.step = 1]
    BY <1>3 DEF Start, stored, past
  <2>2. run'.step = 1 /\ run'.changed = FALSE /\ run'.differs = FALSE
    BY <2>1 DEF Resting
  <2> QED
    BY <1>h, <1>a, <2>1, <2>2 DEF TellInv
<1>4. CASE ImportLedgers
  <2>1. run.step = 1
    BY <1>4, AtIs, StepNames DEF ImportLedgers
  <2>2. /\ UNCHANGED <<instant, snapshot, spoilt>>
        /\ told' = (told /\ kept = ledger)
        /\ run' = [Advance(run) EXCEPT !.differs = @ \/ kept # ledger]
    BY <1>4 DEF ImportLedgers
  <2>3. /\ Advance(run) \in RunType /\ Advance(run).step = 2 /\ Advance(run).changed = run.changed
        /\ Advance(run).differs = run.differs
    <3>1. run \in RunType /\ run.step < FinalStep
      BY <1>h, <2>1 DEF Typed
    <3>2. /\ Advance(run) \in RunType /\ Advance(run).step = run.step + 1
          /\ Advance(run).changed = run.changed /\ Advance(run).differs = run.differs
          /\ Advance(run).balances = run.balances
      BY <3>1, Advances
    <3> QED
      BY <1>h, <2>1, <3>2
  <2>4. run'.step = 2 /\ run'.changed = run.changed /\ run'.differs = (run.differs \/ kept # ledger)
    BY <2>2, <2>3 DEF RunType
  <2>5. /\ run.step # FinalStep /\ run'.step # FinalStep /\ ~(run'.step > 2) /\ run'.step # 0
    BY <1>h, <2>1, <2>4
  <2>6. run.differs => run'.differs
    BY <2>4
  <2>7. ~told' => ~told \/ run'.differs
    BY <2>2, <2>4
  <2>8. ~run'.changed
    BY <2>4, <2>5 DEF TellInv
  <2> QED
    BY <1>a, <2>2, <2>5, <2>6, <2>7, <2>8
<1>5. CASE ReadBalances
  <2> DEFINE read == [spot |-> spot, earn |-> IF suffixed THEN InEarn(earn) ELSE 0]
  <2>1. run.step = 2
    BY <1>5, AtIs, StepNames DEF ReadBalances
  <2>2. /\ UNCHANGED <<instant, snapshot, spoilt, told>>
        /\ run' = [Advance(run) EXCEPT !.balances = read]
    BY <1>5 DEF ReadBalances, stored, past
  <2>3. /\ Advance(run) \in RunType /\ Advance(run).step = 3 /\ Advance(run).changed = run.changed
        /\ Advance(run).differs = run.differs
    <3>1. run \in RunType /\ run.step < FinalStep
      BY <1>h, <2>1 DEF Typed
    <3>2. /\ Advance(run) \in RunType /\ Advance(run).step = run.step + 1
          /\ Advance(run).changed = run.changed /\ Advance(run).differs = run.differs
          /\ Advance(run).balances = run.balances
      BY <3>1, Advances
    <3> QED
      BY <1>h, <2>1, <3>2
  <2>4. read.spot = spot /\ spot # Unknown
    BY DEF Typed, AccountTypes, Unknown
  <2> HIDE DEF read
  <2>5. /\ run'.step = 3 /\ run'.changed = run.changed /\ run'.differs = run.differs
        /\ run'.balances = read
    BY <2>2, <2>3 DEF RunType
  <2> QED
    BY <1>h, <1>a, <2>1, <2>2, <2>4, <2>5 DEF TellInv
<1>6. ASSUME NEW e \in Lists, ReadPage(e) PROVE TellInv'
  <2>1. run.step \in {3} \cup 5 .. FinalStep - 2
    BY <1>6, ListStep DEF ReadPage
  <2>2. /\ UNCHANGED <<instant, snapshot, spoilt>> /\ told' = (told /\ allocated' = allocated)
    BY <1>6 DEF ReadPage
  <2>3. /\ PageRead(e) \in RunType /\ PageRead(e).step = run.step
        /\ PageRead(e).changed = run.changed /\ PageRead(e).balances = run.balances
        /\ PageRead(e).differs = (run.differs \/ allocated' # allocated)
        /\ run' = IF LastPage(e) THEN Advance(PageRead(e)) ELSE PageRead(e)
    BY <1>6, PageReadIs
  <2>4. PageRead(e).step < FinalStep
    BY <1>h, <2>1, <2>3
  <2>5. /\ run'.step \in {run.step, run.step + 1} /\ run'.changed = run.changed
        /\ run'.balances = run.balances /\ run'.differs = (run.differs \/ allocated' # allocated)
    BY <2>3, <2>4, Advances
  <2>6. run.step > 2 /\ run.step # FinalStep /\ run'.step # FinalStep /\ run'.step # 0
    BY <1>h, <2>1, <2>5
  <2> QED
    BY <1>a, <2>2, <2>5, <2>6 DEF TellInv
<1>7. ASSUME NEW e \in Lists, PageFails(e) PROVE TellInv'
  <2>1. CASE Policy[e].error = "attempt"
    BY <1>7, <1>b, <2>1 DEF PageFails, stored
  <2>2. CASE Policy[e].error # "attempt"
    <3>1. run.step \in {3} \cup 5 .. FinalStep - 2 /\ run.step < FinalStep
      BY <1>7, ListStep DEF PageFails
    <3>2. UNCHANGED <<instant, snapshot, spoilt, told>>
      BY <1>7, <2>2 DEF PageFails, stored
    <3>3. \/ run' = Advance(run)
          \/ run' = [run EXCEPT !.warned = TRUE, !.page = Max(PageOf(e))]
      BY <1>7, <2>2 DEF PageFails
    <3>4. /\ run'.step \in {run.step, run.step + 1} /\ run'.changed = run.changed
          /\ run'.balances = run.balances /\ run'.differs = run.differs
      BY <3>1, <3>3, Advances DEF Typed, RunType
    <3>5. run.step > 2 /\ run.step # FinalStep /\ run'.step # FinalStep /\ run'.step # 0
      BY <1>h, <3>1, <3>4
    <3> QED
      BY <1>a, <3>2, <3>4, <3>5 DEF TellInv
  <2> QED
    BY <2>1, <2>2
<1>8. CASE ReadStrategies \/ StrategiesFail
  <2>1. run.step = 4
    BY <1>8, AtIs, StepNames DEF ReadStrategies, StrategiesFail
  <2>2. UNCHANGED <<instant, snapshot, spoilt>>
    BY <1>8 DEF ReadStrategies, StrategiesFail, stored, past
  <2>3. /\ Advance(run) \in RunType /\ Advance(run).step = 5 /\ Advance(run).changed = run.changed
        /\ Advance(run).differs = run.differs /\ Advance(run).balances = run.balances
    <3>1. run \in RunType /\ run.step < FinalStep
      BY <1>h, <2>1 DEF Typed
    <3>2. /\ Advance(run) \in RunType /\ Advance(run).step = run.step + 1
          /\ Advance(run).changed = run.changed /\ Advance(run).differs = run.differs
          /\ Advance(run).balances = run.balances
      BY <3>1, Advances
    <3> QED
      BY <1>h, <2>1, <3>2
  <2>4. /\ run'.step = 5 /\ run'.changed = run.changed /\ run'.balances = run.balances
        /\ run.differs => run'.differs
        /\ ~told' => ~told \/ run'.differs
    <3>1. CASE ReadStrategies
      <4>1. /\ told' = (told /\ rates' = rates)
            /\ run' = [Advance(run) EXCEPT !.differs = @ \/ rates' # rates]
        BY <3>1 DEF ReadStrategies
      <4>2. run'.differs = (run.differs \/ rates' # rates)
        BY <2>3, <4>1 DEF RunType
      <4> QED
        BY <2>3, <4>1, <4>2 DEF RunType
    <3>2. CASE StrategiesFail
      BY <2>3, <3>2 DEF StrategiesFail
    <3> QED
      BY <1>8, <3>1, <3>2
  <2> QED
    BY <1>h, <1>a, <2>1, <2>2, <2>4 DEF TellInv
<1>9. CASE WriteSnapshot
  <2> DEFINE h == HalfOf(instant)
             value == WithEarn(run.balances, run.allocations)
  <2>1. run.step = FinalStep - 1
    BY <1>9, AtIs, StepNames DEF WriteSnapshot
  <2>2. /\ snapshot' = [snapshot EXCEPT ![h] = value]
        /\ told' = (told /\ snapshot' = snapshot)
        /\ run' = [Advance(run) EXCEPT !.changed = snapshot' # snapshot, !.half = h]
        /\ UNCHANGED <<instant, spoilt>>
    BY <1>9 DEF WriteSnapshot
  <2>3. /\ Advance(run) \in RunType /\ Advance(run).step = FinalStep
        /\ Advance(run).differs = run.differs /\ Advance(run).balances = run.balances
    <3>1. run \in RunType /\ run.step < FinalStep
      BY <1>h, <2>1 DEF Typed
    <3>2. /\ Advance(run) \in RunType /\ Advance(run).step = run.step + 1
          /\ Advance(run).changed = run.changed /\ Advance(run).differs = run.differs
          /\ Advance(run).balances = run.balances
      BY <3>1, Advances
    <3> QED
      BY <1>h, <2>1, <3>2
  <2>4. /\ run'.step = FinalStep /\ run'.half = h /\ run'.differs = run.differs
        /\ run'.balances = run.balances /\ run'.changed = (snapshot' # snapshot)
    BY <2>2, <2>3 DEF RunType
  <2>5. value # NoSnapshot
    <3>1. value.spot = run.balances.spot
      BY DEF WithEarn, Typed, RunType, Shot
    <3>2. run.balances.spot # Unknown
      BY <1>h, <2>1 DEF TellInv
    <3> QED
      BY <3>1, <3>2 DEF NoSnapshot
  <2>6. ~told' => run'.differs \/ run'.changed \/ h \in spoilt
    <3>1. ASSUME ~told', ~run'.changed PROVE ~told /\ Written(h)
      <4>1. snapshot' = snapshot /\ ~told
        BY <2>2, <2>4, <3>1
      <4>2. snapshot[h] = value
        BY <1>h, <2>2, <4>1 DEF Typed, StoredTypes
      <4> QED
        BY <2>5, <4>1, <4>2 DEF Written
    <3> QED
      BY <1>h, <2>1, <2>4, <3>1 DEF TellInv
  <2>7. \A k \in Half : Written(k)' => k <= h
    <3> SUFFICES ASSUME NEW k \in Half, Written(k)' PROVE k <= h
      OBVIOUS
    <3>1. CASE k = h
      BY <1>h, <3>1
    <3>2. CASE k # h
      <4>1. snapshot'[k] = snapshot[k]
        BY <2>2, <3>2 DEF Typed, StoredTypes
      <4> QED
        BY <4>1 DEF TellInv, Written
    <3> QED
      BY <3>1, <3>2
  <2>8. HalfOf(instant)' = h
    BY <2>2 DEF HalfOf
  <2>9. run'.half <= HalfOf(instant)' /\ \A k \in Half : Written(k)' => k <= run'.half
    BY <1>h, <2>4, <2>7, <2>8
  <2>10. run'.balances.spot # Unknown
    BY <1>h, <2>1, <2>4 DEF TellInv
  <2> HIDE DEF h
  <2> QED
    BY <1>h, <2>2, <2>4, <2>6, <2>7, <2>8, <2>9, <2>10 DEF TellInv
<1>10. CASE Announce
  <2>1. run.step = FinalStep /\ UNCHANGED <<instant, snapshot, spoilt>>
        /\ told' = (told \/ Announces(run)) /\ run' = Resting
    BY <1>10, AtIs, StepNames DEF Announce, stored
  <2>2. run'.step = 0 /\ run'.changed = FALSE /\ run'.differs = FALSE
    BY <2>1 DEF Resting
  <2>3. HalfOf(instant)' = HalfOf(instant) /\ \A k : Written(k)' = Written(k)
    BY <2>1 DEF HalfOf, Written
  <2>4. ASSUME ~told', Written(HalfOf(instant)) PROVE HalfOf(instant) \in spoilt
    <3>1. run.half \in spoilt
      BY <2>1, <2>4 DEF TellInv, Announces
    <3>2. HalfOf(instant) <= run.half /\ run.half <= HalfOf(instant)
      BY <1>h, <2>1, <2>4 DEF TellInv
    <3>3. run.half \in Nat
      BY <1>h DEF Typed, RunType
    <3> QED
      BY <1>h, <3>1, <3>2, <3>3
  <2> QED
    BY <1>h, <2>1, <2>2, <2>3, <2>4 DEF TellInv
<1>11. CASE ProcessEnds \/ LedgersFail
  BY <1>11, <1>b DEF ProcessEnds, LedgersFail, stored
<1>12. CASE ApplyRetention
  <2>1. UNCHANGED <<instant, told, spoilt, run>>
    BY <1>12 DEF ApplyRetention
  <2>2. \A h \in Half : snapshot'[h] \in {NoSnapshot, snapshot[h]}
    BY <1>12 DEF ApplyRetention
  <2>3. HalfOf(instant)' = HalfOf(instant) /\ \A h \in Half : Written(h)' => Written(h)
    BY <2>1, <2>2 DEF HalfOf, Written
  <2> QED
    BY <1>h, <2>1, <2>3 DEF TellInv
<1>13. CASE \/ \E i \in Item : Allocate(i) \/ Deallocate(i) \/ Reward(i) \/ ListingChanges(i)
            \/ \E amount \in {-1, 1} : SpotMoves(amount)
            \/ UNCHANGED accountVars
  BY <1>1, <1>13 DEF Allocate, Deallocate, Reward, EarnMoves, ListingChanges, SpotMoves, Moves, stored,
                     accountVars, past
<1> QED
  BY <1>2, <1>3, <1>4, <1>5, <1>6, <1>7, <1>8, <1>9, <1>10, <1>11, <1>12, <1>13, Zenon DEF AccountNext

-----------------------------------------------------------------------------
(* What a snapshot holds                                                    *)

Balances == [spot |-> spot, earn |-> IF suffixed THEN InEarn(earn) ELSE 0]
Whole == [spot |-> spot, earn |-> InEarn(earn)]

\* While nothing moves, the run has read what there is: the balances, then the
\* allocations up to its page; and its snapshot is the account.
WholeInv ==
  /\ run.step <= 2 => run.allocations = [i \in Item |-> 0]
  /\ ~moved =>
       /\ run.step > 2 => run.balances = Balances
       /\ run.step = 3 => \A i \in Item : run.allocations[i] = IF i <= run.page THEN earn[i] ELSE 0
       /\ run.step > 3 => run.allocations = earn
       /\ run.step = FinalStep => snapshot[run.half] \in {NoSnapshot, Whole}

LEMMA GreaterOf ==
  ASSUME NEW x \in Int, NEW y \in Int, x >= y
  PROVE  Max({x, y}) = x /\ Max({y, x}) = x
<1>1. \A S : S = {x, y} => Max(S) \in S /\ \A z \in S : Max(S) >= z
  <2> SUFFICES ASSUME NEW S, S = {x, y} PROVE Max(S) \in S /\ \A z \in S : Max(S) >= z
    OBVIOUS
  <2>1. \E m \in S : \A z \in S : m >= z
    OBVIOUS
  <2> QED
    BY <2>1 DEF Max
<1>2. Max({x, y}) \in {x, y} /\ Max({x, y}) >= x
  BY <1>1
<1>3. Max({x, y}) = x
  BY <1>2
<1>4. {x, y} = {y, x}
  OBVIOUS
<1> QED
  BY <1>3, <1>4

LEMMA WithEarnIs ==
  ASSUME Typed, run.balances = Balances, run.allocations = earn
  PROVE  WithEarn(run.balances, run.allocations) = Whole
<1>1. InEarn(earn) \in Nat
  BY InEarnTyped
<1>2. WithEarn(run.balances, run.allocations)
        = [spot |-> spot, earn |-> Balances.earn + Max({0, InEarn(earn) - Balances.earn})]
  BY DEF WithEarn, Balances
<1>3. CASE suffixed
  <2>1. Balances.earn = InEarn(earn)
    BY <1>3 DEF Balances
  <2>2. Max({0, InEarn(earn) - InEarn(earn)}) = 0
    BY <1>1, GreaterOf
  <2> QED
    BY <1>1, <1>2, <2>1, <2>2 DEF Whole
<1>4. CASE ~suffixed
  <2>1. Balances.earn = 0
    BY <1>4 DEF Balances
  <2>2. InEarn(earn) - 0 = InEarn(earn)
    BY <1>1
  <2>3. Max({0, InEarn(earn)}) = InEarn(earn)
    BY <1>1, GreaterOf
  <2> QED
    BY <1>1, <1>2, <2>1, <2>2, <2>3 DEF Whole
<1> QED
  BY <1>3, <1>4

\* A page of the allocations: what is listed up to it is what it has read.
LEMMA AllocationsRead ==
  ASSUME Typed, WholeInv, ~moved, ReadPage("allocations")
  PROVE  /\ run.step = 3
         /\ run'.step = 3 => \A i \in Item : run'.allocations[i] = IF i <= run'.page THEN earn[i] ELSE 0
         /\ run'.step # 3 => run'.step = 4 /\ run'.allocations = earn
<1> DEFINE e == "allocations"
           page == PageOf(e)
<1>0. e \in Lists
  BY DEF Lists
<1>1. run.step = 3
  BY <1>0, ListStep DEF ReadPage
<1>2. /\ PageRead(e) \in RunType /\ PageRead(e).step = 3
      /\ PageRead(e).page = IF page = {} THEN run.page ELSE Max(page)
      /\ PageRead(e).allocations = [i \in Item |-> IF i \in page THEN earn[i] ELSE run.allocations[i]]
      /\ run' = IF LastPage(e) THEN Advance(PageRead(e)) ELSE PageRead(e)
  BY <1>0, <1>1, PageReadIs
<1>3. \A i \in Item : run.allocations[i] = IF i <= run.page THEN earn[i] ELSE 0
  BY <1>1 DEF WholeInv
<1>4. /\ \A i \in Item : i \in Nat /\ earn[i] \in Nat
      /\ run.page \in Nat /\ run.allocations \in [Item -> Nat] /\ earn \in [Item -> Nat]
  <2>1. earn \in [Item -> Nat] /\ run.page \in Item \cup {0} /\ run.allocations \in [Item -> Nat]
    BY DEF Typed, AccountTypes, RunType
  <2> QED
    BY <2>1, AccountAssumptions
<1>5. \A i \in Item : i \in Listed(e) <=> earn[i] > 0
  BY DEF Listed
<1>6. page \subseteq {i \in Listed(e) : i > run.page} /\ Listed(e) \subseteq Item
  BY <1>0, PageIs
<1>7. CASE LastPage(e)
  <2>1. \A i \in Item : (i > run.page /\ earn[i] > 0) => i \in page
    BY <1>5, <1>7 DEF LastPage
  <2>2. \A i \in Item : PageRead(e).allocations[i] = earn[i]
    BY <1>2, <1>3, <1>4, <2>1
  <2>3. PageRead(e).allocations = earn
    BY <1>2, <1>4, <2>2
  <2>4. PageRead(e).step < FinalStep
    BY <1>2, StepsAre
  <2>5. Advance(PageRead(e)).step = PageRead(e).step + 1
        /\ Advance(PageRead(e)).allocations = PageRead(e).allocations
    BY <1>2, <2>4, Advances
  <2> QED
    BY <1>1, <1>2, <1>7, <2>3, <2>5
<1>8. CASE ~LastPage(e)
  <2>1. /\ page = {Max(page)} /\ \A i \in Listed(e) : i > run.page => Max(page) <= i
    BY <1>0, <1>8, PageIs
  <2>2. Max(page) \in Item /\ Max(page) \in Nat /\ Max(page) > run.page
    BY <1>4, <1>6, <2>1
  <2>3. run' = PageRead(e) /\ run'.page = Max(page) /\ run'.step = 3
    BY <1>2, <1>8, <2>1
  <2>4. ASSUME NEW i \in Item PROVE run'.allocations[i] = IF i <= run'.page THEN earn[i] ELSE 0
    <3>1. CASE i = Max(page)
      BY <1>2, <1>4, <2>1, <2>3, <3>1
    <3>2. CASE i # Max(page)
      <4>1. run'.allocations[i] = run.allocations[i]
        BY <1>2, <2>1, <2>3, <3>2
      <4>2. (i > run.page /\ i < Max(page)) => earn[i] = 0
        BY <1>4, <1>5, <2>1, <2>2
      <4> QED
        BY <1>3, <1>4, <2>2, <2>3, <3>2, <4>1, <4>2
    <3> QED
      BY <3>1, <3>2
  <2> QED
    BY <1>1, <2>3, <2>4
<1> QED
  BY <1>7, <1>8

LEMMA WholeStep == Typed /\ WholeInv /\ [AccountNext]_accountVars => WholeInv'
<1> SUFFICES ASSUME Typed, WholeInv, [AccountNext]_accountVars PROVE WholeInv'
  OBVIOUS
<1>h. FinalStep \in Nat /\ FinalStep >= 6 /\ run.step \in 0 .. FinalStep /\ run \in RunType
  BY StepsAre DEF Typed, RunType
<1>a. ASSUME run'.step <= 2, run'.step # FinalStep, run'.step \in Nat,
             run'.allocations = [i \in Item |-> 0]
      PROVE  WholeInv'
  <2>1. ~(run'.step > 2) /\ ~(run'.step > 3) /\ run'.step # 3
    BY <1>a
  <2> QED
    BY <1>a, <2>1 DEF WholeInv
<1>b. Resting.step = 0 /\ Resting.allocations = [i \in Item |-> 0]
  BY DEF Resting
<1>c. ASSUME run' = Resting PROVE WholeInv'
  BY <1>a, <1>b, <1>c, <1>h
<1>d. ASSUME UNCHANGED <<spot, earn, suffixed>> PROVE Balances' = Balances /\ Whole' = Whole
  BY <1>d DEF Balances, Whole
<1>1. ASSUME Moves, run' = run PROVE WholeInv'
  <2>1. moved' = (run.step > 2)
    BY <1>1 DEF Moves
  <2>2. CASE run.step > 2
    <3>1. moved' /\ ~(run.step <= 2)
      <4>1. moved'
        BY <2>1, <2>2, Zenon
      <4>2. ~(run.step <= 2)
        BY <1>h, <2>2
      <4> QED
        BY <4>1, <4>2
    <3> QED
      BY <1>1, <3>1 DEF WholeInv
  <2>3. CASE run.step <= 2
    BY <1>1, <1>a, <1>h, <2>3 DEF WholeInv
  <2> QED
    BY <1>h, <2>2, <2>3
<1>2. CASE Start
  <2>1. run' = [Resting EXCEPT !.step = 1]
    BY <1>2 DEF Start
  <2>2. run'.step = 1 /\ run'.allocations = [i \in Item |-> 0]
    BY <2>1 DEF Resting
  <2>3. run'.step <= 2 /\ run'.step # FinalStep /\ run'.step \in Nat
    BY <1>h, <2>2
  <2> QED
    BY <1>a, <2>2, <2>3
<1>3. CASE ImportLedgers
  <2>1. run.step = 1 /\ run' = [Advance(run) EXCEPT !.differs = @ \/ kept # ledger]
    BY <1>3, AtIs, StepNames DEF ImportLedgers
  <2>2. run.step < FinalStep
    BY <1>h, <2>1
  <2>3. Advance(run) \in RunType /\ Advance(run).step = run.step + 1
        /\ Advance(run).allocations = run.allocations
    BY <1>h, <2>2, Advances
  <2>4. run'.step = run.step + 1 /\ run'.allocations = run.allocations
    BY <2>1, <2>3 DEF RunType
  <2>5. run'.step <= 2 /\ run'.step # FinalStep /\ run'.step \in Nat /\ run.step <= 2
    BY <1>h, <2>1, <2>4
  <2> QED
    BY <1>a, <2>4, <2>5 DEF WholeInv
<1>4. CASE ReadBalances
  <2>1. run.step = 2 /\ run' = [Advance(run) EXCEPT !.balances = Balances]
        /\ UNCHANGED <<spot, earn, suffixed>>
    BY <1>4, AtIs, StepNames DEF ReadBalances, Balances, account
  <2>2. run.step < FinalStep
    BY <1>h, <2>1
  <2>3. Advance(run) \in RunType /\ Advance(run).step = run.step + 1 /\ Advance(run).page = 0
        /\ Advance(run).allocations = run.allocations
    BY <1>h, <2>2, Advances
  <2>4. /\ run'.step = run.step + 1 /\ run'.allocations = run.allocations /\ run'.balances = Balances
        /\ run'.page = 0
    BY <2>1, <2>3 DEF RunType
  <2>5. run'.step = 3 /\ ~(run'.step <= 2) /\ ~(run'.step > 3) /\ run'.step # FinalStep /\ run.step <= 2
    BY <1>h, <2>1, <2>4
  <2>6. \A i \in Item : run'.allocations[i] = 0 /\ ~(i <= run'.page)
    BY <2>4, <2>5, AccountAssumptions DEF WholeInv
  <2>7. Balances' = Balances
    BY <1>d, <2>1
  <2> QED
    BY <2>4, <2>5, <2>6, <2>7 DEF WholeInv
<1>e. ASSUME UNCHANGED <<spot, earn, suffixed, moved>>, run.step > 3,
             run'.step > 3, run'.step # FinalStep,
             run'.balances = run.balances, run'.allocations = run.allocations, run'.step \in Nat
      PROVE  WholeInv'
  <2>1. ~(run'.step <= 2) /\ run'.step # 3 /\ ~(run.step <= 2) /\ run.step # 3 /\ run.step > 2
    BY <1>e, <1>h
  <2>2. Balances' = Balances
    BY <1>d, <1>e
  <2> QED
    BY <1>e, <2>1, <2>2 DEF WholeInv
<1>5. ASSUME NEW e \in Lists, ReadPage(e) PROVE WholeInv'
  <2>1. UNCHANGED <<spot, earn, suffixed, moved>>
    BY <1>5 DEF ReadPage, account
  <2>2. /\ PageRead(e) \in RunType /\ PageRead(e).step = run.step
        /\ PageRead(e).balances = run.balances
        /\ run' = IF LastPage(e) THEN Advance(PageRead(e)) ELSE PageRead(e)
        /\ e # "allocations" => PageRead(e).allocations = run.allocations
    BY <1>5, PageReadIs
  <2>3. run.step \in {3} \cup 5 .. FinalStep - 2 /\ (e = "allocations" <=> run.step = 3)
    BY <1>5, ListStep DEF ReadPage
  <2>4. PageRead(e).step < FinalStep
    BY <1>h, <2>2, <2>3
  <2>5. /\ run'.step \in {run.step, run.step + 1} /\ run'.balances = run.balances
        /\ e # "allocations" => run'.allocations = run.allocations
    BY <2>2, <2>4, Advances
  <2>6. CASE e = "allocations"
    <3>1. /\ run'.step \in {3, 4} /\ ~(run'.step <= 2) /\ run'.step # FinalStep
          /\ run.step > 2 /\ run'.step > 2
      BY <1>h, <2>3, <2>5, <2>6
    <3>2. ~moved => /\ run'.step = 3 =>
                         \A i \in Item : run'.allocations[i] = IF i <= run'.page THEN earn[i] ELSE 0
                    /\ run'.step # 3 => run'.step = 4 /\ run'.allocations = earn
      BY <1>5, <2>6, AllocationsRead
    <3>3. Balances' = Balances
      BY <1>d, <2>1
    <3>4. run'.step > 3 => run'.step # 3
      BY <3>1
    <3> QED
      BY <2>1, <2>5, <3>1, <3>2, <3>3, <3>4 DEF WholeInv
  <2>7. CASE e # "allocations"
    <3>1. run.step > 3 /\ run'.step > 3 /\ run'.step # FinalStep /\ run'.step \in Nat
      BY <1>h, <2>3, <2>5, <2>7
    <3> QED
      BY <1>e, <2>1, <2>5, <2>7, <3>1
  <2> QED
    BY <2>6, <2>7
<1>6. ASSUME NEW e \in Lists, PageFails(e) PROVE WholeInv'
  <2>1. CASE Policy[e].error = "attempt"
    BY <1>6, <1>c, <2>1 DEF PageFails, Ends
  <2>2. CASE Policy[e].error # "attempt"
    <3>1. /\ run.step \in {3} \cup 5 .. FinalStep - 2 /\ run.step < FinalStep
          /\ e = "allocations" <=> run.step = 3
      BY <1>6, ListStep DEF PageFails
    <3>2. e # "allocations"
      BY <2>2 DEF Policy, EarnAllocations
    <3>3. UNCHANGED <<spot, earn, suffixed, moved>>
      BY <1>6, <2>2 DEF PageFails, account
    <3>4. \/ run' = Advance(run)
          \/ run' = [run EXCEPT !.warned = TRUE, !.page = Max(PageOf(e))]
      BY <1>6, <2>2 DEF PageFails
    <3>5. /\ run'.step \in {run.step, run.step + 1} /\ run'.allocations = run.allocations
          /\ run'.balances = run.balances
      BY <1>h, <3>1, <3>4, Advances DEF RunType
    <3>6. run.step > 3 /\ run'.step > 3 /\ run'.step # FinalStep /\ run'.step \in Nat
      BY <1>h, <3>1, <3>2, <3>5
    <3> QED
      BY <1>e, <3>3, <3>5, <3>6
  <2> QED
    BY <2>1, <2>2
<1>7. CASE ReadStrategies \/ StrategiesFail
  <2>1. run.step = 4
    BY <1>7, AtIs, StepNames DEF ReadStrategies, StrategiesFail
  <2>2. UNCHANGED <<spot, earn, suffixed, moved>>
    BY <1>7 DEF ReadStrategies, StrategiesFail, account, past
  <2>3. run.step < FinalStep
    BY <1>h, <2>1
  <2>4. /\ Advance(run) \in RunType /\ Advance(run).step = run.step + 1
        /\ Advance(run).allocations = run.allocations /\ Advance(run).balances = run.balances
    BY <1>h, <2>3, Advances
  <2>5. \/ run' = Advance(run)
        \/ run' = [Advance(run) EXCEPT !.differs = @ \/ rates' # rates]
    BY <1>7 DEF ReadStrategies, StrategiesFail
  <2>6. /\ run'.step = run.step + 1 /\ run'.allocations = run.allocations
        /\ run'.balances = run.balances
    BY <2>4, <2>5 DEF RunType
  <2>7. run.step > 3 /\ run'.step > 3 /\ run'.step # FinalStep /\ run'.step \in Nat
    BY <1>h, <2>1, <2>6
  <2> QED
    BY <1>e, <2>2, <2>6, <2>7
<1>8. CASE WriteSnapshot
  <2> DEFINE h == HalfOf(instant)
             value == WithEarn(run.balances, run.allocations)
  <2>1. run.step = FinalStep - 1
    BY <1>8, AtIs, StepNames DEF WriteSnapshot
  <2>2. /\ snapshot' = [snapshot EXCEPT ![h] = value]
        /\ run' = [Advance(run) EXCEPT !.changed = snapshot' # snapshot, !.half = h]
        /\ UNCHANGED <<spot, earn, suffixed, moved>>
    BY <1>8 DEF WriteSnapshot, account
  <2>3. run.step < FinalStep
    BY <1>h, <2>1
  <2>4. /\ Advance(run) \in RunType /\ Advance(run).step = run.step + 1
        /\ Advance(run).allocations = run.allocations /\ Advance(run).balances = run.balances
    BY <1>h, <2>3, Advances
  <2>5. /\ run'.step = run.step + 1 /\ run'.allocations = run.allocations
        /\ run'.balances = run.balances /\ run'.half = h
    BY <2>2, <2>4 DEF RunType
  <2>6. /\ run'.step = FinalStep /\ run.step > 3 /\ run.step > 2
        /\ ~(run'.step <= 2) /\ run'.step # 3
    BY <1>h, <2>1, <2>5
  <2>7. ~moved => value = Whole
    BY <2>6, WithEarnIs DEF WholeInv
  <2>8. snapshot'[h] = value
    BY <2>2, HalfIs DEF Typed, StoredTypes
  <2>9. Balances' = Balances /\ Whole' = Whole
    BY <1>d, <2>2
  <2> HIDE DEF h, value
  <2> QED
    BY <2>2, <2>5, <2>6, <2>7, <2>8, <2>9 DEF WholeInv
<1>9. CASE ProcessEnds \/ LedgersFail \/ Announce
  BY <1>9, <1>c DEF ProcessEnds, LedgersFail, Announce, Ends
<1>10. CASE ApplyRetention
  <2>1. UNCHANGED <<spot, earn, suffixed, moved, run>>
    BY <1>10 DEF ApplyRetention, account
  <2>2. snapshot'[run.half] \in {NoSnapshot, snapshot[run.half]}
    BY <1>10 DEF ApplyRetention, Typed, RunType
  <2>3. Balances' = Balances /\ Whole' = Whole
    BY <1>d, <2>1
  <2> QED
    BY <2>1, <2>2, <2>3 DEF WholeInv
<1>11. CASE \/ \E i \in Item : Allocate(i) \/ Deallocate(i) \/ Reward(i) \/ ListingChanges(i)
            \/ \E amount \in {-1, 1} : SpotMoves(amount)
  <2>1. Moves
    BY <1>11 DEF Allocate, Deallocate, Reward, EarnMoves, ListingChanges, SpotMoves
  <2>2. run' = run
    BY <2>1 DEF Moves
  <2> QED
    BY <1>1, <2>1, <2>2
<1>12. CASE InstantPasses \/ UNCHANGED accountVars
  <2>1. UNCHANGED <<spot, earn, suffixed, moved, run, snapshot>>
    BY <1>12 DEF InstantPasses, accountVars, account, stored, past
  <2>2. Balances' = Balances /\ Whole' = Whole
    BY <1>d, <2>1
  <2> QED
    BY <2>1, <2>2 DEF WholeInv
<1> QED
  BY <1>2, <1>3, <1>4, <1>5, <1>6, <1>7, <1>8, <1>9, <1>10, <1>11, <1>12, Zenon DEF AccountNext

LEMMA WholeShown == Typed /\ WholeInv => SnapshotWhole
<1> SUFFICES ASSUME Typed, WholeInv, At("announce"), ~moved, snapshot[run.half] # NoSnapshot
             PROVE  snapshot[run.half] = Whole
  BY DEF SnapshotWhole, Whole
<1>1. run.step = FinalStep
  BY AtIs, StepNames
<1> QED
  BY <1>1 DEF WholeInv

-----------------------------------------------------------------------------
(* What has been in Earn, and what the Earn page shows                      *)

\* A value at each of 0 .. m, each made from the one before it.
LEMMA PrefixExists ==
  ASSUME NEW m \in Nat, NEW b \in Int, NEW F \in [(1 .. m) \X Int -> Int]
  PROVE  \E f \in [0 .. m -> Int] : f[0] = b /\ \A t \in 1 .. m : f[t] = F[<<t, f[t - 1]>>]
<1> DEFINE Good(n, f) == f[0] = b /\ \A t \in 1 .. n : f[t] = F[<<t, f[t - 1]>>]
           N == {n \in Nat : n <= m => \E f \in [0 .. m -> Int] : Good(n, f)}
<1>1. 0 \in N
  <2> DEFINE f == [t \in 0 .. m |-> b]
  <2>1. f \in [0 .. m -> Int] /\ f[0] = b
    OBVIOUS
  <2>2. Good(0, f)
    BY <2>1
  <2> HIDE DEF f
  <2> QED
    BY <2>1, <2>2
<1>2. ASSUME NEW n \in Nat, n \in N PROVE n + 1 \in N
  <2> SUFFICES ASSUME n + 1 <= m PROVE \E f \in [0 .. m -> Int] : Good(n + 1, f)
    OBVIOUS
  <2>1. PICK f \in [0 .. m -> Int] : Good(n, f)
    BY <1>2
  <2> DEFINE v == F[<<n + 1, f[n]>>]
             g == [f EXCEPT ![n + 1] = v]
  <2>2. n + 1 \in 1 .. m /\ n \in 0 .. m /\ n + 1 \in 0 .. m
    OBVIOUS
  <2>3. f[n] \in Int
    BY <2>2
  <2>4. v \in Int
    BY <2>2, <2>3
  <2> HIDE DEF v
  <2>5. g \in [0 .. m -> Int] /\ g[n + 1] = v /\ \A t \in 0 .. n : g[t] = f[t]
    BY <2>2, <2>4
  <2> HIDE DEF g
  <2>6. g[0] = b
    BY <2>1, <2>5
  <2>7. ASSUME NEW t \in 1 .. n + 1 PROVE g[t] = F[<<t, g[t - 1]>>]
    <3>1. CASE t = n + 1
      <4>1. t - 1 = n /\ n \in 0 .. n
        BY <3>1
      <4>2. g[t - 1] = f[n]
        BY <2>5, <4>1
      <4> QED
        BY <2>5, <3>1, <4>2 DEF v
    <3>2. CASE t # n + 1
      <4>1. t \in 1 .. n /\ t \in 0 .. n /\ t - 1 \in 0 .. n
        BY <3>2
      <4>2. f[t] = F[<<t, f[t - 1]>>]
        BY <2>1, <4>1
      <4> QED
        BY <2>5, <4>1, <4>2
    <3> QED
      BY <3>1, <3>2
  <2> QED
    BY <2>5, <2>6, <2>7
<1> HIDE DEF N
<1>3. m \in N
  BY <1>1, <1>2, NaturalsReached
<1> QED
  BY <1>3 DEF N

\* The sum of a ledger's movements up to each instant.
Total(l) == CHOOSE f : f = [t \in Instant |-> l[t] + IF t = 0 THEN 0 ELSE f[t - 1]]

LEMMA TotalIs ==
  ASSUME NEW l \in [Instant -> Int]
  PROVE  /\ Total(l)[0] = l[0]
         /\ \A t \in Instant \ {0} : Total(l)[t] = l[t] + Total(l)[t - 1]
<1>0. MaxInstant \in Nat /\ Instant = 0 .. MaxInstant
  BY AccountAssumptions DEF Instant
<1> DEFINE F == [x \in (1 .. MaxInstant) \X Int |-> l[x[1]] + x[2]]
           body(f) == [t \in Instant |-> l[t] + IF t = 0 THEN 0 ELSE f[t - 1]]
<1>1. F \in [(1 .. MaxInstant) \X Int -> Int]
  BY <1>0
<1>2. l[0] \in Int
  BY <1>0
<1> HIDE DEF F
<1>3. PICK f \in [0 .. MaxInstant -> Int] :
        f[0] = l[0] /\ \A t \in 1 .. MaxInstant : f[t] = F[<<t, f[t - 1]>>]
  BY <1>0, <1>1, <1>2, PrefixExists
<1>4. ASSUME NEW t \in Instant PROVE f[t] = body(f)[t]
  <2>1. CASE t = 0
    BY <1>2, <1>3, <2>1
  <2>2. CASE t # 0
    <3>1. t \in 1 .. MaxInstant /\ t - 1 \in 0 .. MaxInstant
      BY <1>0, <2>2
    <3>2. f[t - 1] \in Int
      BY <3>1
    <3>3. F[<<t, f[t - 1]>>] = l[t] + f[t - 1]
      BY <3>1, <3>2 DEF F
    <3> QED
      BY <1>3, <2>2, <3>1, <3>3
  <2> QED
    BY <2>1, <2>2
<1>5. f = body(f)
  BY <1>0, <1>4
<1> DEFINE T == Total(l)
<1>6. T = body(T)
  <2>1. T = CHOOSE g : g = body(g)
    BY DEF Total
  <2> HIDE DEF body, T
  <2> QED
    BY <1>5, <2>1
<1> HIDE DEF T
<1>7. \A t \in Instant : T[t] = l[t] + IF t = 0 THEN 0 ELSE T[t - 1]
  BY <1>6
<1>8. 0 \in Instant
  BY <1>0
<1>9. T[0] = l[0]
  <2>1. T[0] = l[0] + 0
    BY <1>7, <1>8
  <2> QED
    BY <1>2, <2>1
<1> QED
  BY <1>7, <1>9 DEF T

\* A movement changes what has been in Earn from its instant on.
LEMMA TotalMoves ==
  ASSUME NEW l \in [Instant -> Int], NEW n \in Instant, NEW a \in Int,
         \A t \in 0 .. n : Total(l)[t] \in Int
  PROVE  LET k == [l EXCEPT ![n] = @ + a] IN
         /\ \A t \in 0 .. n - 1 : Total(k)[t] = Total(l)[t]
         /\ Total(k)[n] = Total(l)[n] + a
<1> DEFINE k == [l EXCEPT ![n] = @ + a]
           N == {t \in Nat : t <= n => Total(k)[t] = Total(l)[t] + IF t = n THEN a ELSE 0}
<1>0. MaxInstant \in Nat /\ Instant = 0 .. MaxInstant
  BY AccountAssumptions DEF Instant
<1>1. k \in [Instant -> Int] /\ k[n] = l[n] + a /\ \A t \in Instant : t # n => k[t] = l[t]
  OBVIOUS
<1> HIDE DEF k
<1>2. 0 \in N
  <2>1. Total(k)[0] = k[0] /\ Total(l)[0] = l[0] /\ 0 \in Instant
    BY <1>0, <1>1, TotalIs
  <2> QED
    BY <1>1, <2>1
<1>3. ASSUME NEW t \in Nat, t \in N PROVE t + 1 \in N
  <2> SUFFICES ASSUME t + 1 <= n PROVE Total(k)[t + 1] = Total(l)[t + 1] + IF t + 1 = n THEN a ELSE 0
    OBVIOUS
  <2>1. t + 1 \in Instant \ {0} /\ (t + 1) - 1 = t /\ t # n /\ t <= n /\ t \in 0 .. n /\ t + 1 \in 0 .. n
    BY <1>0
  <2>2. Total(k)[t + 1] = k[t + 1] + Total(k)[t] /\ Total(l)[t + 1] = l[t + 1] + Total(l)[t]
    <3>1. /\ Total(k)[t + 1] = k[t + 1] + Total(k)[(t + 1) - 1]
          /\ Total(l)[t + 1] = l[t + 1] + Total(l)[(t + 1) - 1]
      BY <1>1, <2>1, TotalIs
    <3> QED
      BY <2>1, <3>1
  <2>3. Total(l)[t] \in Int /\ l[t + 1] \in Int
    BY <2>1
  <2>4. Total(k)[t] = Total(l)[t]
    BY <1>3, <2>1, <2>3
  <2> QED
    BY <1>1, <2>1, <2>2, <2>3, <2>4
<1> HIDE DEF N
<1>4. Nat \subseteq N
  BY <1>2, <1>3, NaturalsReached
<1>5. n \in Nat /\ \A t \in 0 .. n - 1 : t \in Nat /\ t <= n /\ t # n /\ t \in 0 .. n
  BY <1>0
<1>6. \A t \in 0 .. n - 1 : Total(k)[t] = Total(l)[t]
  BY <1>4, <1>5 DEF N
<1>7. Total(k)[n] = Total(l)[n] + a
  BY <1>4, <1>5 DEF N
<1> QED
  BY <1>6, <1>7 DEF k

LEMMA TruthIs == Truth = Total(ledger) /\ (Typed => Truth[0] = ledger[0]
                   /\ \A t \in Instant \ {0} : Truth[t] = ledger[t] + Truth[t - 1])
<1>1. Truth = Total(ledger)
  BY DEF Truth, Total
<1> QED
  BY <1>1, TotalIs DEF Typed, AccountTypes

\* Nothing has moved after the present, and what is imported of the ledger, once
\* it is complete, is all there is before the newest movement imported.
KeptInv ==
  /\ \A u \in Instant : u > instant => ledger[u] = 0 /\ kept[u] = 0
  /\ complete => \A u, v \in Instant : u < v /\ kept[v] # 0 => kept[u] = ledger[u]

\* The movements up to now make what is in Earn, which has never been negative
\* and has not changed in a half hour without a movement.
TruthInv ==
  /\ Truth[instant] = InEarn(earn)
  /\ \A t \in 0 .. instant : Truth[t] \in Nat
  /\ HalfOf(instant) \notin blurred =>
       \A t \in 0 .. instant : HalfOf(t) = HalfOf(instant) => Truth[t] = Truth[instant]

\* A snapshot no movement came close to shows what was in Earn all along.
AnchorInv ==
  \A h \in Half \ blurred : snapshot[h].earn > 0 =>
    \A t \in 0 .. instant : HalfOf(t) = h => Truth[t] = snapshot[h].earn

\* The kinds of steps these three tell apart.
LEMMA StepKinds ==
  ASSUME [AccountNext]_accountVars
  PROVE  \/ \E i \in Item, amount \in {-1, 1}, from \in {-1, 0, 1} : EarnMoves(i, amount, from)
         \/ InstantPasses
         \/ /\ UNCHANGED <<instant, earn, ledger>> /\ blurred \subseteq blurred'
            /\ ImportLedgers \/ LedgersFail \/ UNCHANGED <<kept, complete>>
            /\ WriteSnapshot \/ ApplyRetention \/ UNCHANGED snapshot
<1>1. CASE \E i \in Item : Allocate(i) \/ Deallocate(i) \/ Reward(i)
  BY <1>1, Zenon DEF Allocate, Deallocate, Reward
<1>2. CASE \/ \E i \in Item : ListingChanges(i)
           \/ \E amount \in {-1, 1} : SpotMoves(amount)
  BY <1>2 DEF ListingChanges, SpotMoves, Moves, stored
<1>3. CASE InstantPasses
  BY <1>3
<1>4. CASE Start \/ ProcessEnds \/ ReadBalances \/ ReadStrategies \/ StrategiesFail \/ Announce
           \/ UNCHANGED accountVars
  BY <1>4 DEF Start, ProcessEnds, Ends, ReadBalances, ReadStrategies, StrategiesFail, Announce,
              accountVars, account, stored, past
<1>5. CASE ImportLedgers \/ LedgersFail
  BY <1>5 DEF ImportLedgers, LedgersFail, Ends, account
<1>6. CASE \E e \in Lists : ReadPage(e) \/ PageFails(e)
  BY <1>6 DEF ReadPage, PageFails, Ends, account, stored
<1>7. CASE WriteSnapshot
  BY <1>7 DEF WriteSnapshot, account
<1>8. CASE ApplyRetention
  BY <1>8 DEF ApplyRetention, account
<1> QED
  BY <1>1, <1>2, <1>3, <1>4, <1>5, <1>6, <1>7, <1>8, Zenon DEF AccountNext

LEMMA InstantIs ==
  ASSUME Typed
  PROVE  instant \in Nat /\ instant \in Instant /\ Instant = 0 .. MaxInstant /\ MaxInstant \in Nat
BY AccountAssumptions DEF Typed, AccountTypes, Instant

LEMMA KeptStep == Typed /\ KeptInv /\ [AccountNext]_accountVars => KeptInv'
<1> SUFFICES ASSUME Typed, KeptInv, [AccountNext]_accountVars PROVE KeptInv'
  OBVIOUS
<1>t. /\ instant \in Nat /\ instant \in Instant /\ Instant = 0 .. MaxInstant /\ MaxInstant \in Nat
      /\ ledger \in [Instant -> Int] /\ kept \in [Instant -> Int]
  BY InstantIs DEF Typed, AccountTypes, StoredTypes
<1>1. ASSUME NEW i \in Item, NEW amount \in {-1, 1}, NEW from \in {-1, 0, 1}, EarnMoves(i, amount, from)
      PROVE  KeptInv'
  <2>1. UNCHANGED <<instant, kept, complete>> /\ ledger' = [ledger EXCEPT ![instant] = @ + amount]
    BY <1>1 DEF EarnMoves, Moves, stored
  <2>2. \A u \in Instant : u # instant => ledger'[u] = ledger[u]
    BY <1>t, <2>1
  <2>3. \A u \in Instant : u > instant => u # instant
    BY <1>t
  <2>4. \A u, v \in Instant : u < v /\ kept[v] # 0 => u # instant
    BY <1>t DEF KeptInv
  <2> QED
    BY <2>1, <2>2, <2>3, <2>4 DEF KeptInv
<1>2. CASE InstantPasses
  <2>1. instant' = instant + 1 /\ UNCHANGED <<ledger, kept, complete>>
    BY <1>2 DEF InstantPasses, account, stored
  <2>2. \A u \in Instant : u > instant' => u > instant
    BY <1>t, <2>1
  <2> QED
    BY <2>1, <2>2 DEF KeptInv
<1>3. ASSUME UNCHANGED <<instant, ledger>>, ImportLedgers PROVE KeptInv'
  BY <1>3 DEF ImportLedgers, KeptInv
<1>4. ASSUME UNCHANGED <<instant, ledger>>, LedgersFail PROVE KeptInv'
  <2>1. PICK since \in Instant :
          kept' = [t \in Instant |-> IF t >= since THEN ledger[t] ELSE kept[t]]
    BY <1>4 DEF LedgersFail
  <2>2. complete' = FALSE
    BY <1>4 DEF LedgersFail
  <2> QED
    BY <1>4, <2>1, <2>2 DEF KeptInv
<1>5. ASSUME UNCHANGED <<instant, ledger, kept, complete>> PROVE KeptInv'
  BY <1>5 DEF KeptInv
<1> QED
  BY <1>1, <1>2, <1>3, <1>4, <1>5, StepKinds

LEMMA EarnMoved ==
  ASSUME Typed, TruthInv, NEW i \in Item, NEW amount \in {-1, 1}, NEW from, EarnMoves(i, amount, from)
  PROVE  /\ \A t \in 0 .. instant - 1 : Truth'[t] = Truth[t]
         /\ Truth'[instant] = InEarn(earn')
         /\ InEarn(earn') \in Nat
         /\ UNCHANGED <<instant, snapshot>> /\ blurred' = blurred \cup {HalfOf(instant)}
<1>1. /\ UNCHANGED <<instant, snapshot>> /\ blurred' = blurred \cup {HalfOf(instant)}
      /\ ledger' = [ledger EXCEPT ![instant] = @ + amount]
      /\ earn' = [earn EXCEPT ![i] = @ + amount] /\ earn[i] + amount >= 0
  BY DEF EarnMoves, Moves, stored
<1>2. /\ instant \in Instant /\ ledger \in [Instant -> Int] /\ earn \in [Item -> Nat]
      /\ earn \in [Item -> Int] /\ IsFiniteSet(Item) /\ amount \in Int
  BY AccountAssumptions DEF Typed, AccountTypes
<1>3. \A t \in 0 .. instant : Total(ledger)[t] \in Int
  BY TruthIs DEF TruthInv
<1>4. /\ \A t \in 0 .. instant - 1 : Total(ledger')[t] = Total(ledger)[t]
      /\ Total(ledger')[instant] = Total(ledger)[instant] + amount
  BY <1>1, <1>2, <1>3, TotalMoves
<1>5. Truth = Total(ledger) /\ Truth' = Total(ledger')
  BY DEF Truth, Total
<1>6. InEarn(earn') = InEarn(earn) + amount
  BY <1>1, <1>2, SumMoves DEF InEarn
<1>7. earn' \in [Item -> Nat]
  BY <1>1, <1>2
<1>8. InEarn(earn') \in Nat
  BY <1>2, <1>7, SumNatural DEF InEarn
<1> QED
  BY <1>1, <1>4, <1>5, <1>6, <1>8 DEF TruthInv

LEMMA NextInstant ==
  ASSUME Typed, KeptInv, TruthInv, InstantPasses
  PROVE  /\ instant' = instant + 1 /\ UNCHANGED <<ledger, earn, snapshot, blurred, Truth>>
         /\ Truth[instant + 1] = Truth[instant]
         /\ HalfOf(instant + 1) >= HalfOf(instant)
         /\ \A t \in 0 .. instant : HalfOf(t) <= HalfOf(instant)
<1>1. instant' = instant + 1 /\ instant < MaxInstant /\ UNCHANGED <<ledger, earn, snapshot, blurred>>
  BY DEF InstantPasses, account, stored, past
<1>2. instant \in Nat /\ instant + 1 \in Instant \ {0} /\ (instant + 1) - 1 = instant
      /\ instant + 1 \in Nat /\ instant + 1 > instant
  BY <1>1, InstantIs
<1>3. Truth' = Truth
  BY <1>1 DEF Truth
<1>4. Truth[instant + 1] = ledger[instant + 1] + Truth[instant]
  <2>1. Truth[instant + 1] = ledger[instant + 1] + Truth[(instant + 1) - 1]
    BY <1>2, TruthIs
  <2> QED
    BY <1>2, <2>1
<1>5. ledger[instant + 1] = 0 /\ Truth[instant] \in Nat
  BY <1>2 DEF KeptInv, TruthInv
<1>6. HalfOf(instant + 1) >= HalfOf(instant)
  <2>1. HalfOf(instant) \in Nat /\ HalfOf(instant) <= HalfOf(instant + 1) /\ HalfOf(instant + 1) \in Nat
    BY <1>2, Halves
  <2> QED
    BY <2>1
<1>7. \A t \in 0 .. instant : HalfOf(t) <= HalfOf(instant)
  BY <1>2, Halves
<1> QED
  BY <1>1, <1>3, <1>4, <1>5, <1>6, <1>7

LEMMA TruthStep == Typed /\ KeptInv /\ TruthInv /\ [AccountNext]_accountVars => TruthInv'
<1> SUFFICES ASSUME Typed, KeptInv, TruthInv, [AccountNext]_accountVars PROVE TruthInv'
  OBVIOUS
<1>t. instant \in Nat
  BY InstantIs
<1>1. ASSUME NEW i \in Item, NEW amount \in {-1, 1}, NEW from \in {-1, 0, 1}, EarnMoves(i, amount, from)
      PROVE  TruthInv'
  <2>1. /\ \A t \in 0 .. instant - 1 : Truth'[t] = Truth[t]
        /\ Truth'[instant] = InEarn(earn') /\ InEarn(earn') \in Nat
        /\ instant' = instant /\ blurred' = blurred \cup {HalfOf(instant)}
    BY <1>1, EarnMoved
  <2>2. InEarn(earn)' = InEarn(earn') /\ HalfOf(instant)' = HalfOf(instant)
    BY <2>1 DEF InEarn, HalfOf
  <2>3. HalfOf(instant)' \in blurred'
    BY <2>1, <2>2
  <2>4. \A t \in 0 .. instant : Truth'[t] \in Nat
    <3> SUFFICES ASSUME NEW t \in 0 .. instant PROVE Truth'[t] \in Nat
      OBVIOUS
    <3>1. CASE t = instant
      BY <2>1, <3>1
    <3>2. CASE t # instant
      <4>1. t \in 0 .. instant - 1
        BY <1>t, <3>2
      <4> QED
        BY <2>1, <4>1 DEF TruthInv
    <3> QED
      BY <3>1, <3>2
  <2> QED
    BY <2>1, <2>2, <2>3, <2>4 DEF TruthInv
<1>2. CASE InstantPasses
  <2>1. /\ instant' = instant + 1 /\ earn' = earn /\ blurred' = blurred /\ Truth' = Truth
        /\ Truth[instant + 1] = Truth[instant]
        /\ HalfOf(instant + 1) >= HalfOf(instant)
        /\ \A t \in 0 .. instant : HalfOf(t) <= HalfOf(instant)
    BY <1>2, NextInstant
  <2>2. InEarn(earn)' = InEarn(earn) /\ HalfOf(instant)' = HalfOf(instant + 1)
    BY <2>1 DEF InEarn, HalfOf
  <2>3. \A t \in 0 .. instant + 1 : t = instant + 1 \/ t \in 0 .. instant
    BY <1>t
  <2>4. \A t \in 0 .. instant + 1 : Truth[t] \in Nat
    BY <1>t, <2>1, <2>3 DEF TruthInv
  <2>5. ASSUME HalfOf(instant + 1) \notin blurred, NEW t \in 0 .. instant + 1,
               HalfOf(t) = HalfOf(instant + 1)
        PROVE  Truth[t] = Truth[instant + 1]
    <3>1. CASE t = instant + 1
      BY <3>1
    <3>2. CASE t \in 0 .. instant
      <4>1. HalfOf(t) \in Nat /\ HalfOf(instant) \in Nat
        BY <1>t, <3>2, Halves
      <4>2. HalfOf(instant) = HalfOf(instant + 1)
        BY <2>1, <2>5, <3>2, <4>1
      <4> QED
        BY <2>1, <2>5, <3>2, <4>2 DEF TruthInv
    <3> QED
      BY <2>3, <3>1, <3>2
  <2> QED
    BY <2>1, <2>2, <2>4, <2>5 DEF TruthInv
<1>3. ASSUME UNCHANGED <<instant, earn, ledger>>, blurred \subseteq blurred' PROVE TruthInv'
  <2>1. Truth' = Truth /\ InEarn(earn)' = InEarn(earn) /\ HalfOf(instant)' = HalfOf(instant)
    BY <1>3 DEF Truth, InEarn, HalfOf
  <2> QED
    BY <1>3, <2>1 DEF TruthInv
<1> QED
  BY <1>1, <1>2, <1>3, StepKinds

LEMMA AnchorStep ==
  Typed /\ TellInv /\ WholeInv /\ KeptInv /\ TruthInv /\ AnchorInv /\ [AccountNext]_accountVars
    => AnchorInv'
<1> SUFFICES ASSUME Typed, TellInv, WholeInv, KeptInv, TruthInv, AnchorInv, [AccountNext]_accountVars
             PROVE  AnchorInv'
  OBVIOUS
<1>t. instant \in Nat /\ snapshot \in [Half -> Shot]
  BY InstantIs DEF Typed, StoredTypes
<1>1. ASSUME NEW i \in Item, NEW amount \in {-1, 1}, NEW from \in {-1, 0, 1}, EarnMoves(i, amount, from)
      PROVE  AnchorInv'
  <2>1. /\ \A t \in 0 .. instant - 1 : Truth'[t] = Truth[t]
        /\ UNCHANGED <<instant, snapshot>> /\ blurred' = blurred \cup {HalfOf(instant)}
    BY <1>1, EarnMoved
  <2> SUFFICES ASSUME NEW h \in Half \ blurred', snapshot[h].earn > 0, NEW t \in 0 .. instant,
                      HalfOf(t) = h
               PROVE  Truth'[t] = snapshot[h].earn
    BY <2>1 DEF AnchorInv, HalfOf
  <2>2. h \notin blurred /\ t # instant
    BY <2>1
  <2>3. t \in 0 .. instant - 1
    BY <1>t, <2>2
  <2> QED
    BY <2>1, <2>2, <2>3 DEF AnchorInv
<1>2. CASE InstantPasses
  <2>1. /\ instant' = instant + 1 /\ UNCHANGED <<snapshot, blurred>> /\ Truth' = Truth
        /\ Truth[instant + 1] = Truth[instant]
        /\ HalfOf(instant + 1) >= HalfOf(instant)
    BY <1>2, NextInstant
  <2> SUFFICES ASSUME NEW h \in Half \ blurred, snapshot[h].earn > 0, NEW t \in 0 .. instant + 1,
                      HalfOf(t) = h
               PROVE  Truth[t] = snapshot[h].earn
    BY <2>1 DEF AnchorInv, HalfOf
  <2>2. CASE t \in 0 .. instant
    BY <2>2 DEF AnchorInv
  <2>3. CASE t = instant + 1
    <3>1. snapshot[h] # NoSnapshot
      BY DEF NoSnapshot, Unknown
    <3>2. h <= HalfOf(instant)
      BY <3>1 DEF TellInv, Written
    <3>3. HalfOf(instant) \in Nat /\ h \in Nat
      BY <1>t, HalfIs DEF Half
    <3>4. HalfOf(instant) = h
      BY <2>1, <2>3, <3>2, <3>3
    <3>5. Truth[instant] = snapshot[h].earn
      BY <1>t, <3>4 DEF AnchorInv
    <3> QED
      BY <2>1, <2>3, <3>5
  <2> QED
    BY <1>t, <2>2, <2>3
<1>a. UNCHANGED <<instant, ledger>> => Truth' = Truth /\ \A t : HalfOf(t)' = HalfOf(t)
  BY DEF Truth, HalfOf
<1>3. ASSUME UNCHANGED <<instant, earn, ledger, snapshot>>, blurred \subseteq blurred' PROVE AnchorInv'
  BY <1>3, <1>a DEF AnchorInv
<1>4. ASSUME UNCHANGED <<instant, earn, ledger>>, blurred \subseteq blurred', ApplyRetention
      PROVE  AnchorInv'
  <2>1. \A h \in Half : snapshot'[h] \in {NoSnapshot, snapshot[h]}
    BY <1>4 DEF ApplyRetention
  <2>2. ~(NoSnapshot.earn > 0)
    BY DEF NoSnapshot, Unknown
  <2>3. \A h \in Half : snapshot'[h].earn > 0 => snapshot'[h] = snapshot[h]
    BY <2>1, <2>2
  <2> QED
    BY <1>4, <1>a, <2>3 DEF AnchorInv
<1>5. ASSUME UNCHANGED <<instant, earn, ledger>>, blurred \subseteq blurred', WriteSnapshot
      PROVE  AnchorInv'
  <2> DEFINE h == HalfOf(instant)
             value == WithEarn(run.balances, run.allocations)
  <2>1. /\ snapshot' = [snapshot EXCEPT ![h] = value]
        /\ blurred' = IF moved THEN blurred \cup {h} ELSE blurred
        /\ run.step = FinalStep - 1
    BY <1>5, AtIs, StepNames DEF WriteSnapshot
  <2>2. run.step > 2 /\ run.step > 3
    BY <2>1, StepsAre
  <2>3. h \notin blurred' => ~moved /\ value = Whole
    <3> SUFFICES ASSUME h \notin blurred' PROVE ~moved /\ value = Whole
      OBVIOUS
    <3>1. ~moved
      BY <2>1
    <3> QED
      BY <2>2, <3>1, WithEarnIs DEF WholeInv
  <2>4. \A k \in Half : snapshot'[k] = IF k = h THEN value ELSE snapshot[k]
    BY <1>t, <2>1
  <2>5. Truth[instant] = Whole.earn
    BY DEF Whole, TruthInv
  <2> SUFFICES ASSUME NEW k \in Half \ blurred', snapshot'[k].earn > 0, NEW t \in 0 .. instant,
                      HalfOf(t) = k
               PROVE  Truth[t] = snapshot'[k].earn
    BY <1>5, <1>a DEF AnchorInv
  <2>6. CASE k = h
    <3>1. h \notin blurred' /\ h \notin blurred
      BY <1>5, <2>6
    <3>2. snapshot'[k] = Whole
      BY <2>3, <2>4, <2>6, <3>1
    <3>3. Truth[t] = Truth[instant]
      BY <2>6, <3>1 DEF TruthInv
    <3> QED
      BY <2>5, <3>2, <3>3
  <2>7. CASE k # h
    BY <1>5, <2>4, <2>7 DEF AnchorInv
  <2> QED
    BY <2>6, <2>7
<1> QED
  BY <1>1, <1>2, <1>3, <1>4, <1>5, StepKinds

\* What the Earn page shows at each instant.
LEMMA QuantityIs ==
  ASSUME Typed
  PROVE  \A t \in Instant :
           Quantity[t] = IF Anchors(t) THEN snapshot[HalfOf(t)].earn
                         ELSE Applied(IF t = 0 THEN (IF complete THEN 0 ELSE Unknown)
                                      ELSE Quantity[t - 1], kept[t])
<1>0. MaxInstant \in Nat /\ Instant = 0 .. MaxInstant /\ kept \in [Instant -> Int]
  BY InstantIs DEF Typed, StoredTypes
<1> DEFINE shown(t) == snapshot[HalfOf(t)].earn
           initial == IF complete THEN 0 ELSE Unknown
           made(t, before) == IF Anchors(t) THEN shown(t) ELSE Applied(before, kept[t])
           body(f) == [t \in Instant |-> made(t, IF t = 0 THEN initial ELSE f[t - 1])]
           F == [x \in (1 .. MaxInstant) \X Int |-> made(x[1], x[2])]
<1>1. ASSUME NEW t \in Instant, NEW before \in Int PROVE made(t, before) \in Int
  <2>1. Anchors(t) => shown(t) \in Int
    <3> SUFFICES ASSUME Anchors(t) PROVE shown(t) \in Int
      OBVIOUS
    <3>1. HalfOf(t) \in Half
      <4>1. t \in Nat /\ t <= MaxInstant
        BY <1>0
      <4>2. HalfOf(t) \in Nat /\ HalfOf(t) <= HalfOf(MaxInstant) /\ HalfOf(MaxInstant) \in Nat
        BY <1>0, <4>1, Halves
      <4>3. Half = 0 .. HalfOf(MaxInstant)
        BY DEF Half, HalfOf
      <4> QED
        BY <4>2, <4>3
    <3> QED
      BY <3>1 DEF Typed, StoredTypes, Shot, Unknown
  <2>2. Applied(before, kept[t]) \in Int
    BY <1>0 DEF Applied, Unknown
  <2> QED
    BY <2>1, <2>2
<1>2. initial \in Int
  BY DEF Unknown
<1> HIDE DEF initial, made
<1>3. F \in [(1 .. MaxInstant) \X Int -> Int]
  BY <1>0, <1>1
<1>4. made(0, initial) \in Int
  BY <1>0, <1>1, <1>2
<1> HIDE DEF F
<1>5. PICK f \in [0 .. MaxInstant -> Int] :
        f[0] = made(0, initial) /\ \A t \in 1 .. MaxInstant : f[t] = F[<<t, f[t - 1]>>]
  BY <1>0, <1>3, <1>4, PrefixExists
<1>6. ASSUME NEW t \in Instant PROVE f[t] = body(f)[t]
  <2>1. CASE t = 0
    BY <1>5, <2>1
  <2>2. CASE t # 0
    <3>1. t \in 1 .. MaxInstant /\ t - 1 \in 0 .. MaxInstant
      BY <1>0, <2>2
    <3>2. f[t - 1] \in Int
      BY <3>1
    <3>3. F[<<t, f[t - 1]>>] = made(t, f[t - 1])
      BY <3>1, <3>2 DEF F
    <3> QED
      BY <1>5, <2>2, <3>1, <3>3
  <2> QED
    BY <2>1, <2>2
<1>7. f = body(f)
  BY <1>0, <1>6
<1> DEFINE Q == Quantity
<1>8. Q = CHOOSE g : g = body(g)
  BY DEF Quantity, made, initial
<1>9. Q = body(Q)
  <2> HIDE DEF body, Q
  <2> QED
    BY <1>7, <1>8
<1> HIDE DEF Q
<1>10. \A t \in Instant : Q[t] = made(t, IF t = 0 THEN initial ELSE Q[t - 1])
  BY <1>9
<1> QED
  BY <1>10 DEF Q, made, initial

LEMMA GreatestNumber ==
  ASSUME NEW n \in Nat, NEW A \in SUBSET (0 .. n), A # {}
  PROVE  Max(A) \in A /\ \A x \in A : x <= Max(A)
<1> DEFINE N == {k \in Nat : \A S \in SUBSET (0 .. k) : S # {} => \E m \in S : \A x \in S : m >= x}
<1>1. 0 \in N
  <2> SUFFICES ASSUME NEW S \in SUBSET (0 .. 0), S # {} PROVE \E m \in S : \A x \in S : m >= x
    OBVIOUS
  <2>1. \A x \in S : x = 0
    OBVIOUS
  <2>2. PICK y \in S : TRUE
    OBVIOUS
  <2>3. \A x \in S : y >= x
    BY <2>1
  <2> QED
    BY <2>2, <2>3
<1>2. ASSUME NEW k \in Nat, k \in N PROVE k + 1 \in N
  <2> SUFFICES ASSUME NEW S \in SUBSET (0 .. k + 1), S # {} PROVE \E m \in S : \A x \in S : m >= x
    OBVIOUS
  <2>1. CASE k + 1 \in S
    BY <2>1
  <2>2. CASE k + 1 \notin S
    <3>1. S \in SUBSET (0 .. k)
      BY <2>2
    <3> QED
      BY <1>2, <3>1
  <2> QED
    BY <2>1, <2>2
<1> HIDE DEF N
<1>3. n \in N
  BY <1>1, <1>2, NaturalsReached
<1>4. \E m \in A : \A x \in A : m >= x
  BY <1>3 DEF N
<1>5. Max(A) \in A /\ \A x \in A : Max(A) >= x
  BY <1>4 DEF Max
<1> QED
  BY <1>5

\* Where it is right and no snapshot follows, it stays right, as long as the
\* movements imported are those of the ledger.
LEMMA QuantityFollows ==
  ASSUME Typed, TruthInv, NEW n \in 0 .. instant, NEW b \in 0 .. n, Quantity[b] = Truth[b],
         \A u \in b + 1 .. n : ~Anchors(u) /\ kept[u] = ledger[u]
  PROVE  Quantity[n] = Truth[n]
<1> DEFINE N == {t \in Nat : b <= t /\ t <= n => Quantity[t] = Truth[t]}
<1>t. /\ instant \in Nat /\ instant \in Instant /\ Instant = 0 .. MaxInstant /\ MaxInstant \in Nat
      /\ ledger \in [Instant -> Int]
  BY InstantIs DEF Typed, AccountTypes
<1>0. b \in Nat /\ n \in Nat /\ n <= instant
  BY <1>t
<1>1. 0 \in N
  BY <1>0
<1>2. ASSUME NEW t \in Nat, t \in N PROVE t + 1 \in N
  <2> SUFFICES ASSUME b <= t + 1, t + 1 <= n PROVE Quantity[t + 1] = Truth[t + 1]
    OBVIOUS
  <2>1. CASE t + 1 = b
    BY <2>1
  <2>2. CASE t + 1 # b
    <3>1. /\ b <= t /\ t <= n /\ t + 1 \in b + 1 .. n /\ t + 1 \in Instant \ {0} /\ (t + 1) - 1 = t
          /\ t + 1 # 0 /\ t \in 0 .. instant /\ t + 1 \in 0 .. instant
      BY <1>0, <1>t, <2>2
    <3>2. Quantity[t] = Truth[t] /\ Truth[t] \in Nat /\ Truth[t + 1] \in Nat
      BY <1>2, <3>1 DEF TruthInv
    <3>3. Quantity[t + 1] = Applied(Quantity[t], kept[t + 1])
      <4>1. Quantity[t + 1] = IF Anchors(t + 1) THEN snapshot[HalfOf(t + 1)].earn
                              ELSE Applied(IF t + 1 = 0 THEN (IF complete THEN 0 ELSE Unknown)
                                           ELSE Quantity[(t + 1) - 1], kept[t + 1])
        BY <3>1, QuantityIs
      <4> QED
        BY <3>1, <4>1
    <3>4. Truth[t + 1] = ledger[t + 1] + Truth[t]
      <4>1. Truth[t + 1] = ledger[t + 1] + Truth[(t + 1) - 1]
        BY <3>1, TruthIs
      <4> QED
        BY <3>1, <4>1
    <3>5. kept[t + 1] = ledger[t + 1] /\ ledger[t + 1] \in Int
      BY <1>t, <3>1
    <3>6. Applied(Truth[t], ledger[t + 1]) = Truth[t] + ledger[t + 1]
      BY <3>2, <3>4, <3>5 DEF Applied, Unknown
    <3> QED
      BY <3>2, <3>3, <3>4, <3>5, <3>6
  <2> QED
    BY <2>1, <2>2
<1> HIDE DEF N
<1>3. n \in N
  BY <1>0, <1>1, <1>2, NaturalsReached
<1> QED
  BY <1>0, <1>3 DEF N

LEMMA EarnShown == Typed /\ KeptInv /\ TruthInv /\ AnchorInv => EarnAgrees
<1> SUFFICES ASSUME Typed, KeptInv, TruthInv, AnchorInv, complete, NEW t \in 0 .. instant,
                    Settled(t), Clear(t)
             PROVE  Quantity[t] = Truth[t]
  BY DEF EarnAgrees
<1>t. /\ instant \in Nat /\ instant \in Instant /\ Instant = 0 .. MaxInstant /\ MaxInstant \in Nat
      /\ ledger \in [Instant -> Int]
  BY InstantIs DEF Typed, AccountTypes
<1>0. t \in Nat /\ t <= instant
  BY <1>t
<1>1. \A u \in 0 .. t : kept[u] = ledger[u]
  <2>1. CASE kept = ledger
    BY <2>1
  <2>2. CASE \E v \in t + 1 .. instant : kept[v] # 0
    <3>1. PICK v \in t + 1 .. instant : kept[v] # 0
      BY <2>2
    <3>2. v \in Instant /\ \A u \in 0 .. t : u \in Instant /\ u < v
      BY <1>0, <1>t
    <3> QED
      BY <3>1, <3>2 DEF KeptInv
  <2> QED
    BY <2>1, <2>2 DEF Settled
<1>2. CASE LastAnchor(t) = {}
  <2>1. \A u \in 0 .. t : ~Anchors(u)
    BY <1>2 DEF LastAnchor
  <2>2. 0 \in 0 .. t /\ 0 \in Instant /\ 0 \in 0 .. instant
    BY <1>0, <1>t
  <2>3. Quantity[0] = Applied(0, kept[0])
    BY <2>1, <2>2, QuantityIs
  <2>4. kept[0] = ledger[0] /\ ledger[0] = Truth[0] /\ Truth[0] \in Nat
    BY <1>1, <2>2, TruthIs DEF TruthInv
  <2>5. Quantity[0] = Truth[0]
    BY <2>3, <2>4 DEF Applied, Unknown
  <2>6. \A u \in 0 + 1 .. t : u \in 0 .. t
    BY <1>0
  <2> QED
    BY <1>1, <2>1, <2>2, <2>5, <2>6, QuantityFollows
<1>3. CASE LastAnchor(t) # {}
  <2> DEFINE m == Max(LastAnchor(t))
  <2>1. LastAnchor(t) \subseteq 0 .. t
    BY DEF LastAnchor
  <2>2. m \in LastAnchor(t) /\ \A u \in LastAnchor(t) : u <= m
    BY <1>0, <1>3, <2>1, GreatestNumber
  <2>3. HalfOf(m) \notin blurred
    BY <1>3 DEF Clear
  <2> HIDE DEF m
  <2>4. m \in 0 .. t /\ Anchors(m) /\ m \in Nat /\ m \in 0 .. instant /\ m \in Instant
    BY <1>0, <1>t, <2>2 DEF LastAnchor
  <2>5. HalfOf(m) \in Half
    <3>1. HalfOf(m) \in Nat /\ HalfOf(m) <= HalfOf(MaxInstant) /\ HalfOf(MaxInstant) \in Nat
      BY <1>t, <2>4, Halves
    <3>2. Half = 0 .. HalfOf(MaxInstant)
      BY DEF Half, HalfOf
    <3> QED
      BY <3>1, <3>2
  <2>6. snapshot[HalfOf(m)].earn > 0
    BY <2>4 DEF Anchors
  <2>7. Quantity[m] = snapshot[HalfOf(m)].earn
    BY <2>4, QuantityIs
  <2>8. Truth[m] = snapshot[HalfOf(m)].earn
    BY <2>3, <2>4, <2>5, <2>6 DEF AnchorInv
  <2>9. ASSUME NEW u \in m + 1 .. t PROVE ~Anchors(u) /\ kept[u] = ledger[u]
    <3>1. u \in 0 .. t /\ ~(u <= m)
      BY <1>0, <2>4
    <3>2. u \notin LastAnchor(t)
      BY <2>2, <3>1
    <3> QED
      BY <1>1, <3>1, <3>2 DEF LastAnchor
  <2> QED
    BY <2>4, <2>7, <2>8, <2>9, QuantityFollows
<1> QED
  BY <1>2, <1>3

-----------------------------------------------------------------------------
(* The theorems                                                             *)

AccountInv ==
  /\ Typed
  /\ SeenInv /\ ListingInv
  /\ TellInv
  /\ WholeInv
  /\ KeptInv /\ TruthInv /\ AnchorInv

LEMMA AccountHolds == AccountSpec => []AccountInv
<1>1. AccountInit => AccountInv
  <2> SUFFICES ASSUME AccountInit PROVE AccountInv
    OBVIOUS
  <2>1. Typed
    BY AccountTypedInit
  <2>2. /\ instant = 0 /\ snapshot = [h \in Half |-> NoSnapshot] /\ told /\ run = Resting
        /\ blurred = {} /\ complete = FALSE /\ earn = [i \in Item |-> 0]
        /\ ledger = [t \in Instant |-> 0] /\ kept = [t \in Instant |-> 0]
        /\ seen = [e \in Lists |-> [i \in Item |-> Absent]]
    BY DEF AccountInit
  <2>3. /\ run.step = 0 /\ run.page = 0 /\ run.ids = {} /\ run.changed = FALSE /\ run.differs = FALSE
        /\ run.allocations = [i \in Item |-> 0]
    BY <2>2 DEF Resting
  <2>4. run.step # FinalStep /\ ~(run.step > 2) /\ run.step # 3 /\ ~(run.step > 3)
    BY <2>3, StepsAre
  <2>5. SeenInv
    BY <2>2 DEF SeenInv, Absent
  <2>6. ListingInv
    BY <2>3 DEF ListingInv, At
  <2>7. TellInv
    BY <2>2, <2>3, <2>4 DEF TellInv, Written
  <2>8. WholeInv
    BY <2>3, <2>4 DEF WholeInv
  <2>9. KeptInv
    BY <2>2 DEF KeptInv
  <2>10. AnchorInv
    BY <2>2 DEF AnchorInv, NoSnapshot, Unknown
  <2>11. TruthInv
    <3>1. 0 \in Instant
      BY <2>1, <2>2, InstantIs
    <3>2. Truth[0] = 0
      BY <2>1, <2>2, <3>1, TruthIs
    <3>3. InEarn(earn) = 0
      BY <2>2, SumZero, AccountAssumptions DEF InEarn
    <3>4. \A t \in 0 .. instant : t = 0
      BY <2>2
    <3> QED
      BY <2>2, <3>2, <3>3, <3>4 DEF TruthInv
  <2> QED
    BY <2>1, <2>5, <2>6, <2>7, <2>8, <2>9, <2>10, <2>11 DEF AccountInv
<1>2. AccountInv /\ [AccountNext]_accountVars => AccountInv'
  <2> SUFFICES ASSUME AccountInv, [AccountNext]_accountVars PROVE AccountInv'
    OBVIOUS
  <2>1. Typed /\ SeenInv /\ ListingInv /\ TellInv /\ WholeInv /\ KeptInv /\ TruthInv /\ AnchorInv
    BY DEF AccountInv
  <2>2. Typed' /\ SeenInv' /\ ListingInv' /\ TellInv'
    BY <2>1, AccountTyped, SeenStep, ListingStep, TellStep
  <2>3. WholeInv' /\ KeptInv' /\ TruthInv' /\ AnchorInv'
    BY <2>1, WholeStep, KeptStep, TruthStep, AnchorStep
  <2> QED
    BY <2>2, <2>3 DEF AccountInv
<1> QED
  BY <1>1, <1>2, PTL DEF AccountSpec

(***************************************************************************)
(* The account, what is stored of it and the run under way keep their      *)
(* types, whatever the endpoints list and however many there are.          *)
(***************************************************************************)
THEOREM AccountIsTyped == AccountSpec => []AccountTypeOK
<1>1. AccountInv => AccountTypeOK
  BY TypedMeans DEF AccountInv
<1> QED
  BY <1>1, AccountHolds, PTL

(***************************************************************************)
(* A snapshot written while nothing moves is the whole account, Earn       *)
(* counted once; and the Earn page shows what was in Earn wherever the     *)
(* ledger is imported and no movement came close to the snapshot it starts *)
(* from (kraken.ts: writeSnapshot, includeKrakenEarnBalances, the Earn     *)
(* series).                                                                *)
(***************************************************************************)
THEOREM AccountIsTrue == AccountSpec => []AccountTrue
<1>1. AccountInv => AccountTrue
  BY WholeShown, EarnShown DEF AccountInv, AccountTrue
<1> QED
  BY <1>1, AccountHolds, PTL

(***************************************************************************)
(* A page of an endpoint never records as absent what is listed all along, *)
(* and a whole walk leaves present exactly what is listed (kraken.ts: the  *)
(* observations of each endpoint, page by page).                           *)
(***************************************************************************)
THEOREM ListingIsKeptAlways == AccountSpec => ListingKept
<1>1. AccountInv /\ [AccountNext]_accountVars =>
        [\A e \in Lists : (At(e) /\ run' # run /\ failures' = failures) =>
           \A i \in Item \ churned :
             LET ends == run'.step = run.step + 1 /\ ~run.warned
                 present == seen'[e][i].present
             IN /\ (i \in Listed(e) /\ (ends \/ seen[e][i].present)) => present
                /\ (i \notin Listed(e) /\ ends /\ Policy[e].marks) => ~present]_accountVars
  BY ListingIsKept DEF AccountInv
<1> QED
  BY <1>1, AccountHolds, PTL DEF AccountSpec, ListingKept

(***************************************************************************)
(* A run that ends well leaves the graphs told of all that is stored,      *)
(* unless an attempt of its half hour had failed (kraken.ts: the change a  *)
(* result names, from the snapshot and the fingerprint).                   *)
(***************************************************************************)
THEOREM AllIsTold == AccountSpec => AllTold
<1>1. AccountInv /\ [AccountNext]_accountVars =>
        [(At("announce") /\ run'.step = 0 /\ failures' = failures)
           => told' \/ spoilt \cap {run.half, HalfOf(instant)} # {}]_accountVars
  <2> SUFFICES ASSUME AccountInv, AccountNext, At("announce"), run'.step = 0, failures' = failures
               PROVE  told' \/ spoilt \cap {run.half, HalfOf(instant)} # {}
    OBVIOUS
  <2>1. Typed /\ TellInv
    BY DEF AccountInv
  <2>2. run.step = FinalStep /\ FinalStep \in Nat /\ FinalStep >= 6
    BY <2>1, AtIs, StepNames, StepsAre
  <2>3. Announce
    <3>1. run' # run
      BY <2>2
    <3>2. /\ \A e \in Lists : ~At(e)
          /\ ~At("ledgers") /\ ~At("balances") /\ ~At("strategies") /\ ~At("snapshot")
      <4>1. run.step \in 1 .. FinalStep /\ Steps[run.step] = "announce" /\ run.step # 0
        BY <2>2, StepsAre
      <4> QED
        BY <4>1, ListsAre DEF At
    <3>3. failures \in Nat
      BY <2>1, AccountAssumptions DEF Typed, MarkTypes
    <3>4. ~Ends
      BY <3>3 DEF Ends
    <3>5. ~ProcessEnds /\ ~LedgersFail
      BY <3>4 DEF ProcessEnds, LedgersFail
    <3>6. ~(\E e \in Lists : ReadPage(e) \/ PageFails(e))
      BY <3>2 DEF ReadPage, PageFails
    <3>7. /\ ~Start /\ ~ImportLedgers /\ ~ReadBalances
          /\ ~ReadStrategies /\ ~StrategiesFail /\ ~WriteSnapshot
      BY <2>2, <3>2
         DEF Start, ImportLedgers, ReadBalances, ReadStrategies, StrategiesFail, WriteSnapshot
    <3>8. ~InstantPasses /\ ~ApplyRetention /\ ~Moves
      BY <3>1 DEF InstantPasses, ApplyRetention, Moves
    <3>9. ~(\E i \in Item : Allocate(i) \/ Deallocate(i) \/ Reward(i) \/ ListingChanges(i))
      BY <3>8 DEF Allocate, Deallocate, Reward, EarnMoves, ListingChanges
    <3>10. ~(\E amount \in {-1, 1} : SpotMoves(amount))
      BY <3>8 DEF SpotMoves
    <3> QED
      BY <3>5, <3>6, <3>7, <3>8, <3>9, <3>10, Zenon DEF AccountNext
  <2>4. told' = (told \/ Announces(run))
    BY <2>3 DEF Announce
  <2>5. told \/ run.differs \/ run.changed \/ run.half \in spoilt
    BY <2>1, <2>2 DEF TellInv
  <2> QED
    BY <2>4, <2>5 DEF Announces
<1> QED
  BY <1>1, AccountHolds, PTL DEF AccountSpec, AllTold

-----------------------------------------------------------------------------
(* Transfers: the reconciliation.                                           *)

Made == {Match(l, e) : l \in Ledger, e \in Event}

OneEach(S) == \A m, n \in S : m.event = n.event \/ m.ledger = n.ledger => m = n

\* The ledgers of `done` have the best of what the earlier ones left, and no other has any.
BestMade(S, done, events) ==
  /\ \A m \in S : m.ledger \in done /\ m.event \in events
  /\ \A l \in done : {m \in S : m.ledger = l} = {Match(l, e) : e \in Best(l, Free(l, events, S))}

\* The part of the types the argument needs.
ReconcileTypes ==
  /\ ledgers \subseteq Ledger /\ chain \subseteq Event /\ matches \subseteq Made
  /\ reconcile \in [at : {"idle", "ledgers", "read"}, source : Source \cup {""},
                    ledgers : SUBSET Ledger, events : SUBSET Event, found : SUBSET Made]
  /\ queued \subseteq Source \cup {""}

\* Before the loop nothing is found, and the ledgers are those there are, unless some
\* came since.
ReadTrue ==
  reconcile.at = "ledgers" =>
    /\ reconcile.found = {}
    /\ "ledgers" \notin unread => reconcile.ledgers = Moved

\* In the loop: what was found is in order, and made of what was read.
LoopTrue ==
  reconcile.at = "read" =>
    /\ OneEach(reconcile.found)
    /\ \A m \in reconcile.found, l \in reconcile.ledgers : Sooner(m.ledger, l)
    /\ "chain" \notin unread => reconcile.events = chain
    /\ "ledgers" \notin unread =>
         /\ reconcile.ledgers \subseteq Moved
         /\ BestMade(reconcile.found, Moved \ reconcile.ledgers, reconcile.events)
         /\ \A l \in Moved \ reconcile.ledgers, k \in reconcile.ledgers : Sooner(l, k)

StoredTrue ==
  /\ OneEach(matches)
  /\ unread = {} /\ reconcile.at = "idle" => BestMade(matches, Moved, chain)

MatchInv == ReconcileTypes /\ ReadTrue /\ LoopTrue /\ StoredTrue

-----------------------------------------------------------------------------

LEMMA Numbered ==
  \A x \in Ledger \cup Event : x.at \in Int /\ x.id \in Int
BY TransfersAssumptions

\* The order of the ledgers is one.
LEMMA SoonerStrict ==
  ASSUME NEW l \in Ledger, NEW m \in Ledger
  PROVE  ~ (Sooner(l, m) /\ Sooner(m, l))
BY Numbered DEF Sooner

\* At most one candidate is better than all the others.
LEMMA BestAlone ==
  ASSUME NEW l \in Ledger, NEW S \in SUBSET Event, NEW e \in Best(l, S), NEW f \in Best(l, S)
  PROVE  e = f
<1> SUFFICES ASSUME e # f PROVE FALSE
  OBVIOUS
<1>1. Better(l, e, f) /\ Better(l, f, e)
  BY DEF Best
<1>2. l.at \in Int /\ e.at \in Int /\ f.at \in Int /\ e.id \in Int /\ f.id \in Int
  BY Numbered DEF Best
<1>3. Apart(l.at, e.at) \in Int /\ Apart(l.at, f.at) \in Int
  BY <1>2 DEF Apart
<1> QED
  BY <1>1, <1>2, <1>3 DEF Better

LEMMA MatchMade ==
  ASSUME NEW l \in Ledger, NEW e \in Event
  PROVE  /\ Match(l, e) \in Made
         /\ Match(l, e).ledger = l /\ Match(l, e).event = e
BY DEF Match, Made

LEMMA MadeOf ==
  ASSUME NEW m \in Made
  PROVE  /\ m.ledger \in Ledger /\ m.event \in Event
         /\ m = Match(m.ledger, m.event)
BY DEF Match, Made

LEMMA MatchInit == TransfersInit => MatchInv
<1> SUFFICES ASSUME TransfersInit PROVE MatchInv
  OBVIOUS
<1>1. ReconcileTypes
  BY DEF TransfersInit, ReconcileTypes, Idle
<1>2. ReadTrue /\ LoopTrue
  BY DEF TransfersInit, ReadTrue, LoopTrue, Idle
<1>3. Moved = {}
  BY DEF TransfersInit, Moved
<1>4. StoredTrue
  BY <1>3 DEF TransfersInit, StoredTrue, OneEach, BestMade
<1> QED
  BY <1>1, <1>2, <1>4 DEF MatchInv

-----------------------------------------------------------------------------
(* The steps. *)

\* What changes neither side nor what is made of them.
LEMMA MatchFrame ==
  ASSUME MatchInv, UNCHANGED <<ledgers, chain, reconcile, matches, unread>>,
         queued' \subseteq Source \cup {""}
  PROVE  MatchInv'
<1>1. Moved' = Moved
  BY DEF Moved
<1>2. ReconcileTypes'
  BY DEF MatchInv, ReconcileTypes
<1>3. ReadTrue'
  BY <1>1 DEF MatchInv, ReadTrue
<1>4. LoopTrue'
  BY <1>1 DEF MatchInv, LoopTrue, OneEach, BestMade
<1>5. StoredTrue'
  BY <1>1 DEF MatchInv, StoredTrue, OneEach, BestMade
<1> QED
  BY <1>2, <1>3, <1>4, <1>5 DEF MatchInv

LEMMA AskingStep ==
  ASSUME MatchInv,
         (\E s \in Source : Resync(s) \/ AskReconcile(s)) \/ NextMinute
           \/ UNCHANGED transfersVars
  PROVE  MatchInv'
<1>1. UNCHANGED <<ledgers, chain, reconcile, matches, unread>>
  BY DEF Resync, AskReconcile, NextMinute, transfersVars
<1>2. queued' \subseteq Source \cup {""}
  BY DEF Resync, AskReconcile, NextMinute, transfersVars, MatchInv, ReconcileTypes
<1> QED
  BY <1>1, <1>2, MatchFrame

\* A side changes, and matches may go with it.
LEMMA SideChanges ==
  ASSUME MatchInv, UNCHANGED <<queued, reconcile>>,
         matches' \subseteq matches,
         \/ /\ ledgers' \subseteq Ledger /\ chain' = chain
            /\ unread' = unread \cup {"ledgers"}
         \/ /\ chain' \subseteq Event /\ ledgers' = ledgers
            /\ unread' = unread \cup {"chain"}
  PROVE  MatchInv'
<1>1. ReconcileTypes'
  BY DEF MatchInv, ReconcileTypes
<1>2. ledgers' # ledgers => "ledgers" \in unread'
  OBVIOUS
<1>3. chain' # chain => "chain" \in unread'
  OBVIOUS
<1>4. unread \subseteq unread' /\ unread' # {}
  OBVIOUS
<1>5. "ledgers" \notin unread' => Moved' = Moved
  BY <1>2 DEF Moved
<1>6. ReadTrue'
  BY <1>4, <1>5 DEF MatchInv, ReadTrue
<1>7. OneEach(reconcile.found) => OneEach(reconcile.found)'
  BY DEF OneEach
<1>8. LoopTrue'
  BY <1>3, <1>4, <1>5, <1>7 DEF MatchInv, LoopTrue, BestMade
<1>9. StoredTrue'
  BY <1>4 DEF MatchInv, StoredTrue, OneEach
<1> QED
  BY <1>1, <1>6, <1>8, <1>9 DEF MatchInv

LEMMA ImportingStep ==
  ASSUME MatchInv, ImportLedger \/ ImportEvent \/ DropPending \/ DeleteAddress
  PROVE  MatchInv'
<1>1. CASE ImportLedger
  <2>1. ledgers' \subseteq Ledger
    BY <1>1 DEF ImportLedger, MatchInv, ReconcileTypes
  <2> QED
    BY <1>1, <2>1, SideChanges DEF ImportLedger
<1>2. CASE ImportEvent
  <2>1. chain' \subseteq Event
    BY <1>2 DEF ImportEvent, MatchInv, ReconcileTypes
  <2> QED
    BY <1>2, <2>1, SideChanges DEF ImportEvent
<1>3. CASE DropPending
  <2>1. chain' \subseteq Event
    BY <1>3 DEF DropPending, MatchInv, ReconcileTypes
  <2>2. matches' \subseteq matches
    BY <1>3 DEF DropPending
  <2> QED
    BY <1>3, <2>1, <2>2, SideChanges DEF DropPending
<1>4. CASE DeleteAddress
  <2>1. chain' \subseteq Event
    BY <1>4 DEF DeleteAddress, MatchInv, ReconcileTypes
  <2> QED
    BY <1>4, <2>1, SideChanges DEF DeleteAddress
<1> QED
  BY <1>1, <1>2, <1>3, <1>4

LEMMA ReadLedgersStep ==
  ASSUME MatchInv, ReadLedgers
  PROVE  MatchInv'
<1>0. Moved \subseteq Ledger
  BY DEF Moved, MatchInv, ReconcileTypes
<1>1. PICK s \in queued :
        /\ queued' = queued \ {s}
        /\ reconcile' = [Idle EXCEPT !.at = "ledgers", !.source = s, !.ledgers = Moved]
  BY DEF ReadLedgers
<1>2. reconcile' = [at |-> "ledgers", source |-> s, ledgers |-> Moved, events |-> {},
                    found |-> {}]
  BY <1>1 DEF Idle
<1>3. ReconcileTypes'
  <2>1. s \in Source \cup {""} /\ queued' \subseteq Source \cup {""}
    BY <1>1 DEF MatchInv, ReconcileTypes
  <2>2. reconcile' \in [at : {"idle", "ledgers", "read"}, source : Source \cup {""},
                        ledgers : SUBSET Ledger, events : SUBSET Event, found : SUBSET Made]
    BY <1>0, <1>2, <2>1
  <2> QED
    BY <2>1, <2>2 DEF ReadLedgers, MatchInv, ReconcileTypes
<1>4. Moved' = Moved
  BY DEF ReadLedgers, Moved
<1>5. ReadTrue' /\ LoopTrue'
  BY <1>2, <1>4 DEF ReadTrue, LoopTrue
<1>6. StoredTrue'
  BY <1>2 DEF ReadLedgers, MatchInv, StoredTrue, OneEach
<1> QED
  BY <1>3, <1>5, <1>6 DEF MatchInv

LEMMA ReadEventsStep ==
  ASSUME MatchInv, ReadEvents
  PROVE  MatchInv'
<1>1. reconcile' = [at |-> "read", source |-> reconcile.source, ledgers |-> reconcile.ledgers,
                    events |-> chain, found |-> reconcile.found]
  BY DEF ReadEvents, MatchInv, ReconcileTypes
<1>2. ReconcileTypes'
  BY <1>1 DEF ReadEvents, MatchInv, ReconcileTypes
<1>3. Moved' = Moved /\ chain' = chain
  BY DEF ReadEvents, Moved
<1>4. reconcile.found = {} /\ ("ledgers" \notin unread => reconcile.ledgers = Moved)
  BY DEF ReadEvents, MatchInv, ReadTrue
<1>5. "ledgers" \notin unread' => "ledgers" \notin unread
  BY DEF ReadEvents
<1>6. LoopTrue'
  BY <1>1, <1>3, <1>4, <1>5 DEF LoopTrue, OneEach, BestMade
<1>7. ReadTrue'
  BY <1>1 DEF ReadTrue
<1>8. StoredTrue'
  BY <1>1 DEF ReadEvents, MatchInv, StoredTrue, OneEach
<1> QED
  BY <1>2, <1>6, <1>7, <1>8 DEF MatchInv

\* A ledger whose turn it is takes nothing from the ones before it.
LEMMA LoopTurn ==
  ASSUME NEW S \in SUBSET Made, NEW read \in SUBSET Ledger, NEW rest \in SUBSET read,
         NEW events \in SUBSET Event, NEW l \in rest,
         BestMade(S, read \ rest, events), \A m \in S : Sooner(m.ledger, l),
         \A k \in read \ rest : Sooner(k, l),
         NEW T, T = S \cup {Match(l, e) : e \in Best(l, Free(l, events, S))}
  PROVE  BestMade(T, read \ (rest \ {l}), events)
<1>1. l \in Ledger /\ Best(l, Free(l, events, S)) \subseteq events
  BY DEF Best, Free
<1>2. \A m \in T \ S : m.ledger = l /\ m.event \in events
  BY <1>1, MatchMade
<1>3. \A m \in T : m.ledger \in read \ (rest \ {l}) /\ m.event \in events
  BY <1>2 DEF BestMade
<1>4. \A k \in (read \ rest) \cup {l} : ~ Sooner(l, k)
  BY <1>1, SoonerStrict
<1>5. \A k \in (read \ rest) \cup {l} : Free(k, events, T) = Free(k, events, S)
  <2> SUFFICES ASSUME NEW k \in (read \ rest) \cup {l}, NEW e \in events
               PROVE  (\A m \in S : Sooner(m.ledger, k) => m.event # e)
                        <=> (\A m \in T : Sooner(m.ledger, k) => m.event # e)
    BY DEF Free
  <2> QED
    BY <1>2, <1>4
<1>6. ASSUME NEW k \in read \ rest
      PROVE  {m \in T : m.ledger = k} = {Match(k, e) : e \in Best(k, Free(k, events, T))}
  <2>1. k # l
    OBVIOUS
  <2>2. {m \in T : m.ledger = k} = {m \in S : m.ledger = k}
    BY <1>2, <2>1
  <2>3. {m \in S : m.ledger = k} = {Match(k, e) : e \in Best(k, Free(k, events, S))}
    BY DEF BestMade
  <2> QED
    BY <1>5, <2>2, <2>3
<1>7. {m \in T : m.ledger = l} = {Match(l, e) : e \in Best(l, Free(l, events, T))}
  <2>1. \A m \in S : m.ledger # l
    BY <1>1, <1>4
  <2>2. \A e \in Best(l, Free(l, events, S)) : Match(l, e).ledger = l
    BY <1>1, MatchMade
  <2>3. {m \in T : m.ledger = l} = {Match(l, e) : e \in Best(l, Free(l, events, S))}
    BY <2>1, <2>2
  <2> QED
    BY <1>5, <2>3
<1>8. \A k \in read \ (rest \ {l}) : k \in read \ rest \/ k = l
  OBVIOUS
<1>9. ASSUME NEW k \in read \ (rest \ {l})
      PROVE  {m \in T : m.ledger = k} = {Match(k, e) : e \in Best(k, Free(k, events, T))}
  <2>1. CASE k \in read \ rest
    BY <1>6, <2>1
  <2>2. CASE k = l
    BY <1>7, <2>2
  <2> QED
    BY <1>8, <2>1, <2>2
<1> QED
  BY <1>3, <1>9, Zenon DEF BestMade

\* ... and nothing that one of them has.
LEMMA TurnAlone ==
  ASSUME NEW S \in SUBSET Made, NEW l \in Ledger, NEW events \in SUBSET Event,
         OneEach(S), \A m \in S : Sooner(m.ledger, l),
         NEW T, T = S \cup {Match(l, e) : e \in Best(l, Free(l, events, S))}
  PROVE  OneEach(T) /\ T \subseteq Made /\ \A m \in T : m \in S \/ m.ledger = l
<1>1. Free(l, events, S) \subseteq Event /\ Best(l, Free(l, events, S)) \subseteq Free(l, events, S)
  BY DEF Free, Best
<1>2. \A e \in Free(l, events, S) : \A m \in S : m.event # e
  BY DEF Free
<1>3. \A m \in S : m.ledger # l
  BY SoonerStrict
<1>4. \A m \in T \ S : \E e \in Best(l, Free(l, events, S)) : m = Match(l, e)
  OBVIOUS
<1>5. \A m \in T \ S : m \in Made /\ m.ledger = l /\ m.event \in Best(l, Free(l, events, S))
  BY <1>1, <1>4, MatchMade
<1>6. \A m, n \in T \ S : m = n
  BY <1>1, <1>4, BestAlone
<1>7. \A m \in S, n \in T \ S : m.event # n.event /\ m.ledger # n.ledger
  BY <1>1, <1>2, <1>3, <1>5
<1>8. OneEach(T)
  BY <1>6, <1>7 DEF OneEach
<1> QED
  BY <1>5, <1>8

LEMMA MatchNextStep ==
  ASSUME MatchInv, MatchNext
  PROVE  MatchInv'
<1>1. PICK l \in reconcile.ledgers :
        /\ \A m \in reconcile.ledgers \ {l} : Sooner(l, m)
        /\ reconcile' = [reconcile EXCEPT !.ledgers = @ \ {l},
             !.found = @ \cup {Match(l, e) :
                                 e \in Best(l, Free(l, reconcile.events, reconcile.found))}]
  BY DEF MatchNext
<1> DEFINE S == reconcile.found
           events == reconcile.events
           T == S \cup {Match(l, e) : e \in Best(l, Free(l, events, S))}
           rest == reconcile.ledgers
<1>2. reconcile' = [at |-> "read", source |-> reconcile.source, ledgers |-> rest \ {l},
                    events |-> events, found |-> T]
  BY <1>1 DEF MatchNext, MatchInv, ReconcileTypes
<1>3. /\ OneEach(S) /\ S \subseteq Made /\ l \in Ledger /\ events \subseteq Event
      /\ rest \subseteq Ledger
      /\ \A m \in S, k \in rest : Sooner(m.ledger, k)
  BY DEF MatchNext, MatchInv, ReconcileTypes, LoopTrue
<1>4. OneEach(T) /\ T \subseteq Made /\ \A m \in T : m \in S \/ m.ledger = l
  <2>1. T = S \cup {Match(l, e) : e \in Best(l, Free(l, events, S))} /\ l \in rest
    OBVIOUS
  <2> HIDE DEF S, events, rest, T
  <2> QED
    BY <1>3, <2>1, TurnAlone
<1>5. ReconcileTypes'
  BY <1>2, <1>4 DEF MatchNext, MatchInv, ReconcileTypes
<1>6. Moved' = Moved /\ chain' = chain /\ unread' = unread /\ matches' = matches
  BY DEF MatchNext, Moved
<1>7. \A m \in T, k \in rest \ {l} : Sooner(m.ledger, k)
  BY <1>1, <1>3, <1>4
<1>8. "ledgers" \notin unread =>
        /\ rest \ {l} \subseteq Moved
        /\ BestMade(T, Moved \ (rest \ {l}), events)
        /\ \A m \in Moved \ (rest \ {l}), k \in rest \ {l} : Sooner(m, k)
  <2> SUFFICES ASSUME "ledgers" \notin unread
               PROVE  /\ rest \ {l} \subseteq Moved
                      /\ BestMade(T, Moved \ (rest \ {l}), events)
                      /\ \A m \in Moved \ (rest \ {l}), k \in rest \ {l} : Sooner(m, k)
    OBVIOUS
  <2>1. /\ rest \subseteq Moved
        /\ BestMade(S, Moved \ rest, events)
        /\ \A m \in Moved \ rest, k \in rest : Sooner(m, k)
    BY DEF MatchNext, MatchInv, LoopTrue
  <2>2. Moved \subseteq Ledger
    BY DEF Moved, MatchInv, ReconcileTypes
  <2>3. BestMade(T, Moved \ (rest \ {l}), events)
    <3> HIDE DEF S, events, rest
    <3>1. l \in rest
      BY DEF rest
    <3> QED
      BY <1>3, <2>1, <2>2, <3>1, LoopTurn
  <2>4. Moved \ (rest \ {l}) \subseteq (Moved \ rest) \cup {l}
    OBVIOUS
  <2>5. \A m \in Moved \ (rest \ {l}), k \in rest \ {l} : Sooner(m, k)
    BY <1>1, <2>1, <2>4
  <2> QED
    BY <2>1, <2>3, <2>5
<1>9. "chain" \notin unread => events = chain
  BY DEF MatchNext, MatchInv, LoopTrue
<1>10. LoopTrue'
  <2> HIDE DEF T
  <2>1. /\ reconcile'.found = T /\ reconcile'.ledgers = rest \ {l} /\ reconcile'.events = events
    BY <1>2
  <2>2. BestMade(T, Moved \ (rest \ {l}), events)
          => BestMade(reconcile.found, Moved \ reconcile.ledgers, reconcile.events)'
    BY <1>6, <2>1 DEF BestMade
  <2>3. OneEach(reconcile.found)'
    BY <1>4, <2>1 DEF OneEach
  <2> QED
    BY <1>6, <1>7, <1>8, <1>9, <2>1, <2>2, <2>3 DEF LoopTrue
<1>11. ReadTrue'
  BY <1>2 DEF ReadTrue
<1>12. StoredTrue'
  BY <1>2, <1>6 DEF MatchInv, StoredTrue, OneEach
<1> QED
  BY <1>5, <1>10, <1>11, <1>12 DEF MatchInv

LEMMA ReplaceMatchesStep ==
  ASSUME MatchInv, ReplaceMatches
  PROVE  MatchInv'
<1>1. ReconcileTypes'
  BY DEF ReplaceMatches, Idle, MatchInv, ReconcileTypes
<1>2. ReadTrue' /\ LoopTrue'
  BY DEF ReplaceMatches, Idle, ReadTrue, LoopTrue
<1>3. Moved' = Moved /\ chain' = chain /\ unread' = unread /\ matches' = reconcile.found
  BY DEF ReplaceMatches, Moved
<1>4. OneEach(matches)'
  BY <1>3 DEF ReplaceMatches, MatchInv, LoopTrue, OneEach
<1>5. ASSUME unread = {} PROVE BestMade(matches, Moved, chain)'
  <2>1. BestMade(reconcile.found, Moved \ reconcile.ledgers, reconcile.events)
    BY <1>5 DEF ReplaceMatches, MatchInv, LoopTrue
  <2>2. Moved \ reconcile.ledgers = Moved /\ reconcile.events = chain
    BY <1>5 DEF ReplaceMatches, MatchInv, LoopTrue
  <2>3. BestMade(reconcile.found, Moved, chain)
    BY <2>1, <2>2
  <2> QED
    BY <1>3, <2>3 DEF BestMade
<1>6. StoredTrue'
  BY <1>3, <1>4, <1>5 DEF StoredTrue
<1> QED
  BY <1>1, <1>2, <1>6 DEF MatchInv

LEMMA ReconcileCrashStep ==
  ASSUME MatchInv, Crash
  PROVE  MatchInv'
<1>1. ReconcileTypes'
  <2>1. reconcile' = Idle
    BY DEF Crash
  <2>2. reconcile' \in [at : {"idle", "ledgers", "read"}, source : Source \cup {""},
                        ledgers : SUBSET Ledger, events : SUBSET Event, found : SUBSET Made]
    BY <2>1 DEF Idle
  <2>3. UNCHANGED <<ledgers, chain, matches>> /\ queued' = queued \cup {reconcile.source}
    BY DEF Crash
  <2>4. queued' \subseteq Source \cup {""}
    BY <2>3 DEF MatchInv, ReconcileTypes
  <2> QED
    BY <2>2, <2>3, <2>4 DEF MatchInv, ReconcileTypes
<1>2. ReadTrue' /\ LoopTrue'
  BY DEF Crash, Idle, ReadTrue, LoopTrue
<1>3. StoredTrue'
  BY DEF Crash, MatchInv, StoredTrue, OneEach
<1> QED
  BY <1>1, <1>2, <1>3 DEF MatchInv

LEMMA MatchStep == MatchInv /\ [TransfersNext]_transfersVars => MatchInv'
<1> SUFFICES ASSUME MatchInv, [TransfersNext]_transfersVars PROVE MatchInv'
  OBVIOUS
<1>1. CASE ImportLedger \/ ImportEvent \/ DropPending \/ DeleteAddress
  BY <1>1, ImportingStep
<1>2. CASE \/ (\E s \in Source : Resync(s) \/ AskReconcile(s)) \/ NextMinute
           \/ UNCHANGED transfersVars
  BY <1>2, AskingStep
<1>3. CASE ReadLedgers
  BY <1>3, ReadLedgersStep
<1>4. CASE ReadEvents
  BY <1>4, ReadEventsStep
<1>5. CASE MatchNext
  BY <1>5, MatchNextStep
<1>6. CASE ReplaceMatches
  BY <1>6, ReplaceMatchesStep
<1>7. CASE Crash
  BY <1>7, ReconcileCrashStep
<1> QED
  BY <1>1, <1>2, <1>3, <1>4, <1>5, <1>6, <1>7, Zenon DEF TransfersNext

LEMMA MatchInvariant == TransfersSpec => []MatchInv
<1> QED
  BY MatchInit, MatchStep, PTL DEF TransfersSpec

(***************************************************************************)
(* However ledgers and events come and go between the reads and the writes *)
(* of reconciliations, and wherever the process ends: no ledger and no     *)
(* event has two matches, and once all that changed has been reconciled,   *)
(* each ledger has the best event that the earlier ones left it.           *)
(***************************************************************************)
THEOREM ReconciliationIsTrue == TransfersSpec => []Reconciled
<1>1. MatchInv => Reconciled
  <2> SUFFICES ASSUME MatchInv PROVE Reconciled
    OBVIOUS
  <2>1. MatchedOnce
    BY DEF MatchInv, StoredTrue, OneEach, MatchedOnce
  <2>2. MatchesCurrent
    BY DEF MatchInv, StoredTrue, BestMade, MatchesCurrent, Matched
  <2> QED
    BY <2>1, <2>2 DEF Reconciled
<1> QED
  BY <1>1, MatchInvariant, PTL

=============================================================================
