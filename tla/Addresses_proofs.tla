-------------------------- MODULE Addresses_proofs --------------------------
(***************************************************************************)
(* Proofs about the tracked addresses: their synchronization, for every    *)
(* length of history, page size and set of tokens, busy addresses and      *)
(* replaced selections included, and the portfolio that counts them, for   *)
(* any entries, tokens and edits.                                          *)
(***************************************************************************)
EXTENDS AddressSync, Portfolio, FiniteSetTheorems, WellFoundedInduction, TLAPS

-----------------------------------------------------------------------------
(* Synchronization                                                          *)

\* A transaction recorded as final is settled on the chain, and so is what a
\* fetch saw settled; what it saw unsettled has not been recorded as final.
FinalityInv ==
  /\ tip \in 0 .. MaxTx /\ unsettled \subseteq 1 .. tip
  /\ selected \subseteq Token /\ got.selected \subseteq Token
  /\ recorded \in [Tx -> {"no", "pending", "finalized"}]
  /\ imported \in [Tx -> SUBSET (Token \cup {Native})]
  /\ \A t \in Tx : recorded[t] = "finalized" => t <= tip /\ t \notin unsettled
  /\ got.page \subseteq 1 .. tip
  /\ got.settled \subseteq got.page /\ got.settled \cap unsettled = {}
  /\ pc = "fetched" => \A t \in got.page \ got.settled : recorded[t] # "finalized"

LEMMA FinalityInit == Init => FinalityInv
BY Assumptions DEF Init, FinalityInv, Nothing, Tx, Native

LEMMA PagesExist ==
  ASSUME tip \in Nat, NEW c
  PROVE  Fetched(c) \subseteq 1 .. tip
BY DEF Fetched, Page, Older, Existing

LEMMA FinalityStep == FinalityInv /\ [Next]_vars => FinalityInv'
<1> SUFFICES ASSUME FinalityInv, [Next]_vars PROVE FinalityInv'
  OBVIOUS
<1> USE Assumptions DEF FinalityInv
<1>1. CASE Arrive
  <2>1. /\ tip' = tip + 1 /\ tip' \in 0 .. MaxTx /\ unsettled' \subseteq unsettled \cup {tip + 1}
        /\ UNCHANGED <<selected, recorded, imported, got, pc>>
    BY <1>1 DEF Arrive, stored
  <2>2. got.page \subseteq 1 .. tip' /\ unsettled' \subseteq 1 .. tip'
    BY <2>1
  <2>3. \A t \in Tx : recorded[t] = "finalized" => t <= tip' /\ t \notin unsettled'
    BY <2>1 DEF Tx
  <2>4. got.settled \cap unsettled' = {}
    BY <2>1
  <2> QED
    BY <2>1, <2>2, <2>3, <2>4
<1>2. ASSUME NEW t \in Tx, Settle(t) \/ Disappear(t) PROVE FinalityInv'
  BY <1>2 DEF Settle, Disappear, stored
<1>3. CASE Begin
  BY <1>3 DEF Begin, chain, stored, Nothing
<1>4. CASE ReadSelections
  <2>1. got'.page = got.page /\ got'.settled = got.settled /\ got'.selected = selected
    BY <1>4 DEF ReadSelections
  <2> QED
    BY <1>4, <2>1 DEF ReadSelections, chain, stored
<1>5. CASE Fetch
  <2>1. UNCHANGED <<tip, unsettled, recorded, imported>>
    BY <1>5 DEF Fetch, chain, stored
  <2> DEFINE p == Fetched(got.cursor)
  <2>2. p \subseteq 1 .. tip /\ got'.page = p /\ got'.settled = p \ unsettled
    BY <1>5, PagesExist DEF Fetch
  <2> HIDE DEF p
  <2>3. got'.selected = got.selected /\ selected' = selected
    BY <1>5 DEF Fetch, stored
  <2>4. \A t \in got'.page \ got'.settled : recorded'[t] # "finalized"
    <3>1. got'.page \ got'.settled \subseteq unsettled
      BY <2>2
    <3>2. unsettled \subseteq Tx
      BY DEF Tx
    <3> QED
      BY <2>1, <3>1, <3>2
  <2> QED
    BY <2>1, <2>2, <2>3, <2>4
<1>6. CASE Write
  <2>1. UNCHANGED <<tip, unsettled, selected, got>> /\ pc' = "written"
    BY <1>6 DEF Write, chain
  <2>2. recorded' \in [Tx -> {"no", "pending", "finalized"}]
    BY <1>6 DEF Write
  <2>3. imported' \in [Tx -> SUBSET (Token \cup {Native})]
    BY <1>6 DEF Write
  <2>4. \A t \in Tx : recorded'[t] = "finalized" => t <= tip /\ t \notin unsettled
    BY <1>6 DEF Write
  <2> QED
    BY <2>1, <2>2, <2>3, <2>4
<1>7. CASE Complete \/ Interrupt \/ LoseContinuation
  <2>1. UNCHANGED <<tip, unsettled, selected, recorded, imported>> /\ got' = Nothing /\ pc' = "idle"
    BY <1>7 DEF Complete, Interrupt, LoseContinuation, chain, stored
  <2>2. Nothing.page = {} /\ Nothing.settled = {} /\ Nothing.selected = {}
    BY DEF Nothing
  <2>3. got'.page = {} /\ got'.settled = {} /\ got'.selected = {}
    BY <2>1, <2>2
  <2> QED
    BY <2>1, <2>3
<1>8. ASSUME NEW S \in SUBSET Token, Replace(S) PROVE FinalityInv'
  BY <1>8 DEF Replace, chain
<1>9. CASE QueueRefresh \/ UNCHANGED vars
  BY <1>9 DEF QueueRefresh, vars, chain, stored
<1> QED
  BY <1>1, <1>2, <1>3, <1>4, <1>5, <1>6, <1>7, <1>8, <1>9 DEF Next

LEMMA FinalityStays ==
  ASSUME FinalityInv, [Next]_vars, NEW t \in Tx, recorded[t] = "finalized"
  PROVE  recorded'[t] = "finalized" /\ imported[t] \subseteq imported'[t]
<1>1. CASE Write
  <2>1. pc = "fetched" /\ (t \notin got.page \/ t \in got.settled) /\ t \notin Stale
    BY <1>1 DEF Write, FinalityInv, Stale, Pending
  <2> QED
    BY <1>1, <2>1 DEF Write, FinalityInv
<1>2. CASE ~ Write
  <2>1. UNCHANGED <<recorded, imported>>
    BY <1>2 DEF Next, Arrive, Settle, Disappear, Begin, ReadSelections, Fetch, Complete,
                Interrupt, LoseContinuation, Replace, QueueRefresh, vars, stored
  <2> QED
    BY <2>1
<1> QED
  BY <1>1, <1>2

\* Evidence stays: no sync, however its pages overlap with the ones before,
\* and no new selection takes events away from a transaction recorded as final.
THEOREM EvidenceStays == Spec => FinalityKept
<1>1. FinalityInv /\ [Next]_vars
      => [\A t \in Tx : recorded[t] = "finalized" =>
            recorded'[t] = "finalized" /\ imported[t] \subseteq imported'[t]]_vars
  BY FinalityStays
<1> QED
  BY FinalityInit, FinalityStep, <1>1, PTL DEF Spec, FinalityKept

-----------------------------------------------------------------------------
(* The type invariant                                                       *)

LEMMA LeastExists ==
  ASSUME NEW S \in SUBSET Nat, S # {}
  PROVE  Min(S) \in S /\ \A x \in S : Min(S) <= x
<1>1. PICK b \in S : \A x \in S : ~ (<<x, b>> \in OpToRel(<, Nat))
  BY NatLessThanWellFounded, WFMin
<1>2. \A x \in S : x \in Nat /\ b \in Nat /\ ~ (x < b)
  BY <1>1 DEF OpToRel
<1>3. \A x \in S : b =< x
  BY <1>2
<1> QED
  BY <1>3 DEF Min

LEMMA GreatestExists ==
  ASSUME NEW n \in Nat, NEW S \in SUBSET (0 .. n), S # {}
  PROVE  Max(S) \in S /\ \A x \in S : x <= Max(S)
<1> DEFINE T == {n - x : x \in S}
<1>1. T \in SUBSET Nat /\ T # {}
  <2>1. PICK x \in S : TRUE
    OBVIOUS
  <2>2. n - x \in T
    BY <2>1
  <2>3. \A x0 \in S : x0 \in 0 .. n /\ n - x0 \in Nat
    OBVIOUS
  <2> QED
    BY <2>2, <2>3
<1>2. Min(T) \in T /\ \A y \in T : Min(T) <= y
  <2> HIDE DEF T
  <2> QED BY <1>1, LeastExists
<1>3. PICK b \in S : Min(T) = n - b
  BY <1>2
<1>4. \A x \in S : n - b <= n - x
  BY <1>2, <1>3
<1>5. \A x \in S : b >= x
  BY <1>4
<1> QED
  BY <1>5 DEF Max

\* A page holds the newest transactions of S: all of them if it is not full.
LEMMA PageShows ==
  ASSUME NEW n \in Nat, NEW S \in SUBSET (1 .. n)
  PROVE  /\ Page(S) \subseteq S
         /\ \A t \in S, u \in Page(S) : u <= t => t \in Page(S)
         /\ \A t \in S : n - t < PageSize => t \in Page(S)
         /\ Cardinality(Page(S)) < PageSize => Page(S) = S
         /\ Page(S) = {} => S = {}
<1> DEFINE newer(t) == {v \in S : v > t}
<1> USE Assumptions
<1>0. \A v \in S : v \in Int /\ 1 <= v /\ v <= n
  OBVIOUS
<1>1. IsFiniteSet(S) /\ \A T \in SUBSET S : IsFiniteSet(T) /\ Cardinality(T) \in Nat
  <2>1. IsFiniteSet(1 .. n)
    BY FS_Interval
  <2> QED
    BY <2>1, FS_Subset, FS_CardinalityType
<1>2. Page(S) \subseteq S
  BY DEF Page
<1>3. ASSUME NEW t \in S, NEW u \in Page(S), u <= t PROVE t \in Page(S)
  <2>1. newer(t) \subseteq newer(u)
    <3>1. u \in S
      BY <1>2
    <3>2. \A v \in S : v > t => v > u
      BY <1>0, <1>3, <3>1
    <3> QED
      BY <3>2
  <2>2. Cardinality(newer(t)) <= Cardinality(newer(u))
    <3> HIDE DEF newer
    <3>1. newer(u) \subseteq S
      BY DEF newer
    <3> QED BY <1>1, <2>1, <3>1, FS_Subset
  <2>3. Cardinality(newer(u)) < PageSize
    BY DEF Page
  <2>4. Cardinality(newer(t)) \in Nat /\ Cardinality(newer(u)) \in Nat
    <3>1. newer(t) \subseteq S /\ newer(u) \subseteq S
      OBVIOUS
    <3> HIDE DEF newer
    <3> QED BY <1>1, <3>1
  <2>5. Cardinality(newer(t)) < PageSize
    <3> HIDE DEF newer
    <3> QED BY <2>2, <2>3, <2>4
  <2> QED
    BY <2>5 DEF Page
<1>4. ASSUME NEW t \in S, n - t < PageSize PROVE t \in Page(S)
  <2>0. t \in 1 .. n
    BY <1>0
  <2>1. newer(t) \subseteq (t + 1) .. n
    <3>1. \A v \in S : v > t => v \in (t + 1) .. n
      BY <1>0, <2>0
    <3> QED
      BY <3>1
  <2>2. IsFiniteSet((t + 1) .. n) /\ Cardinality((t + 1) .. n) <= n - t
    <3>1. t + 1 \in Int /\ n \in Int
      BY <2>0
    <3>2. /\ IsFiniteSet((t + 1) .. n)
          /\ Cardinality((t + 1) .. n) = IF t + 1 > n THEN 0 ELSE n - (t + 1) + 1
      BY <3>1, FS_Interval
    <3> QED
      BY <2>0, <3>2
  <2>3. Cardinality(newer(t)) <= Cardinality((t + 1) .. n)
    <3> HIDE DEF newer
    <3> QED BY <2>1, <2>2, FS_Subset
  <2>4. Cardinality(newer(t)) \in Nat /\ Cardinality((t + 1) .. n) \in Nat
    <3>1. newer(t) \subseteq S
      OBVIOUS
    <3> HIDE DEF newer
    <3> QED BY <1>1, <2>2, <3>1, FS_CardinalityType
  <2>5. Cardinality(newer(t)) < PageSize
    <3> HIDE DEF newer
    <3> QED BY <1>4, <2>2, <2>3, <2>4
  <2> QED
    BY <2>5 DEF Page
<1>5. ASSUME Cardinality(Page(S)) < PageSize PROVE Page(S) = S
  <2> SUFFICES ASSUME Page(S) # S PROVE FALSE
    OBVIOUS
  <2> DEFINE hidden == S \ Page(S)
  <2>1. hidden \in SUBSET (0 .. n) /\ hidden # {}
    <3>1. hidden # {}
      BY <1>2
    <3>2. \A v \in S : v \in 0 .. n
      OBVIOUS
    <3> QED
      BY <3>1, <3>2
  <2>2. Max(hidden) \in hidden /\ \A x \in hidden : x <= Max(hidden)
    <3> HIDE DEF hidden
    <3> QED BY <2>1, GreatestExists
  <2> DEFINE t == Max(hidden)
  <2>3. t \in S /\ t \notin Page(S) /\ \A v \in hidden : v <= t
    BY <2>2
  <2> HIDE DEF t
  <2>4. newer(t) \subseteq Page(S)
    <3>1. \A v \in S : v > t => ~ (v <= t)
      BY <1>0, <2>3
    <3>2. \A v \in S : v > t => v \notin hidden
      BY <2>3, <3>1
    <3> QED
      BY <3>2
  <2>5. Cardinality(newer(t)) <= Cardinality(Page(S))
    <3> HIDE DEF newer
    <3> QED BY <1>1, <1>2, <2>4, FS_Subset
  <2>6. Cardinality(newer(t)) \in Nat /\ Cardinality(Page(S)) \in Nat
    <3>1. newer(t) \subseteq S
      OBVIOUS
    <3> HIDE DEF newer
    <3> QED BY <1>1, <1>2, <3>1
  <2>7. Cardinality(newer(t)) < PageSize
    <3> HIDE DEF newer
    <3> QED BY <1>5, <2>5, <2>6
  <2> QED
    BY <2>3, <2>7 DEF Page
<1>6. Page(S) = {} => S = {}
  BY <1>5, FS_EmptySet
<1> QED
  BY <1>2, <1>3, <1>4, <1>5, <1>6

\* The set a page of the walk back is taken from.
Before(c) == IF Resumes(c) THEN {t \in Existing : t < c.before} ELSE Existing

LEMMA BackfillIsPage ==
  ASSUME tip \in Nat, NEW c \in CursorType
  PROVE  /\ BackfillPage(c) = Page(Before(c))
         /\ Before(c) \in SUBSET (1 .. tip) /\ Existing \in SUBSET (1 .. tip)
         /\ BackfillPage(c) \subseteq Before(c) /\ BackfillPage(c) \in SUBSET Nat
<1>1. BackfillPage(c) = Page(Before(c))
  BY DEF BackfillPage, Before, Older
<1>2. Before(c) \in SUBSET (1 .. tip) /\ Existing \in SUBSET (1 .. tip)
  BY DEF Before, Existing
<1>3. Page(Before(c)) \subseteq Before(c)
  BY <1>2, PageShows
<1> QED
  BY <1>1, <1>2, <1>3

LEMMA NextCursorType ==
  ASSUME tip \in 0 .. MaxTx, NEW c \in CursorType
  PROVE  NextCursor(c) \in CursorType
<1> USE Assumptions
<1> DEFINE p == BackfillPage(c)
<1>1. tip \in Nat /\ p \in SUBSET (1 .. tip)
  BY BackfillIsPage
<1>2. p # {} => Min(p) \in 0 .. MaxTx
  <2> HIDE DEF p
  <2>1. p \in SUBSET Nat
    BY <1>1
  <2>2. p # {} => Min(p) \in p
    BY <2>1, LeastExists
  <2>3. 1 .. tip \subseteq 0 .. MaxTx
    OBVIOUS
  <2> QED BY <1>1, <2>2, <2>3
<1>3. c.before \in 0 .. MaxTx
  BY DEF CursorType
<1> HIDE DEF p
<1>5. NextCursor(c).before \in 0 .. MaxTx
  BY <1>2, <1>3 DEF NextCursor, p
<1>6. NextCursor(c).done \in BOOLEAN
  BY DEF NextCursor
<1> QED
  BY <1>5, <1>6 DEF CursorType, NextCursor

LEMMA TypeInit == Init => TypeOK
<1> SUFFICES ASSUME Init PROVE TypeOK
  OBVIOUS
<1>1. NoCursor \in CursorType
  BY Assumptions DEF NoCursor, CursorType
<1>2. Nothing \in [cursor : CursorType, selected : SUBSET Token, page : SUBSET Tx,
              settled : SUBSET Tx, next : CursorType, walk : SUBSET Tx]
  BY <1>1 DEF Nothing
<1>3. selected \subseteq Token
  BY DEF Init
<1>4. /\ network \in Network /\ tip \in 0 .. MaxTx /\ unsettled = {} /\ gone = {}
      /\ cursor = NoCursor /\ job = "waiting" /\ pc = "idle" /\ got = Nothing
      /\ replaced = 0 /\ trouble = 0 /\ overtaken = FALSE /\ walk = {}
  BY DEF Init
<1>5. /\ recorded \in [Tx -> {"no", "pending", "finalized"}]
      /\ imported \in [Tx -> SUBSET (Token \cup {Native})]
  BY DEF Init
<1>6. 0 \in 0 .. MaxReplace /\ 0 \in 0 .. MaxTrouble
  BY Assumptions
<1> QED
  BY <1>1, <1>2, <1>3, <1>4, <1>5, <1>6 DEF TypeOK

LEMMA TypeStep == TypeOK /\ FinalityInv /\ FinalityInv' /\ [Next]_vars => TypeOK'
<1> SUFFICES ASSUME TypeOK, FinalityInv, FinalityInv', [Next]_vars PROVE TypeOK'
  OBVIOUS
<1> DEFINE GotType == [cursor : CursorType, selected : SUBSET Token, page : SUBSET Tx,
              settled : SUBSET Tx, next : CursorType, walk : SUBSET Tx]
<1>1. NoCursor \in CursorType
  BY Assumptions DEF NoCursor, CursorType
<1>2. Nothing \in GotType
  BY <1>1 DEF Nothing
<1>3. /\ tip' \in 0 .. MaxTx /\ unsettled' \subseteq Tx /\ selected' \subseteq Token
      /\ recorded' \in [Tx -> {"no", "pending", "finalized"}]
      /\ imported' \in [Tx -> SUBSET (Token \cup {Native})]
  <2>1. unsettled' \subseteq Tx
    BY Assumptions DEF FinalityInv, Tx
  <2> QED
    BY <2>1 DEF FinalityInv
<1>4. network' \in Network /\ gone' \subseteq Tx
  BY DEF TypeOK, Next, Arrive, Settle, Disappear, Begin, ReadSelections, Fetch, Write, Complete,
         Interrupt, LoseContinuation, Replace, QueueRefresh, vars, chain, stored
<1>5. cursor' \in CursorType /\ walk' \subseteq Tx
  BY <1>1 DEF TypeOK, Next, Arrive, Settle, Disappear, Begin, ReadSelections, Fetch, Write, Complete,
         Interrupt, LoseContinuation, Replace, QueueRefresh, vars, chain, stored
<1>6. /\ job' \in {"none", "waiting", "running"}
      /\ pc' \in {"idle", "begun", "chosen", "fetched", "written"}
  BY DEF TypeOK, Next, Arrive, Settle, Disappear, Begin, ReadSelections, Fetch, Write, Complete,
         Interrupt, LoseContinuation, Replace, QueueRefresh, vars, chain, stored
<1>7. replaced' \in 0 .. MaxReplace /\ trouble' \in 0 .. MaxTrouble /\ overtaken' \in BOOLEAN
  <2>1. UNCHANGED trouble \/ (trouble < MaxTrouble /\ trouble' = trouble + 1)
    BY DEF Next, Arrive, Settle, Disappear, Begin, ReadSelections, Fetch, Write,
           Complete, Interrupt, LoseContinuation, Replace, QueueRefresh, vars
  <2>2. \/ UNCHANGED <<replaced, overtaken>>
        \/ /\ replaced < MaxReplace /\ replaced' = replaced + 1
           /\ overtaken' = (pc \in {"begun", "chosen", "fetched"})
    BY DEF Next, Arrive, Settle, Disappear, Begin, ReadSelections, Fetch, Write,
           Complete, Interrupt, LoseContinuation, Replace, QueueRefresh, vars
  <2>3. /\ replaced \in 0 .. MaxReplace /\ trouble \in 0 .. MaxTrouble
        /\ overtaken \in BOOLEAN
    BY DEF TypeOK
  <2>4. trouble' \in 0 .. MaxTrouble
    BY <2>1, <2>3, Assumptions
  <2>5. replaced' \in 0 .. MaxReplace
    BY <2>2, <2>3, Assumptions
  <2>6. overtaken' \in BOOLEAN
    <3>1. (pc \in {"begun", "chosen", "fetched"}) \in BOOLEAN
      OBVIOUS
    <3> QED
      BY <2>2, <2>3, <3>1
  <2> QED
    BY <2>4, <2>5, <2>6
<1>8. got' \in GotType
  <2>1. CASE Begin
    <3>1. cursor \in CursorType
      BY DEF TypeOK
    <3>2. got' = [Nothing EXCEPT !.cursor = cursor]
      BY <2>1 DEF Begin
    <3> QED BY <1>2, <3>1, <3>2
  <2>2. CASE ReadSelections
    BY <2>2 DEF ReadSelections, TypeOK
  <2>3. CASE Fetch
    <3>1. NextCursor(got.cursor) \in CursorType
      BY NextCursorType DEF TypeOK
    <3>2. Fetched(got.cursor) \subseteq Tx
      BY PagesExist, Assumptions DEF TypeOK, Tx
    <3>3. (IF Resumes(got.cursor) THEN walk ELSE Existing \ unsettled) \subseteq Tx
      BY Assumptions DEF TypeOK, Tx, Existing
    <3>4. got \in GotType
      BY DEF TypeOK
    <3> DEFINE p == Fetched(got.cursor)
               n == NextCursor(got.cursor)
               w == IF Resumes(got.cursor) THEN walk ELSE Existing \ unsettled
    <3>5. got' = [got EXCEPT !.page = p, !.settled = p \ unsettled, !.next = n, !.walk = w]
      BY <2>3 DEF Fetch
    <3> HIDE DEF p, n, w
    <3> QED
      BY <3>1, <3>2, <3>3, <3>4, <3>5 DEF p, n, w
  <2>4. CASE UNCHANGED got \/ got' = Nothing
    BY <1>2, <2>4 DEF TypeOK
  <2> QED
    BY <2>1, <2>2, <2>3, <2>4
       DEF Next, Arrive, Settle, Disappear, Write, Complete,
           Interrupt, LoseContinuation, Replace, QueueRefresh, vars
<1> QED
  BY <1>3, <1>4, <1>5, <1>6, <1>7, <1>8 DEF TypeOK

\* The state of an address keeps its types, the cursor of the provider's
\* pages included, whatever the provider, the operator and the process do.
THEOREM SyncTyped == Spec => []TypeOK
<1>1. TypeOK /\ FinalityInv /\ [Next]_vars => (TypeOK /\ FinalityInv)'
  BY TypeStep, FinalityStep
<1> QED
  BY TypeInit, FinalityInit, <1>1, PTL DEF Spec
-----------------------------------------------------------------------------
(* The walk back over the history                                           *)

\* The transactions a cursor says are fetched.
Claimed(c) == {t \in Tx : c.done \/ (c.before # 0 /\ c.before <= t)}

\* What the latest page shows no longer, even if nothing has disappeared.
Deep(t) == PageSize <= tip - t

Settled == (1 .. tip) \ (unsettled \cup gone)
Told(t) == recorded[t] = "finalized" /\ Wanted \subseteq imported[t]
Visible(t) == recorded[t] # "no" /\ Wanted \subseteq imported[t]

\* A walk is over what is settled, and what it shows of that is settled.
SettledInv ==
  /\ gone \subseteq 1 .. tip
  /\ walk \subseteq Settled /\ got.walk \subseteq Settled
  /\ \A t \in Tx : recorded[t] # "no" => t <= tip
  /\ got.walk \cap got.page \subseteq got.settled

\* What may still disappear is on the latest page.
ReachInv ==
  ~ Busy => \A t \in unsettled \cup Pending \cup (got.page \ got.settled) : ~ Deep(t)

\* The handler works with the cursor and the selection that stand.
AttemptInv ==
  ~ overtaken =>
    /\ pc \in {"begun", "chosen", "fetched"} => got.cursor = cursor
    /\ pc \in {"chosen", "fetched"} => got.selected = selected

\* What a cursor claims of the walk is recorded as final, for what is wanted;
\* for the cursor about to be written, with the page about to be written.
WalkInv ==
  ~ overtaken /\ (~ Busy \/ network = "dogecoin") =>
    /\ \A t \in walk \cap Claimed(cursor) : Told(t)
    /\ pc = "fetched" =>
         \A t \in got.walk \cap Claimed(got.next) : t \in got.page \/ Told(t)

\* A finished walk of Bitcoin or Solana is never walked again, so that all that
\* comes later has to be seen on the latest page: of what a cursor claims, all
\* that is too old for that page is final, and all that is no newer than
\* something recorded is recorded.
TopInv ==
  ~ overtaken /\ ~ Busy /\ network # "dogecoin" =>
    /\ \A t \in Existing \cap Claimed(cursor) :
         /\ Deep(t) => Told(t)
         /\ (\E u \in Recorded : t <= u) => Visible(t)
    /\ pc = "fetched" =>
         /\ Pending \cap Existing \subseteq got.page
         /\ \A t \in Existing \cap Claimed(got.next) :
              /\ Deep(t) => t \in got.settled \/ Told(t)
              /\ (\E u \in Recorded \cup got.page : t <= u) => t \in got.page \/ Visible(t)

HistoryInv == SettledInv /\ ReachInv /\ AttemptInv /\ WalkInv /\ TopInv

\* The walk back leaves nothing out: the page of the walk has all that the next
\* cursor claims and the one before did not.
LEMMA WalkCovers ==
  ASSUME tip \in Nat, NEW c \in CursorType,
         NEW t \in Existing \cap Claimed(NextCursor(c)),
         ~ (Resumes(c) /\ t \in Claimed(c)),
         network = "dogecoin" \/ ~ c.done
  PROVE  t \in BackfillPage(c)
<1> USE Assumptions
<1> DEFINE p == BackfillPage(c)
           B == Before(c)
<1>1. B \in SUBSET (1 .. tip) /\ p = Page(B) /\ p \subseteq B /\ p \in SUBSET Nat
  BY BackfillIsPage
<1>2. t \in B
  BY DEF Before, Claimed, Resumes, CursorType, Existing
<1>3. /\ \A v \in B, u \in p : u <= v => v \in p
      /\ Cardinality(p) < PageSize => p = B
      /\ p = {} => B = {}
  BY <1>1, PageShows
<1>4. p # {}
  BY <1>2, <1>3
<1>5. Min(p) \in p /\ Min(p) \in Nat
  BY <1>1, <1>4, LeastExists
<1>6. CASE Min(p) <= t
  BY <1>2, <1>3, <1>5, <1>6
<1>7. CASE ~ (Min(p) <= t)
  <2>1. NextCursor(c).before = Min(p)
    BY <1>4 DEF NextCursor
  <2>2. NextCursor(c).done
    BY <1>7, <2>1 DEF Claimed
  <2>3. ~ More(c)
    BY <2>2 DEF NextCursor
  <2>4. network # "dogecoin"
    <3>1. t \in Existing /\ t < Min(p)
      BY <1>5, <1>7 DEF Existing
    <3> QED
      BY <1>4, <2>3, <3>1 DEF More
  <2>5. ~ (Cardinality(p) >= PageSize)
    BY <2>3, <2>4 DEF More
  <2>6. Cardinality(p) \in Nat
    <3>1. IsFiniteSet(1 .. tip) /\ p \in SUBSET (1 .. tip)
      BY <1>1, FS_Interval
    <3> QED
      BY <3>1, FS_Subset, FS_CardinalityType
  <2>7. Cardinality(p) < PageSize
    BY <2>5, <2>6
  <2> QED
    BY <1>2, <1>3, <2>7
<1> QED
  BY <1>6, <1>7

LEMMA HistoryInit == Init => HistoryInv
<1> SUFFICES ASSUME Init PROVE HistoryInv
  OBVIOUS
<1>1. /\ unsettled = {} /\ gone = {} /\ walk = {} /\ pc = "idle" /\ cursor = NoCursor
      /\ got.walk = {} /\ got.page = {} /\ got.settled = {}
      /\ \A t \in Tx : recorded[t] = "no"
  BY DEF Init, Nothing
<1>2. Claimed(cursor) = {}
  BY <1>1 DEF Claimed, NoCursor
<1>3. Pending = {}
  BY <1>1 DEF Pending
<1> QED
  BY <1>1, <1>2, <1>3 DEF HistoryInv, SettledInv, ReachInv, AttemptInv, WalkInv, TopInv

\* The chain moves on.
LEMMA HistoryChain ==
  ASSUME TypeOK, FinalityInv, HistoryInv,
         Arrive \/ \E t \in Tx : Settle(t) \/ Disappear(t)
  PROVE  HistoryInv'
<1> USE Assumptions
<1>1. /\ UNCHANGED <<network, selected, cursor, recorded, imported, job, pc, got, overtaken, walk>>
      /\ tip' = tip \/ tip' = tip + 1
      /\ tip \in Nat /\ PageSize \in Nat \ {0}
  BY DEF Arrive, Settle, Disappear, stored, TypeOK
<1>2. unsettled \subseteq 1 .. tip /\ gone \subseteq 1 .. tip /\ Existing \subseteq 1 .. tip
  BY DEF FinalityInv, HistoryInv, SettledInv, Existing
<1>3. /\ UNCHANGED <<Wanted, Recorded, Pending>>
      /\ \A t \in Tx : (Told(t)' <=> Told(t)) /\ (Visible(t)' <=> Visible(t))
      /\ Claimed(cursor)' = Claimed(cursor) /\ Claimed(got.next)' = Claimed(got.next)
  BY <1>1 DEF Wanted, Recorded, Pending, Told, Visible, Claimed
<1>4. CASE Arrive
  <2> DEFINE n == tip + 1
  <2>1. /\ tip' = n /\ gone' = gone /\ unsettled \subseteq unsettled'
        /\ unsettled' \subseteq unsettled \cup {n} /\ n \in Tx
        /\ Busy \/ InReach
    BY <1>4 DEF Arrive, TypeOK, Tx
  <2>2. Settled \subseteq Settled' /\ Existing' \subseteq Existing \cup {n}
    <3>1. (1 .. tip) \subseteq (1 .. n) /\ n \notin 1 .. tip /\ 1 .. n = (1 .. tip) \cup {n}
      BY <1>1
    <3> QED
      BY <2>1, <3>1 DEF Settled, Existing
  <2>3. SettledInv'
    BY <1>1, <1>2, <2>1, <2>2 DEF HistoryInv, SettledInv, Tx
  <2>4. ReachInv'
    <3> SUFFICES ASSUME ~ Busy,
                        NEW t \in unsettled' \cup Pending' \cup (got.page \ got.settled)'
                 PROVE  ~ Deep(t)'
      BY DEF ReachInv
    <3>1. t \in unsettled \cup Pending \cup (got.page \ got.settled) \/ t = n
      BY <1>1, <1>3, <2>1
    <3>2. CASE t = n
      BY <1>1, <2>1, <3>2 DEF Deep
    <3>3. CASE t \in Pending \cup unsettled \cup (got.page \ got.settled)
      <4>1. tip + 1 - t < PageSize
        BY <2>1, <3>3 DEF InReach
      <4>2. t \in Nat
        BY <3>3 DEF TypeOK, Tx, Pending
      <4> QED
        BY <1>1, <2>1, <4>1, <4>2 DEF Deep
    <3> QED
      BY <3>1, <3>2, <3>3
  <2>5. AttemptInv'
    BY <1>1 DEF HistoryInv, AttemptInv
  <2>6. WalkInv'
    BY <1>1, <1>3 DEF HistoryInv, WalkInv, SettledInv, Settled, TypeOK
  <2>7. TopInv'
    <3> SUFFICES ASSUME ~ overtaken, ~ Busy, network # "dogecoin" PROVE TopInv'
      BY <1>1 DEF TopInv
    <3>1. /\ Recorded \subseteq 1 .. tip /\ got.page \subseteq 1 .. tip /\ n \notin 1 .. tip
          /\ \A u \in Recorded \cup got.page : ~ (n <= u)
      BY <1>1 DEF HistoryInv, SettledInv, FinalityInv, Recorded, Tx
    <3>2. ASSUME NEW t \in Existing, NEW S \in SUBSET (1 .. tip), Reached(S), Deep(t)'
          PROVE  \E u \in S : t <= u
      <4>1. S \cup {0} \in SUBSET (0 .. tip) /\ S \cup {0} # {}
        BY <1>1
      <4>2. Max(S \cup {0}) \in S \cup {0}
        BY <1>1, <4>1, GreatestExists
      <4>3. t \in 1 .. tip
        BY <1>2
      <4>4. PICK u \in S \cup {0} : tip + 1 - u <= PageSize
        BY <3>2, <4>2 DEF Reached
      <4>5. t <= u /\ u # 0
        BY <1>1, <2>1, <3>2, <4>1, <4>3, <4>4 DEF Deep
      <4> QED
        BY <4>4, <4>5
    <3>3. ASSUME NEW t \in Tx, Deep(t)' PROVE t \notin Pending /\ t \notin got.page \ got.settled
      <4>1. \A x \in Pending \cup unsettled \cup (got.page \ got.settled) : tip + 1 - x < PageSize
        BY <2>1 DEF InReach
      <4>2. ~ (tip + 1 - t < PageSize)
        BY <1>1, <2>1, <3>3 DEF Deep, Tx
      <4> QED
        BY <4>1, <4>2
    <3>4. Existing \subseteq Tx /\ recorded \in [Tx -> {"no", "pending", "finalized"}]
      BY <1>2 DEF TypeOK, Tx
    <3>5. \A t : t = n => ~ Deep(t)'
      BY <1>1, <2>1 DEF Deep
    <3>6. ASSUME NEW t \in Existing' \cap Claimed(cursor)'
          PROVE  /\ Deep(t)' => Told(t)'
                 /\ (\E u \in Recorded' : t <= u) => Visible(t)'
      <4>1. CASE t = n
        BY <1>3, <3>1, <3>5, <4>1, Zenon
      <4>2. CASE t \in Existing
        <5>1. t \in Existing \cap Claimed(cursor) /\ t \in Tx
          BY <1>3, <3>4, <3>6, <4>2
        <5>2. (\E u \in Recorded : t <= u) => Visible(t)
          BY <5>1, <3>2 DEF HistoryInv, TopInv
        <5>3. ASSUME Deep(t)' PROVE Told(t)
          <6>1. cursor # NoCursor
            BY <5>1 DEF Claimed, NoCursor
          <6>2. Reached(Recorded)
            BY <2>1, <6>1 DEF InReach
          <6>3. Visible(t)
            BY <3>1, <3>2, <4>2, <5>2, <5>3, <6>2
          <6>4. t \notin Pending
            BY <3>3, <5>1, <5>3
          <6> QED
            BY <3>4, <5>1, <6>3, <6>4 DEF Visible, Told, Pending
        <5> QED
          BY <1>3, <5>1, <5>2, <5>3
      <4> QED
        BY <2>2, <3>6, <4>1, <4>2
    <3>7. ASSUME pc = "fetched", NEW t \in Existing' \cap Claimed(got.next)'
          PROVE  /\ Deep(t)' => t \in got.settled \/ Told(t)'
                 /\ (\E u \in Recorded \cup got.page : t <= u) => t \in got.page \/ Visible(t)'
      <4>1. CASE t = n
        BY <3>1, <3>5, <4>1, Zenon
      <4>2. CASE t \in Existing
        <5>1. t \in Existing \cap Claimed(got.next) /\ t \in Tx
          BY <1>3, <3>4, <3>7, <4>2
        <5>2. (\E u \in Recorded \cup got.page : t <= u) => t \in got.page \/ Visible(t)
          BY <3>7, <5>1 DEF HistoryInv, TopInv
        <5>3. ASSUME Deep(t)' PROVE t \in got.settled \/ Told(t)
          <6>1. Reached(got.page)
            BY <2>1, <3>7 DEF InReach
          <6>2. t \in got.page \/ Visible(t)
            BY <3>1, <3>2, <4>2, <5>2, <5>3, <6>1
          <6>3. t \notin Pending /\ t \notin got.page \ got.settled
            BY <3>3, <5>1, <5>3
          <6> QED
            BY <3>4, <5>1, <6>2, <6>3 DEF Visible, Told, Pending
        <5> QED
          BY <1>3, <5>1, <5>2, <5>3
      <4> QED
        BY <2>2, <3>7, <4>1, <4>2
    <3>8. pc = "fetched" => Pending' \cap Existing' \subseteq got.page
      <4>1. n \notin Pending
        BY <3>1 DEF Pending, Recorded
      <4> QED
        BY <1>3, <2>2, <4>1 DEF HistoryInv, TopInv
    <3> QED
      BY <1>1, <1>3, <3>6, <3>7, <3>8 DEF TopInv
  <2> QED
    BY <2>3, <2>4, <2>5, <2>6, <2>7 DEF HistoryInv
<1>5. CASE \E t \in Tx : Settle(t) \/ Disappear(t)
  <2>1. /\ tip' = tip /\ unsettled' \subseteq unsettled
        /\ gone \subseteq gone' /\ gone' \subseteq gone \cup unsettled
    BY <1>5 DEF Settle, Disappear
  <2>2. Settled \subseteq Settled' /\ Existing' \subseteq Existing
    <3>1. unsettled' \cup gone' \subseteq unsettled \cup gone
      BY <2>1
    <3> QED
      BY <2>1, <3>1 DEF Settled, Existing
  <2>3. \A t : Deep(t)' <=> Deep(t)
    BY <2>1 DEF Deep
  <2>4. SettledInv'
    BY <1>1, <1>2, <2>1, <2>2 DEF HistoryInv, SettledInv
  <2>5. ReachInv'
    BY <1>1, <1>3, <2>1, <2>3 DEF HistoryInv, ReachInv
  <2>6. AttemptInv'
    BY <1>1 DEF HistoryInv, AttemptInv
  <2>7. WalkInv'
    BY <1>1, <1>3 DEF HistoryInv, WalkInv, TypeOK
  <2>8. TopInv'
    <3>1. Existing \subseteq Tx
      BY <1>2 DEF TypeOK, Tx
    <3> QED
      BY <1>1, <1>3, <2>2, <2>3, <3>1 DEF HistoryInv, TopInv
  <2> QED
    BY <2>4, <2>5, <2>6, <2>7, <2>8 DEF HistoryInv
<1> QED
  BY <1>4, <1>5

\* Whoever comes and goes: nothing that was written changes, and no page is out.
LEMMA HistoryAside ==
  ASSUME TypeOK, HistoryInv,
         Begin \/ ReadSelections \/ Complete \/ Interrupt \/ LoseContinuation
           \/ QueueRefresh \/ UNCHANGED vars
  PROVE  HistoryInv'
<1>1. UNCHANGED <<network, tip, unsettled, gone, selected, cursor, recorded, imported, overtaken, walk>>
  BY DEF Begin, ReadSelections, Complete, Interrupt, LoseContinuation, QueueRefresh, vars, chain, stored
<1>2. /\ UNCHANGED <<Wanted, Recorded, Pending, Settled, Existing>>
      /\ \A t : (Told(t)' <=> Told(t)) /\ (Visible(t)' <=> Visible(t)) /\ (Deep(t)' <=> Deep(t))
      /\ Claimed(cursor)' = Claimed(cursor)
  BY <1>1 DEF Wanted, Recorded, Pending, Settled, Existing, Told, Visible, Deep, Claimed
<1>3. \/ got' = got /\ pc' = pc
      \/ /\ got'.page = {} /\ got'.settled = {} /\ got'.walk = {} /\ pc' \in {"idle", "begun"}
         /\ pc' = "begun" => got'.cursor = cursor
      \/ /\ pc = "begun" /\ pc' = "chosen" /\ got' = [got EXCEPT !.selected = selected]
  BY DEF Begin, ReadSelections, Complete, Interrupt, LoseContinuation, QueueRefresh, vars, Nothing
<1>4. CASE got' = got /\ pc' = pc
  <2>1. Claimed(got.next)' = Claimed(got.next)
    BY <1>4 DEF Claimed
  <2> QED
    BY <1>1, <1>2, <1>4, <2>1
       DEF HistoryInv, SettledInv, ReachInv, AttemptInv, WalkInv, TopInv
<1>5. CASE /\ got'.page = {} /\ got'.settled = {} /\ got'.walk = {} /\ pc' \in {"idle", "begun"}
           /\ pc' = "begun" => got'.cursor = cursor
  BY <1>1, <1>2, <1>5 DEF HistoryInv, SettledInv, ReachInv, AttemptInv, WalkInv, TopInv
<1>6. CASE pc = "begun" /\ pc' = "chosen" /\ got' = [got EXCEPT !.selected = selected]
  <2>1. /\ got'.page = got.page /\ got'.settled = got.settled /\ got'.walk = got.walk
        /\ got'.cursor = got.cursor /\ got'.selected = selected
    BY <1>6 DEF TypeOK
  <2> QED
    BY <1>1, <1>2, <1>6, <2>1 DEF HistoryInv, SettledInv, ReachInv, AttemptInv, WalkInv, TopInv
<1> QED
  BY <1>3, <1>4, <1>5, <1>6

\* A new selection leaves no claim behind, or a handler that works on the old one.
LEMMA HistoryReplace ==
  ASSUME TypeOK, HistoryInv, NEW S \in SUBSET Token, Replace(S)
  PROVE  HistoryInv'
<1>1. /\ UNCHANGED <<network, tip, unsettled, gone, recorded, imported, pc, got, walk>>
      /\ cursor' = NoCursor /\ (overtaken' <=> pc \in {"begun", "chosen", "fetched"})
  BY DEF Replace, chain
<1>2. UNCHANGED <<Pending, Settled>> /\ \A t : Deep(t)' <=> Deep(t)
  BY <1>1 DEF Pending, Settled, Deep
<1>3. Claimed(cursor)' = {}
  BY <1>1 DEF Claimed, NoCursor
<1>4. SettledInv' /\ ReachInv'
  BY <1>1, <1>2 DEF HistoryInv, SettledInv, ReachInv
<1> QED
  BY <1>1, <1>3, <1>4 DEF HistoryInv, AttemptInv, WalkInv, TopInv

LEMMA HistoryFetch ==
  ASSUME TypeOK, FinalityInv, HistoryInv, Fetch
  PROVE  HistoryInv'
<1> USE Assumptions
<1> DEFINE c == got.cursor
           P == Fetched(c)
           w == IF Resumes(c) THEN walk ELSE Existing \ unsettled
<1>1. /\ UNCHANGED <<network, tip, unsettled, gone, selected, cursor, recorded, imported, overtaken, walk>>
      /\ pc = "chosen" /\ pc' = "fetched"
  BY DEF Fetch, chain, stored
<1>2. /\ got'.page = P /\ got'.settled = P \ unsettled /\ got'.next = NextCursor(c)
      /\ got'.walk = w /\ got'.cursor = c /\ got'.selected = got.selected
  BY DEF Fetch, TypeOK
<1>3. tip \in Nat /\ c \in CursorType /\ Existing \subseteq Tx /\ Existing \in SUBSET (1 .. tip)
      /\ PageSize \in Nat \ {0}
  BY DEF TypeOK, Existing, Tx
<1>4. /\ UNCHANGED <<Wanted, Recorded, Pending, Settled, Existing>>
      /\ \A t : (Told(t)' <=> Told(t)) /\ (Visible(t)' <=> Visible(t)) /\ (Deep(t)' <=> Deep(t))
      /\ Claimed(cursor)' = Claimed(cursor) /\ Claimed(got.next)' = Claimed(NextCursor(c))
  BY <1>1, <1>2 DEF Wanted, Recorded, Pending, Settled, Existing, Told, Visible, Deep, Claimed
<1>5. BackfillPage(c) \subseteq P /\ (network # "dogecoin" => Page(Existing) \subseteq P)
  BY DEF BackfillPage, Fetched
<1>6. \A t \in Existing : ~ Deep(t) => t \in Page(Existing)
  <2>1. \A t \in Existing : t \in Nat /\ (tip - t < PageSize <=> ~ Deep(t))
    BY <1>3 DEF Deep
  <2> QED
    BY <1>3, <2>1, PageShows
<1>7. w \subseteq Settled /\ w \cap unsettled = {} /\ w \subseteq Existing
  BY DEF HistoryInv, SettledInv, Settled, Existing
<1> HIDE DEF P, w
<1>8. SettledInv'
  BY <1>1, <1>2, <1>4, <1>7 DEF HistoryInv, SettledInv
<1>9. ReachInv'
  BY <1>1, <1>2, <1>4 DEF HistoryInv, ReachInv
<1>10. AttemptInv'
  BY <1>1, <1>2 DEF HistoryInv, AttemptInv
<1>11. ASSUME ~ overtaken, NEW t \in Existing \cap Claimed(NextCursor(c)),
              ~ (Resumes(c) /\ t \in Claimed(c)), network = "dogecoin" \/ ~ c.done
       PROVE  t \in P
  BY <1>3, <1>5, <1>11, WalkCovers
<1>12. ~ overtaken => c = cursor
  BY <1>1 DEF HistoryInv, AttemptInv
<1>13. ASSUME ~ overtaken, ~ Busy, network # "dogecoin", NEW t \in Existing \cap Claimed(NextCursor(c))
       PROVE  t \in P \/ Told(t)
  <2>1. CASE t \in Claimed(cursor) /\ (c.done \/ Resumes(c))
    <3>1. Deep(t) => Told(t)
      BY <1>13, <2>1 DEF HistoryInv, TopInv
    <3> QED
      BY <1>5, <1>6, <1>13, <3>1
  <2>2. CASE ~ (t \in Claimed(cursor) /\ (c.done \/ Resumes(c)))
    <3>1. ~ c.done
      BY <1>3, <1>12, <1>13, <2>2 DEF Claimed
    <3> QED
      BY <1>11, <1>12, <1>13, <2>2, <3>1
  <2> QED
    BY <2>1, <2>2
<1>14. WalkInv'
  <2> SUFFICES ASSUME ~ overtaken, ~ Busy \/ network = "dogecoin"
               PROVE  /\ \A t \in walk \cap Claimed(cursor) : Told(t)
                      /\ \A t \in w \cap Claimed(NextCursor(c)) : t \in P \/ Told(t)
    BY <1>1, <1>2, <1>4 DEF WalkInv
  <2>1. \A t \in walk \cap Claimed(cursor) : Told(t)
    BY DEF HistoryInv, WalkInv
  <2>2. ASSUME NEW t \in w \cap Claimed(NextCursor(c)) PROVE t \in P \/ Told(t)
    <3>1. CASE network # "dogecoin"
      BY <1>7, <1>13, <3>1
    <3>2. CASE network = "dogecoin" /\ ~ (Resumes(c) /\ t \in Claimed(c))
      BY <1>7, <1>11, <3>2
    <3>3. CASE Resumes(c) /\ t \in Claimed(c)
      <4>1. t \in walk \cap Claimed(cursor)
        BY <1>12, <3>3 DEF w
      <4> QED
        BY <2>1, <4>1
    <3> QED
      BY <3>1, <3>2, <3>3
  <2> QED
    BY <2>1, <2>2
<1>15. TopInv'
  <2> SUFFICES ASSUME ~ overtaken, ~ Busy, network # "dogecoin"
               PROVE  TopInv'
    BY <1>1 DEF TopInv
  <2>1. \A t \in Existing \cap Claimed(cursor) :
          /\ Deep(t) => Told(t)
          /\ (\E u \in Recorded : t <= u) => Visible(t)
    BY DEF HistoryInv, TopInv
  <2>2. Pending \cap Existing \subseteq P
    BY <1>5, <1>6 DEF HistoryInv, ReachInv
  <2>3. ASSUME NEW t \in Existing \cap Claimed(NextCursor(c))
        PROVE  /\ Deep(t) => t \in P \ unsettled \/ Told(t)
               /\ t \in P \/ Visible(t)
    <3>1. t \in P \/ Told(t)
      BY <1>13
    <3>2. Deep(t) => t \notin unsettled
      BY DEF HistoryInv, ReachInv
    <3>3. Told(t) => Visible(t)
      BY DEF Told, Visible
    <3> QED
      BY <3>1, <3>2, <3>3
  <2> QED
    BY <1>1, <1>2, <1>4, <2>1, <2>2, <2>3 DEF TopInv
<1> QED
  BY <1>8, <1>9, <1>10, <1>14, <1>15 DEF HistoryInv

LEMMA HistoryWrite ==
  ASSUME TypeOK, FinalityInv, HistoryInv, Write,
         \A t \in Tx : recorded[t] = "finalized" =>
           recorded'[t] = "finalized" /\ imported[t] \subseteq imported'[t]
  PROVE  HistoryInv'
<1>1. /\ UNCHANGED <<network, tip, unsettled, gone, selected, overtaken, got>>
      /\ cursor' = got.next /\ walk' = got.walk /\ pc = "fetched" /\ pc' = "written"
  BY DEF Write, chain
<1>2. /\ UNCHANGED <<Wanted, Settled, Existing>>
      /\ \A t : Deep(t)' <=> Deep(t)
      /\ Claimed(cursor)' = Claimed(got.next)
      /\ got.page \subseteq 1 .. tip /\ got.settled \subseteq got.page
      /\ Existing \subseteq Tx
  <2>1. UNCHANGED <<Wanted, Settled, Existing>> /\ \A t : Deep(t)' <=> Deep(t)
    BY <1>1 DEF Wanted, Settled, Existing, Deep
  <2>2. Claimed(cursor)' = Claimed(got.next)
    BY <1>1 DEF Claimed
  <2>3. got.page \subseteq 1 .. tip /\ got.settled \subseteq got.page
    BY DEF FinalityInv
  <2>4. Existing \subseteq Tx
    BY Assumptions DEF Existing, TypeOK, Tx
  <2> QED
    BY <2>1, <2>2, <2>3, <2>4
<1>3. \A t \in Tx :
        recorded'[t] = IF t \in got.settled THEN "finalized"
                       ELSE IF t \in got.page THEN "pending"
                       ELSE IF t \in Stale THEN "no" ELSE recorded[t]
  BY DEF Write
<1>4. \A t \in Tx :
        imported'[t] = IF t \in got.page THEN imported[t] \cup got.selected \cup {Native}
                       ELSE IF t \in Stale THEN {} ELSE imported[t]
  BY DEF Write
<1>5. Stale \subseteq Pending \ got.page
  BY DEF Stale
<1>6. /\ Recorded' \subseteq Recorded \cup got.page
      /\ Pending' \subseteq Pending \cup (got.page \ got.settled)
  <2>1. ASSUME NEW t \in Tx, t \notin got.page
        PROVE  recorded'[t] = recorded[t] \/ recorded'[t] = "no"
    BY <1>2, <1>3, <2>1
  <2>2. \A t \in Tx : recorded'[t] = "pending" /\ t \in got.page => t \notin got.settled
    BY <1>3
  <2> QED
    BY <2>1, <2>2 DEF Recorded, Pending
<1>7. ~ overtaken => got.selected = selected
  BY <1>1 DEF HistoryInv, AttemptInv
<1>8. \A t \in Tx : Told(t) => Told(t)'
  BY <1>2 DEF Told
<1>9. ~ overtaken => \A t \in Tx \cap got.page : Visible(t)' /\ (t \in got.settled => Told(t)')
  BY <1>2, <1>3, <1>4, <1>7 DEF Told, Visible, Wanted
<1>10. \A t \in Tx \ Stale : Visible(t) => Visible(t)'
  BY <1>2, <1>3, <1>4 DEF Visible, Wanted
<1>11. SettledInv'
  <2>1. \A t \in Tx : recorded'[t] # "no" => t \in Recorded \cup got.page
    BY <1>6 DEF Recorded
  <2>2. \A t \in Recorded \cup got.page : t <= tip
    BY <1>2 DEF HistoryInv, SettledInv, Recorded, TypeOK
  <2> QED
    BY <1>1, <1>2, <2>1, <2>2 DEF HistoryInv, SettledInv
<1>12. ReachInv'
  BY <1>1, <1>2, <1>6 DEF HistoryInv, ReachInv
<1>13. AttemptInv'
  BY <1>1 DEF HistoryInv, AttemptInv
<1>14. WalkInv'
  <2> SUFFICES ASSUME ~ overtaken, ~ Busy \/ network = "dogecoin",
                      NEW t \in got.walk \cap Claimed(got.next)
               PROVE  Told(t)'
    BY <1>1, <1>2 DEF WalkInv
  <2>1. t \in got.page \/ Told(t)
    BY <1>1 DEF HistoryInv, WalkInv
  <2>2. t \in got.page => t \in got.settled
    BY DEF HistoryInv, SettledInv
  <2>3. t \in Tx
    BY DEF Claimed
  <2> QED
    BY <1>8, <1>9, <2>1, <2>2, <2>3
<1>15. TopInv'
  <2> SUFFICES ASSUME ~ overtaken, ~ Busy, network # "dogecoin",
                      NEW t \in Existing \cap Claimed(got.next)
               PROVE  /\ Deep(t) => Told(t)'
                      /\ (\E u \in Recorded' : t <= u) => Visible(t)'
    BY <1>1, <1>2 DEF TopInv
  <2>1. /\ Deep(t) => t \in got.settled \/ Told(t)
        /\ (\E u \in Recorded \cup got.page : t <= u) => t \in got.page \/ Visible(t)
        /\ t \notin Stale
    BY <1>1, <1>5 DEF HistoryInv, TopInv
  <2>2. t \in Tx
    BY <1>2
  <2>3. Deep(t) => Told(t)'
    BY <1>2, <1>8, <1>9, <2>1, <2>2
  <2>4. (\E u \in Recorded' : t <= u) => Visible(t)'
    BY <1>6, <1>9, <1>10, <2>1, <2>2
  <2> QED
    BY <2>3, <2>4
<1> QED
  BY <1>11, <1>12, <1>13, <1>14, <1>15 DEF HistoryInv

LEMMA HistoryStep == TypeOK /\ FinalityInv /\ HistoryInv /\ [Next]_vars => HistoryInv'
<1> SUFFICES ASSUME TypeOK, FinalityInv, HistoryInv, [Next]_vars PROVE HistoryInv'
  OBVIOUS
<1>1. CASE Write
  BY <1>1, FinalityStays, HistoryWrite
<1> QED
  BY <1>1, HistoryChain, HistoryAside, HistoryReplace, HistoryFetch DEF Next

LEMMA SyncInvariant == Spec => [](TypeOK /\ FinalityInv /\ HistoryInv)
<1>1. TypeOK /\ FinalityInv /\ HistoryInv /\ [Next]_vars => (TypeOK /\ FinalityInv /\ HistoryInv)'
  BY TypeStep, FinalityStep, HistoryStep
<1> QED
  BY TypeInit, FinalityInit, HistoryInit, <1>1, PTL DEF Spec

LEMMA HistoryMeans ==
  ASSUME TypeOK, HistoryInv, ~ Busy \/ network = "dogecoin"
  PROVE  CompleteHistory
<1> SUFFICES ASSUME cursor.done, ~ overtaken, NEW t \in walk PROVE Wanted \subseteq imported[t]
  BY DEF CompleteHistory
<1>1. t \in Claimed(cursor)
  BY DEF Claimed, TypeOK
<1> QED
  BY <1>1 DEF HistoryInv, WalkInv, Told

\* A history reported complete is complete: unless transactions come faster
\* than the latest page shows them, whatever was settled when the walk back
\* began is there with the events of every selected asset.
THEOREM CompleteIsComplete ==
  ASSUME ~ Busy
  PROVE  Spec => []CompleteHistory
<1>1. TypeOK /\ FinalityInv /\ HistoryInv => CompleteHistory
  BY HistoryMeans
<1> QED
  BY SyncInvariant, <1>1, PTL

\* Dogecoin, which walks a finished history again, needs no such condition.
THEOREM DogecoinIsComplete == Spec => [](network = "dogecoin" => CompleteHistory)
<1>1. TypeOK /\ FinalityInv /\ HistoryInv => (network = "dogecoin" => CompleteHistory)
  BY HistoryMeans
<1> QED
  BY SyncInvariant, <1>1, PTL

-----------------------------------------------------------------------------
(* Sums: of nothing, and of one number                                      *)

LEMMA SumNothing == ASSUME NEW f, DOMAIN f = {} PROVE SumFunction(f) = 0
<1> DEFINE g == [s \in {{}} |-> 0]
<1> DEFINE step(h) == [s \in SUBSET (DOMAIN f) |-> IF s = {} THEN 0 ELSE LET x == CHOOSE x \in s : TRUE IN f[x] + h[s \ {x}]]
<1>1. SUBSET (DOMAIN f) = {{}}
  OBVIOUS
<1>2. g = step(g)
  BY <1>1
<1>3. SumFunction(f) = (CHOOSE h : h = step(h))[DOMAIN f]
  BY DEF SumFunction, SumFunctionOnSet, FoldFunctionOnSet, MapThenFoldSet
<1>4. (CHOOSE h : h = step(h)) = step(CHOOSE h : h = step(h))
  BY <1>2
<1> QED BY <1>1, <1>3, <1>4

LEMMA SumOne == ASSUME NEW p, NEW f, DOMAIN f = {p}, f[p] \in Int PROVE SumFunction(f) = f[p]
<1> DEFINE g == [s \in SUBSET {p} |-> IF s = {} THEN 0 ELSE f[p]]
<1> DEFINE step(h) == [s \in SUBSET (DOMAIN f) |-> IF s = {} THEN 0 ELSE LET x == CHOOSE x \in s : TRUE IN f[x] + h[s \ {x}]]
<1> DEFINE c == CHOOSE h : h = step(h)
<1>1. \A s \in SUBSET {p} : s = {} \/ s = {p}
  OBVIOUS
<1>2. g = step(g)
  <2>1. ASSUME NEW s \in SUBSET {p} PROVE g[s] = step(g)[s]
    <3>1. CASE s = {}
      BY <3>1
    <3>2. CASE s = {p}
      <4>1. (CHOOSE x \in s : TRUE) = p
        BY <3>2
      <4>2. s \ {p} = {}
        BY <3>2
      <4>3. g[{}] = 0 /\ g[s] = f[p]
        BY <3>2
      <4>4. step(g)[s] = f[p] + g[{}]
        BY <3>2, <4>1, <4>2
      <4> QED BY <4>3, <4>4
    <3> QED BY <1>1, <3>1, <3>2
  <2> QED BY <2>1
<1>3. SumFunction(f) = c[DOMAIN f]
  BY DEF SumFunction, SumFunctionOnSet, FoldFunctionOnSet, MapThenFoldSet
<1>4. c = step(c)
  <2> HIDE DEF step
  <2> QED BY <1>2
<1> HIDE DEF c
<1>5. c[{}] = 0
  BY <1>4
<1>6. c[{p}] = f[p] + c[{}]
  <2>1. (CHOOSE x \in {p} : TRUE) = p /\ {p} \ {p} = {}
    OBVIOUS
  <2>2. step(c)[{p}] = f[p] + c[{}]
    BY <2>1
  <2> QED BY <1>4, <2>2
<1> QED BY <1>3, <1>5, <1>6

-----------------------------------------------------------------------------
(* The portfolio                                                            *)

Known == 0 .. MaxHeld \cup {Unknown}

\* The entries, what is stored of them and what their syncs have read.
EntryTypes ==
  /\ held \in [Asset -> 0 .. MaxHeld]
  /\ provider \in {"history", "balances", "both"}
  /\ entry \in [Entry -> {"none", "on", "off"}]
  /\ selection \in [Entry -> SUBSET Asset]
  /\ status \in [Entry -> {"none", "syncing", "partial", "complete"}]
  /\ events \in [Entry -> [Asset -> Known]]
  /\ observed \in [Entry -> [Asset -> Known]]
  /\ sync \in [Entry -> [at : {"none", "queued", "begun", "fetched"}, selected : SUBSET Asset,
                         page : [Asset -> 0 .. MaxHeld]]]

LEMMA EntryTypesInit == PortfolioInit => EntryTypes
<1> SUFFICES ASSUME PortfolioInit PROVE EntryTypes
  OBVIOUS
<1>1. MaxHeld \in Nat \ {0}
  BY PortfolioAssumptions
<1>2. held \in [Asset -> 0 .. MaxHeld]
  BY <1>1 DEF PortfolioInit
<1> QED
  BY <1>1, <1>2 DEF PortfolioInit, EntryTypes, NoSync, Known, Unknown

LEMMA EntryTypesStep == EntryTypes /\ [PortfolioNext]_portfolioVars => EntryTypes'
<1> SUFFICES ASSUME EntryTypes, [PortfolioNext]_portfolioVars PROVE EntryTypes'
  OBVIOUS
<1> USE PortfolioAssumptions DEF EntryTypes
<1> DEFINE Job == [at : {"none", "queued", "begun", "fetched"}, selected : SUBSET Asset,
                   page : [Asset -> 0 .. MaxHeld]]
<1>0. NoSync \in Job
  BY DEF NoSync
<1>q. ASSUME NEW e \in Entry PROVE Queue(e) \in [Entry -> Job]
  BY DEF Queue
<1>1. ASSUME NEW a \in Asset, AddressMoves(a) PROVE EntryTypes'
  BY <1>1 DEF AddressMoves, tracked
<1>2. ASSUME NEW a \in Asset, PriceChanges(a) PROVE EntryTypes'
  BY <1>2 DEF PriceChanges, tracked
<1>3. ASSUME NEW e \in Entry, NEW assets \in SUBSET Asset, Add(e, assets) PROVE EntryTypes'
  <2>1. /\ UNCHANGED <<held, provider, events, observed>>
        /\ sync' = Queue(e)
        /\ entry' = [entry EXCEPT ![e] = "on"]
        /\ status' = [status EXCEPT ![e] = "syncing"]
    BY <1>3 DEF Add, outside
  <2>2. selection' \in [Entry -> SUBSET Asset]
    BY <1>3 DEF Add
  <2> QED
    BY <2>1, <2>2, <1>q
<1>4. ASSUME NEW e \in Entry, NEW assets \in SUBSET Asset, ReplaceAssets(e, assets) PROVE EntryTypes'
  BY <1>4, <1>q DEF ReplaceAssets, outside
<1>5. ASSUME NEW e \in Entry, Patch(e) PROVE EntryTypes'
  BY <1>5 DEF Patch, outside
<1>6. ASSUME NEW e \in Entry, Delete(e) PROVE EntryTypes'
  <2>1. [a \in Asset |-> Unknown] \in [Asset -> Known]
    BY DEF Known
  <2>2. events' \in [Entry -> [Asset -> Known]] /\ observed' \in [Entry -> [Asset -> Known]]
    BY <1>6, <2>1 DEF Delete
  <2> QED
    BY <1>6, <2>2, <1>0 DEF Delete, outside
<1>7. ASSUME NEW e \in Entry, Schedule(e) PROVE EntryTypes'
  BY <1>7, <1>q DEF Schedule, outside, tracked
<1>8. ASSUME NEW e \in Entry, SyncBegins(e) \/ SyncFetches(e) \/ SyncFails(e) PROVE EntryTypes'
  <2>1. UNCHANGED <<held, provider, entry, selection, status, events, observed>>
    BY <1>8 DEF SyncBegins, SyncFetches, SyncFails, outside, tracked
  <2>2. CASE SyncBegins(e)
    <3>1. [NoSync EXCEPT !.at = "begun", !.selected = selection[e]] \in Job
      BY <1>0
    <3>2. sync' \in [Entry -> Job]
      BY <2>2, <3>1 DEF SyncBegins
    <3> QED
      BY <2>1, <3>2
  <2>3. CASE SyncFetches(e)
    <3>1. sync' = [sync EXCEPT ![e] = [sync[e] EXCEPT !.at = "fetched", !.page = held]]
      BY <2>3 DEF SyncFetches
    <3>2. [sync[e] EXCEPT !.at = "fetched", !.page = held] \in Job
      OBVIOUS
    <3>3. sync' \in [Entry -> Job]
      BY <3>1, <3>2
    <3> QED
      BY <2>1, <3>3
  <2>4. CASE SyncFails(e)
    <3>1. [NoSync EXCEPT !.at = "queued"] \in Job
      BY <1>0
    <3>2. sync' \in [Entry -> Job]
      BY <2>4, <3>1 DEF SyncFails
    <3> QED
      BY <2>1, <3>2
  <2> QED
    BY <1>8, <2>2, <2>3, <2>4
<1>9. ASSUME NEW e \in Entry, SyncWrites(e) PROVE EntryTypes'
  <2>1. sync' \in [Entry -> Job] /\ UNCHANGED <<held, provider>>
    BY <1>9, <1>0 DEF SyncWrites, outside
  <2>2. CASE entry[e] = "none"
    BY <1>9, <2>1, <2>2 DEF SyncWrites, tracked
  <2>3. CASE entry[e] # "none"
    <3> DEFINE read == sync[e].selected
               page == sync[e].page
    <3>1. page \in [Asset -> 0 .. MaxHeld] /\ page \in [Asset -> Known]
      BY DEF Known
    <3>2. PICK missed \in SUBSET Asset :
            /\ events' = IF provider = "balances" THEN events
                         ELSE [events EXCEPT ![e] =
                                 [a \in Asset |-> IF a \in read THEN page[a] ELSE @[a]]]
            /\ observed' = IF provider = "history" THEN observed
                           ELSE [observed EXCEPT ![e] =
                                   [a \in Asset |-> IF a \in read \ missed
                                                      THEN page[a] ELSE @[a]]]
            /\ status' = [status EXCEPT ![e] =
                            IF provider = "balances" THEN "partial" ELSE "complete"]
            /\ UNCHANGED <<entry, selection>>
      BY <1>9, <2>3 DEF SyncWrites
    <3>3. events' \in [Entry -> [Asset -> Known]] /\ observed' \in [Entry -> [Asset -> Known]]
      BY <3>1, <3>2
    <3>4. status' \in [Entry -> {"none", "syncing", "partial", "complete"}]
      BY <3>2
    <3> QED
      BY <2>1, <3>2, <3>3, <3>4
  <2> QED
    BY <2>2, <2>3
<1>10. CASE CaptureBegins \/ CaptureEnds
  BY <1>10 DEF CaptureBegins, CaptureEnds, outside, tracked
<1>11. CASE UNCHANGED portfolioVars
  BY <1>11 DEF portfolioVars, outside, tracked
<1> QED
  BY <1>1, <1>2, <1>3, <1>4, <1>5, <1>6, <1>7, <1>8, <1>9, <1>10, <1>11, Zenon DEF PortfolioNext

\* What does not exist tracks nothing.
TracksInv ==
  /\ TrackedOnce
  /\ \A e \in Entry : entry[e] = "none" => selection[e] = {}

LEMMA TracksStep == EntryTypes /\ TracksInv /\ [PortfolioNext]_portfolioVars => TracksInv'
<1> SUFFICES ASSUME EntryTypes, TracksInv, [PortfolioNext]_portfolioVars PROVE TracksInv'
  OBVIOUS
<1> USE DEF EntryTypes, TracksInv, TrackedOnce
<1>1. ASSUME NEW e \in Entry, NEW assets \in SUBSET Asset, Add(e, assets) PROVE TracksInv'
  <2> DEFINE conflicts == Conflicts(e, assets)
  <2>1. /\ entry[e] = "none" /\ assets # {}
        /\ conflicts # {} => CanSplit(conflicts, assets)
        /\ entry' = [entry EXCEPT ![e] = "on"]
        /\ selection' = [f \in Entry |-> IF f = e THEN assets
                                         ELSE IF f \in conflicts THEN selection[f] \ {Native}
                                         ELSE selection[f]]
    BY <1>1 DEF Add
  <2>2. ASSUME NEW f \in Entry, f # e
        PROVE  /\ selection'[f] \subseteq selection[f] /\ selection'[f] \cap assets = {}
               /\ entry[f] # "none" => selection'[f] # {}
    <3>1. CASE f \in conflicts
      BY <2>1, <2>2, <3>1 DEF CanSplit
    <3>2. CASE f \notin conflicts
      BY <2>1, <2>2, <3>2 DEF Conflicts
    <3> QED
      BY <3>1, <3>2
  <2>3. ASSUME NEW f \in Entry, NEW g \in Entry, f # g PROVE selection'[f] \cap selection'[g] = {}
    <3>1. CASE f = e
      BY <2>1, <2>2, <2>3, <3>1
    <3>2. CASE g = e
      BY <2>1, <2>2, <2>3, <3>2
    <3>3. CASE f # e /\ g # e
      BY <2>2, <2>3, <3>3
    <3> QED
      BY <3>1, <3>2, <3>3
  <2>4. ASSUME NEW f \in Entry
        PROVE (entry'[f] # "none" => selection'[f] # {}) /\ (entry'[f] = "none" => selection'[f] = {})
    BY <2>1, <2>2
  <2> QED
    BY <2>3, <2>4
<1>2. ASSUME NEW e \in Entry, NEW assets \in SUBSET Asset, ReplaceAssets(e, assets) PROVE TracksInv'
  <2>1. /\ entry[e] # "none" /\ assets # {} /\ UNCHANGED entry
        /\ selection' = [selection EXCEPT ![e] = assets]
        /\ \A f \in Entry \ {e} : entry[f] = "none" \/ selection[f] \cap assets = {}
    BY <1>2 DEF ReplaceAssets, Conflicts
  <2>2. \A f \in Entry \ {e} : selection[f] \cap assets = {}
    BY <2>1
  <2> QED
    BY <2>1, <2>2
<1>3. ASSUME NEW e \in Entry, Patch(e) PROVE TracksInv'
  BY <1>3 DEF Patch
<1>4. ASSUME NEW e \in Entry, Delete(e) PROVE TracksInv'
  BY <1>4 DEF Delete
<1>5. ASSUME NEW e \in Entry, SyncWrites(e) PROVE TracksInv'
  BY <1>5 DEF SyncWrites, tracked
<1>6. ASSUME NEW a \in Asset, AddressMoves(a) \/ PriceChanges(a) PROVE TracksInv'
  BY <1>6 DEF AddressMoves, PriceChanges, tracked
<1>7. ASSUME NEW e \in Entry, Schedule(e) \/ SyncBegins(e) \/ SyncFetches(e) \/ SyncFails(e)
      PROVE  TracksInv'
  BY <1>7 DEF Schedule, SyncBegins, SyncFetches, SyncFails, tracked
<1>8. CASE CaptureBegins \/ CaptureEnds \/ UNCHANGED portfolioVars
  BY <1>8 DEF CaptureBegins, CaptureEnds, portfolioVars, tracked
<1> QED
  BY <1>1, <1>2, <1>3, <1>4, <1>5, <1>6, <1>7, <1>8, Zenon DEF PortfolioNext

\* A capture that nothing stirred has read what there is.
CaptureFresh ==
  capture.on /\ ~stirred =>
    capture.pairs = Enabled /\ capture.whole = {e \in Entry : status[e] = "complete"}

\* What is not behind is not known or known as it is.
BehindTold ==
  \A e \in Entry, a \in Asset : <<e, a>> \notin behind =>
    events[e][a] \in {Unknown, held[a]} /\ observed[e][a] \in {Unknown, held[a]}

\* Nobody answers what the provider has no answer for.
ProviderKept ==
  \A e \in Entry, a \in Asset :
    /\ provider = "history" => observed[e][a] = Unknown
    /\ provider = "balances" => events[e][a] = Unknown

\* A sync reads all that its entry selects, and a history that is complete
\* covers it, unless the selections changed under a sync.
SelectionsRead ==
  \A e \in Entry : e \notin outrun =>
    /\ sync[e].at \in {"begun", "fetched"} => selection[e] \subseteq sync[e].selected
    /\ status[e] = "complete" => \A a \in selection[e] : events[e][a] # Unknown

StoredInv == CaptureFresh /\ BehindTold /\ ProviderKept /\ SelectionsRead

LEMMA StoredStep ==
  EntryTypes /\ TracksInv /\ StoredInv /\ [PortfolioNext]_portfolioVars => StoredInv'
<1> SUFFICES ASSUME EntryTypes, TracksInv, StoredInv, [PortfolioNext]_portfolioVars PROVE StoredInv'
  OBVIOUS
<1> USE DEF EntryTypes, StoredInv
<1>1. ASSUME NEW a \in Asset, AddressMoves(a) PROVE StoredInv'
  <2>1. PICK q : held' = [held EXCEPT ![a] = q]
    BY <1>1 DEF AddressMoves
  <2>2. behind' = behind \cup (Entry \X {a})
    BY <1>1 DEF AddressMoves
  <2>3. UNCHANGED <<provider, entry, selection, status, events, observed, sync, capture,
                    outrun, stirred>>
    BY <1>1 DEF AddressMoves, tracked
  <2>4. BehindTold'
    BY <2>1, <2>2, <2>3 DEF BehindTold
  <2> QED
    BY <2>3, <2>4 DEF CaptureFresh, ProviderKept, SelectionsRead, Enabled
<1>2. ASSUME NEW a \in Asset, PriceChanges(a) PROVE StoredInv'
  BY <1>2 DEF PriceChanges, tracked, history, CaptureFresh, BehindTold, ProviderKept, SelectionsRead,
              Enabled
<1>3. ASSUME NEW e \in Entry, NEW assets \in SUBSET Asset, Add(e, assets) PROVE StoredInv'
  <2>1. /\ sync[e].at = "none" /\ stirred' = TRUE
        /\ UNCHANGED <<held, provider, events, observed, behind, capture>>
        /\ status' = [status EXCEPT ![e] = "syncing"]
        /\ sync' = Queue(e) /\ outrun' = Outrun(Conflicts(e, assets))
    BY <1>3 DEF Add, outside
  <2>2. \A f \in Entry : sync'[f].at \in {"begun", "fetched"} => sync'[f] = sync[f]
    BY <2>1 DEF Queue
  <2>3. sync'[e].at \notin {"begun", "fetched"}
    BY <2>1 DEF Queue
  <2>4. \A f \in Entry \ {e} : selection'[f] \subseteq selection[f]
    BY <1>3 DEF Add
  <2>5. outrun \subseteq outrun'
    BY <2>1 DEF Outrun
  <2>6. SelectionsRead'
    BY <2>1, <2>2, <2>3, <2>4, <2>5 DEF SelectionsRead
  <2> QED
    BY <2>1, <2>6 DEF CaptureFresh, BehindTold, ProviderKept
<1>4. ASSUME NEW e \in Entry, NEW assets \in SUBSET Asset, ReplaceAssets(e, assets) PROVE StoredInv'
  <2>1. /\ stirred' = TRUE
        /\ UNCHANGED <<held, provider, events, observed, behind, capture>>
        /\ selection' = [selection EXCEPT ![e] = assets]
        /\ status' = [status EXCEPT ![e] = "syncing"]
        /\ sync' = Queue(e) /\ outrun' = Outrun({e})
    BY <1>4 DEF ReplaceAssets, outside
  <2>2. \A f \in Entry : sync'[f].at \in {"begun", "fetched"} => sync'[f] = sync[f]
    BY <2>1 DEF Queue
  <2>3. e \notin outrun' => sync'[e].at \notin {"begun", "fetched"}
    BY <2>1, <2>2 DEF Outrun
  <2>4. outrun \subseteq outrun'
    BY <2>1 DEF Outrun
  <2>5. SelectionsRead'
    BY <2>1, <2>2, <2>3, <2>4 DEF SelectionsRead
  <2> QED
    BY <2>1, <2>5 DEF CaptureFresh, BehindTold, ProviderKept
<1>5. ASSUME NEW e \in Entry, Patch(e) PROVE StoredInv'
  BY <1>5 DEF Patch, outside, CaptureFresh, BehindTold, ProviderKept, SelectionsRead
<1>6. ASSUME NEW e \in Entry, Delete(e) PROVE StoredInv'
  <2>1. /\ stirred' = TRUE /\ UNCHANGED <<held, provider, capture>>
        /\ selection' = [selection EXCEPT ![e] = {}] /\ status' = [status EXCEPT ![e] = "none"]
        /\ events' = [events EXCEPT ![e] = [a \in Asset |-> Unknown]]
        /\ observed' = [observed EXCEPT ![e] = [a \in Asset |-> Unknown]]
        /\ behind' = behind \ ({e} \X Asset) /\ outrun' = outrun \ {e}
    BY <1>6 DEF Delete, outside
  <2>2. \A f \in Entry : sync'[f].at \in {"begun", "fetched"} => sync'[f] = sync[f]
    BY <1>6 DEF Delete, NoSync
  <2>3. SelectionsRead'
    BY <2>1, <2>2 DEF SelectionsRead
  <2>4. BehindTold' /\ ProviderKept'
    BY <2>1 DEF BehindTold, ProviderKept
  <2> QED
    BY <2>1, <2>3, <2>4 DEF CaptureFresh
<1>7. ASSUME NEW e \in Entry, Schedule(e) \/ SyncBegins(e) \/ SyncFetches(e) \/ SyncFails(e)
      PROVE  StoredInv'
  <2>1. UNCHANGED <<held, provider, entry, selection, status, events, observed, capture,
                    behind, outrun, stirred>>
    BY <1>7 DEF Schedule, SyncBegins, SyncFetches, SyncFails, outside, tracked, history
  <2>2. \A f \in Entry : sync'[f].at \in {"begun", "fetched"} =>
          \/ selection[f] = sync'[f].selected
          \/ /\ sync[f].at \in {"begun", "fetched"}
             /\ sync'[f].selected = sync[f].selected
    <3>1. CASE Schedule(e)
      BY <3>1 DEF Schedule, Queue
    <3>2. CASE SyncBegins(e)
      <4>1. sync' = [sync EXCEPT ![e] = [NoSync EXCEPT !.at = "begun", !.selected = selection[e]]]
        BY <3>2 DEF SyncBegins
      <4>2. [NoSync EXCEPT !.at = "begun", !.selected = selection[e]].selected = selection[e]
        BY DEF NoSync
      <4> QED
        BY <4>1, <4>2
    <3>3. CASE SyncFetches(e)
      <4>1. sync' = [sync EXCEPT ![e] = [sync[e] EXCEPT !.at = "fetched", !.page = held]]
            /\ sync[e].at = "begun"
        BY <3>3 DEF SyncFetches
      <4>2. [sync[e] EXCEPT !.at = "fetched", !.page = held].selected = sync[e].selected
        OBVIOUS
      <4> QED
        BY <4>1, <4>2
    <3>4. CASE SyncFails(e)
      BY <3>4 DEF SyncFails, NoSync
    <3> QED
      BY <1>7, <3>1, <3>2, <3>3, <3>4
  <2>3. SelectionsRead'
    BY <2>1, <2>2 DEF SelectionsRead
  <2> QED
    BY <2>1, <2>3 DEF CaptureFresh, BehindTold, ProviderKept, Enabled
<1>8. ASSUME NEW e \in Entry, SyncWrites(e) PROVE StoredInv'
  <2> DEFINE read == sync[e].selected
             page == sync[e].page
  <2>1. /\ sync[e].at = "fetched" /\ sync' = [sync EXCEPT ![e] = NoSync]
        /\ outrun' = IF selection[e] \subseteq read THEN outrun \ {e} ELSE outrun
        /\ UNCHANGED <<held, provider, capture>>
    BY <1>8 DEF SyncWrites, outside
  <2>2. \A f \in Entry : sync'[f].at \in {"begun", "fetched"} => f # e /\ sync'[f] = sync[f]
    BY <2>1 DEF NoSync
  <2>3. \A f \in Entry \ {e} : f \notin outrun' => f \notin outrun
    BY <2>1
  <2>4. CASE entry[e] = "none"
    <3>1. UNCHANGED <<entry, selection, status, events, observed, behind, stirred>>
      BY <1>8, <2>4 DEF SyncWrites, tracked
    <3>2. selection[e] = {}
      BY <2>4 DEF TracksInv
    <3>3. SelectionsRead'
      BY <2>2, <2>3, <3>1, <3>2 DEF SelectionsRead
    <3> QED
      BY <2>1, <3>1, <3>3 DEF CaptureFresh, BehindTold, ProviderKept, Enabled
  <2>5. CASE entry[e] # "none"
    <3>1. PICK missed \in SUBSET (IF provider = "history" THEN {} ELSE read \ {Native}) :
            /\ events' = IF provider = "balances" THEN events
                         ELSE [events EXCEPT ![e] =
                                 [a \in Asset |-> IF a \in read THEN page[a] ELSE @[a]]]
            /\ observed' = IF provider = "history" THEN observed
                           ELSE [observed EXCEPT ![e] =
                                   [a \in Asset |-> IF a \in read \ missed
                                                      THEN page[a] ELSE @[a]]]
            /\ status' = [status EXCEPT ![e] =
                            IF provider = "balances" THEN "partial" ELSE "complete"]
            /\ behind' = (behind \ ({e} \X (read \ missed)))
                         \cup {<<e, a>> : a \in missed \cup {b \in read : page[b] # held[b]}}
            /\ stirred' = TRUE
            /\ UNCHANGED <<entry, selection>>
      BY <1>8, <2>5 DEF SyncWrites
    <3>2. ASSUME NEW f \in Entry, f # e
          PROVE  events'[f] = events[f] /\ observed'[f] = observed[f] /\ status'[f] = status[f]
      BY <3>1, <3>2
    <3>3. ASSUME NEW a \in Asset
          PROVE  /\ provider # "balances" /\ a \in read => events'[e][a] = page[a]
                 /\ provider = "balances" \/ a \notin read => events'[e][a] = events[e][a]
                 /\ provider # "history" /\ a \in read \ missed => observed'[e][a] = page[a]
                 /\ provider = "history" \/ a \notin read \ missed => observed'[e][a] = observed[e][a]
      BY <3>1
    <3>4. ASSUME NEW a \in Asset, <<e, a>> \notin behind'
          PROVE  /\ a \notin missed
                 /\ a \in read => page[a] = held[a]
                 /\ a \notin read => <<e, a>> \notin behind
      BY <3>1, <3>4
    <3>5. ProviderKept'
      <4> SUFFICES ASSUME NEW f \in Entry, NEW a \in Asset
                   PROVE  /\ provider = "history" => observed'[f][a] = Unknown
                          /\ provider = "balances" => events'[f][a] = Unknown
        BY <2>1 DEF ProviderKept
      <4>1. CASE f = e
        BY <3>3, <4>1 DEF ProviderKept
      <4>2. CASE f # e
        BY <3>2, <4>2 DEF ProviderKept
      <4> QED
        BY <4>1, <4>2
    <3>6. ASSUME NEW f \in Entry, NEW a \in Asset, <<f, a>> \notin behind'
          PROVE  events'[f][a] \in {Unknown, held[a]} /\ observed'[f][a] \in {Unknown, held[a]}
      <4>1. CASE f # e
        <5>1. <<f, a>> \notin behind
          BY <3>1, <3>6, <4>1
        <5> QED
          BY <3>2, <4>1, <5>1 DEF BehindTold
      <4>2. CASE f = e
        <5>1. CASE a \in read
          BY <3>3, <3>4, <3>6, <4>2, <5>1 DEF ProviderKept
        <5>2. CASE a \notin read
          BY <3>3, <3>4, <3>6, <4>2, <5>2 DEF BehindTold
        <5> QED
          BY <5>1, <5>2
      <4> QED
        BY <4>1, <4>2
    <3>7. BehindTold'
      BY <2>1, <3>6 DEF BehindTold
    <3>8. ASSUME e \notin outrun', status'[e] = "complete", NEW a \in selection'[e]
          PROVE  events'[e][a] # Unknown
      <4>1. provider # "balances" /\ a \in Asset /\ a \in selection[e]
        BY <3>1, <3>8
      <4>2. selection[e] \subseteq read
        BY <2>1, <3>8 DEF SelectionsRead
      <4>3. page[a] # Unknown
        BY <4>1, PortfolioAssumptions DEF Unknown
      <4> QED
        BY <3>3, <4>1, <4>2, <4>3
    <3>9. SelectionsRead'
      <4> SUFFICES ASSUME NEW f \in Entry, f \notin outrun'
                   PROVE  /\ sync'[f].at \in {"begun", "fetched"} => selection[f] \subseteq sync'[f].selected
                          /\ status'[f] = "complete" => \A a \in selection[f] : events'[f][a] # Unknown
        BY <3>1 DEF SelectionsRead
      <4>1. CASE f = e
        BY <2>2, <3>1, <3>8, <4>1
      <4>2. CASE f # e
        BY <2>2, <2>3, <3>2, <4>2 DEF SelectionsRead
      <4> QED
        BY <4>1, <4>2
    <3> QED
      BY <2>1, <3>1, <3>5, <3>7, <3>9 DEF CaptureFresh
  <2> QED
    BY <2>4, <2>5
<1>9. CASE CaptureBegins
  BY <1>9 DEF CaptureBegins, outside, tracked, CaptureFresh, BehindTold, ProviderKept, SelectionsRead,
              Enabled
<1>10. CASE CaptureEnds
  BY <1>10 DEF CaptureEnds, NoCapture, outside, tracked, history, CaptureFresh, BehindTold, ProviderKept,
               SelectionsRead
<1>11. CASE UNCHANGED portfolioVars
  BY <1>11 DEF portfolioVars, outside, tracked, history, CaptureFresh, BehindTold, ProviderKept,
               SelectionsRead, Enabled
<1> QED
  BY <1>1, <1>2, <1>3, <1>4, <1>5, <1>6, <1>7, <1>8, <1>9, <1>10, <1>11, Zenon DEF PortfolioNext

\* A set of pairs that counts no asset twice.
Once(pairs) == \A p, q \in pairs : p[2] = q[2] => p = q

LEMMA EnabledOnce == ASSUME TracksInv PROVE Enabled \subseteq Pair /\ Once(Enabled)
<1> SUFFICES ASSUME NEW p \in Enabled, NEW q \in Enabled, p[2] = q[2] PROVE p = q
  BY DEF Once, Enabled
<1>1. p \in Entry \X Asset /\ q \in Entry \X Asset /\ p[2] \in selection[p[1]] \cap selection[q[1]]
  BY DEF Enabled, Pair
<1>2. p[1] = q[1]
  BY <1>1 DEF TracksInv, TrackedOnce
<1> QED
  BY <1>1, <1>2

LEMMA BalanceKnown ==
  ASSUME EntryTypes, NEW p \in Pair, NEW whole
  PROVE  Balance(p, whole) \in Known
<1>1. p[1] \in Entry /\ p[2] \in Asset
  BY DEF Pair
<1>2. observed[p[1]][p[2]] \in Known /\ events[p[1]][p[2]] \in Known /\ 0 \in Known /\ Unknown \in Known
  BY <1>1, PortfolioAssumptions DEF EntryTypes, Known
<1> QED
  BY <1>2, Zenon DEF Balance

LEMMA QuantityOfNone ==
  ASSUME NEW pairs, NEW whole, NEW a,
         \A q \in pairs : q[2] = a => Balance(q, whole) = Unknown
  PROVE  QuantityOf(a, pairs, whole) = 0
<1> DEFINE counted == {q \in pairs : q[2] = a /\ Balance(q, whole) # Unknown}
           f == [p \in counted |-> Balance(p, whole)]
<1>1. counted = {}
  OBVIOUS
<1>2. DOMAIN f = {}
  BY <1>1
<1>3. SumFunction(f) = 0
  BY <1>2, SumNothing
<1> QED
  BY <1>3 DEF QuantityOf

LEMMA QuantityOfOne ==
  ASSUME NEW pairs, NEW whole, Once(pairs), NEW p \in pairs,
         Balance(p, whole) \in Known \ {Unknown}
  PROVE  QuantityOf(p[2], pairs, whole) = Balance(p, whole)
<1> DEFINE counted == {q \in pairs : q[2] = p[2] /\ Balance(q, whole) # Unknown}
           f == [q \in counted |-> Balance(q, whole)]
<1>1. counted = {p}
  BY DEF Once
<1>2. DOMAIN f = {p} /\ f[p] = Balance(p, whole) /\ f[p] \in Int
  BY <1>1, PortfolioAssumptions DEF Known
<1> HIDE DEF f
<1>3. SumFunction(f) = f[p]
  BY <1>2, SumOne
<1> QED
  BY <1>2, <1>3 DEF QuantityOf, f

LEMMA QuantityTyped ==
  ASSUME EntryTypes, NEW pairs \in SUBSET Pair, Once(pairs), NEW whole, NEW a
  PROVE  QuantityOf(a, pairs, whole) \in Nat
<1>1. CASE \A q \in pairs : q[2] = a => Balance(q, whole) = Unknown
  BY <1>1, QuantityOfNone
<1>2. ASSUME NEW p \in pairs, p[2] = a, Balance(p, whole) # Unknown
      PROVE  QuantityOf(a, pairs, whole) \in Nat
  <2>1. Balance(p, whole) \in Known
    BY BalanceKnown
  <2> QED
    BY <1>2, <2>1, QuantityOfOne, PortfolioAssumptions DEF Known
<1> QED
  BY <1>1, <1>2

\* A capture counts no asset twice, and the newest snapshot is valued whole
\* unless it says otherwise.
ShotInv ==
  /\ capture \in [on : BOOLEAN, pairs : SUBSET Pair, whole : SUBSET Entry]
  /\ Once(capture.pairs)
  /\ shot \in [quantity : [Asset -> Nat], incomplete : Nat, value : SUBSET Asset, whole : BOOLEAN]
  /\ shot.whole => shot.value = NonZero(shot.quantity)

LEMMA ShotStep ==
  EntryTypes /\ TracksInv /\ ShotInv /\ [PortfolioNext]_portfolioVars => ShotInv'
<1> SUFFICES ASSUME EntryTypes, TracksInv, ShotInv, [PortfolioNext]_portfolioVars PROVE ShotInv'
  OBVIOUS
<1>1. CASE CaptureBegins
  <2> DEFINE whole == {e \in Entry : status[e] = "complete"}
  <2>1. capture' = [on |-> TRUE, pairs |-> Enabled, whole |-> whole] /\ shot' = shot
    BY <1>1 DEF CaptureBegins
  <2>2. Enabled \subseteq Pair /\ Once(Enabled) /\ whole \subseteq Entry
    BY EnabledOnce
  <2>3. capture' \in [on : BOOLEAN, pairs : SUBSET Pair, whole : SUBSET Entry]
    BY <2>1, <2>2
  <2> QED
    BY <2>1, <2>2, <2>3 DEF ShotInv, NonZero, Once
<1>2. CASE CaptureEnds
  <2> DEFINE quantity == [a \in Asset |-> QuantityOf(a, capture.pairs, capture.whole)]
             unknown == {p \in capture.pairs : Balance(p, capture.whole) = Unknown}
             incomplete == Cardinality(unknown)
             whole == incomplete = 0 /\ NonZero(quantity) \subseteq priced
  <2>1. /\ capture' = NoCapture
        /\ shot' = [quantity |-> quantity, incomplete |-> incomplete,
                    value |-> Valued(quantity), whole |-> whole]
    BY <1>2 DEF CaptureEnds
  <2>2. capture.pairs \in SUBSET Pair /\ Once(capture.pairs)
    BY DEF ShotInv
  <2>3. quantity \in [Asset -> Nat]
    BY <2>2, QuantityTyped
  <2>4. incomplete \in Nat
    <3>1. IsFiniteSet(Asset)
      BY AssetAssumptions, FS_Singleton, FS_Union DEF Asset
    <3>2. IsFiniteSet(Pair)
      BY <3>1, PortfolioAssumptions, FS_Product DEF Pair
    <3> QED
      BY <2>2, <3>2, FS_Subset, FS_CardinalityType
  <2> HIDE DEF quantity, incomplete
  <2>5. Valued(quantity) \subseteq Asset /\ (whole => Valued(quantity) = NonZero(quantity))
    BY DEF Valued, NonZero
  <2>6. /\ shot'.quantity = quantity /\ shot'.value = Valued(quantity) /\ shot'.whole = whole
        /\ shot' \in [quantity : [Asset -> Nat], incomplete : Nat, value : SUBSET Asset, whole : BOOLEAN]
    BY <2>1, <2>3, <2>4, <2>5
  <2>7. shot'.whole => shot'.value = NonZero(shot'.quantity)
    BY <2>5, <2>6
  <2>8. capture' \in [on : BOOLEAN, pairs : SUBSET Pair, whole : SUBSET Entry] /\ Once(capture'.pairs)
    BY <2>1 DEF NoCapture, Once
  <2> QED
    BY <2>6, <2>7, <2>8 DEF ShotInv, NonZero, Once
<1>3. CASE UNCHANGED <<capture, shot>>
  BY <1>3 DEF ShotInv, NonZero, Once
<1>4. CASE \E a \in Asset : AddressMoves(a) \/ PriceChanges(a)
  BY <1>3, <1>4 DEF AddressMoves, PriceChanges
<1>5. CASE \E e \in Entry, assets \in SUBSET Asset : Add(e, assets) \/ ReplaceAssets(e, assets)
  BY <1>3, <1>5 DEF Add, ReplaceAssets
<1>6. CASE \E e \in Entry : Patch(e) \/ Delete(e) \/ Schedule(e)
  BY <1>3, <1>6 DEF Patch, Delete, Schedule
<1>7. CASE \E e \in Entry : SyncBegins(e) \/ SyncFetches(e) \/ SyncFails(e) \/ SyncWrites(e)
  BY <1>3, <1>7 DEF SyncBegins, SyncFetches, SyncFails, SyncWrites
<1> QED
  BY <1>1, <1>2, <1>3, <1>4, <1>5, <1>6, <1>7, Zenon DEF PortfolioNext, portfolioVars

\* What is only counted or remembered.
CountTypes ==
  /\ priced \subseteq Asset /\ behind \subseteq Pair /\ outrun \subseteq Entry /\ stirred \in BOOLEAN
  /\ moves \in 0 .. MaxMoves /\ edits \in 0 .. MaxEdits /\ unseen \in 0 .. MaxUnseen

LEMMA CountStep == EntryTypes /\ CountTypes /\ [PortfolioNext]_portfolioVars => CountTypes'
<1> SUFFICES ASSUME EntryTypes, CountTypes, [PortfolioNext]_portfolioVars PROVE CountTypes'
  OBVIOUS
<1> USE PortfolioAssumptions DEF CountTypes
<1>1. ASSUME NEW a \in Asset, AddressMoves(a) \/ PriceChanges(a) PROVE CountTypes'
  <2>1. moves' \in 0 .. MaxMoves /\ priced' \subseteq Asset
    BY <1>1 DEF AddressMoves, PriceChanges, Moves
  <2>2. behind' \subseteq Pair
    BY <1>1 DEF AddressMoves, PriceChanges, history, Pair
  <2> QED
    BY <1>1, <2>1, <2>2 DEF AddressMoves, PriceChanges, history
<1>2. ASSUME NEW e \in Entry, NEW assets \in SUBSET Asset, Add(e, assets) PROVE CountTypes'
  BY <1>2 DEF Add, Edits, Outrun, Conflicts, outside
<1>3. ASSUME NEW e \in Entry, NEW assets \in SUBSET Asset, ReplaceAssets(e, assets) PROVE CountTypes'
  BY <1>3 DEF ReplaceAssets, Edits, Outrun, outside
<1>4. ASSUME NEW e \in Entry, Patch(e) \/ Delete(e) PROVE CountTypes'
  <2>1. CASE Patch(e)
    BY <2>1 DEF Patch, outside, bounds
  <2>2. CASE Delete(e)
    BY <2>2 DEF Delete, Edits, outside
  <2> QED
    BY <1>4, <2>1, <2>2
<1>5. ASSUME NEW e \in Entry, Schedule(e) \/ SyncBegins(e) \/ SyncFetches(e) \/ SyncFails(e)
      PROVE  CountTypes'
  BY <1>5 DEF Schedule, SyncBegins, SyncFetches, SyncFails, outside, history, bounds
<1>6. ASSUME NEW e \in Entry, SyncWrites(e) PROVE CountTypes'
  <2> DEFINE read == sync[e].selected
             page == sync[e].page
  <2>0. read \subseteq Asset
    BY DEF EntryTypes
  <2>1. UNCHANGED <<priced, moves, edits>> /\ outrun' \subseteq outrun
    BY <1>6 DEF SyncWrites, outside
  <2>2. PICK missed \in SUBSET (IF provider = "history" THEN {} ELSE read \ {Native}) :
          /\ unseen + Cardinality(missed) <= MaxUnseen
          /\ unseen' = unseen + Cardinality(missed)
          /\ \/ UNCHANGED <<behind, stirred>>
             \/ /\ behind' = (behind \ ({e} \X (read \ missed)))
                             \cup {<<e, a>> : a \in missed \cup {b \in read : page[b] # held[b]}}
                /\ stirred' = TRUE
    BY <1>6 DEF SyncWrites
  <2>3. missed \subseteq Asset
    BY <2>0
  <2>4. Cardinality(missed) \in Nat
    BY <2>3, AssetAssumptions, FS_Singleton, FS_Union, FS_Subset, FS_CardinalityType DEF Asset
  <2>5. unseen' \in 0 .. MaxUnseen
    BY <2>2, <2>4
  <2>6. stirred' \in BOOLEAN
    BY <2>2
  <2>7. {<<e, a>> : a \in missed \cup {b \in read : page[b] # held[b]}} \subseteq Pair
    BY <2>0, <2>3 DEF Pair
  <2>8. behind' \subseteq Pair
    BY <2>2, <2>7
  <2> QED
    BY <2>1, <2>5, <2>6, <2>8
<1>7. CASE CaptureBegins \/ CaptureEnds
  BY <1>7 DEF CaptureBegins, CaptureEnds, outside, history, bounds
<1>8. CASE UNCHANGED portfolioVars
  BY <1>8 DEF portfolioVars, outside, history, bounds
<1> QED
  BY <1>1, <1>2, <1>3, <1>4, <1>5, <1>6, <1>7, <1>8, Zenon DEF PortfolioNext

PortfolioInv == EntryTypes /\ CountTypes /\ TracksInv /\ StoredInv /\ ShotInv

LEMMA PortfolioInvInit == PortfolioInit => PortfolioInv
<1> SUFFICES ASSUME PortfolioInit PROVE PortfolioInv
  OBVIOUS
<1> USE DEF PortfolioInit
<1>1. EntryTypes
  BY EntryTypesInit
<1>2. CountTypes
  <2>1. moves \in 0 .. MaxMoves /\ edits \in 0 .. MaxEdits /\ unseen \in 0 .. MaxUnseen
    BY PortfolioAssumptions
  <2>2. priced \subseteq Asset /\ behind \subseteq Pair /\ outrun \subseteq Entry /\ stirred = FALSE
    OBVIOUS
  <2> QED
    BY <2>1, <2>2 DEF CountTypes
<1>3. TracksInv
  BY DEF TracksInv, TrackedOnce
<1>4. CaptureFresh
  BY DEF CaptureFresh, NoCapture
<1>5. BehindTold /\ ProviderKept /\ SelectionsRead
  BY DEF BehindTold, ProviderKept, SelectionsRead, NoSync
<1>6. ShotInv
  <2>1. capture \in [on : BOOLEAN, pairs : SUBSET Pair, whole : SUBSET Entry] /\ Once(capture.pairs)
    BY DEF NoCapture, Once
  <2>2. shot = [quantity |-> [a \in Asset |-> 0], incomplete |-> 0, value |-> {}, whole |-> TRUE]
    BY DEF NoShot
  <2>3. NonZero(shot.quantity) = {}
    BY <2>2 DEF NonZero
  <2>4. shot \in [quantity : [Asset -> Nat], incomplete : Nat, value : SUBSET Asset, whole : BOOLEAN]
    BY <2>2
  <2> QED
    BY <2>1, <2>2, <2>3, <2>4 DEF ShotInv
<1> QED
  BY <1>1, <1>2, <1>3, <1>4, <1>5, <1>6 DEF PortfolioInv, StoredInv

LEMMA PortfolioInvariant == PortfolioSpec => []PortfolioInv
<1>1. PortfolioInv /\ [PortfolioNext]_portfolioVars => PortfolioInv'
  BY EntryTypesStep, CountStep, TracksStep, StoredStep, ShotStep DEF PortfolioInv
<1> QED
  BY <1>1, PortfolioInvInit, PTL DEF PortfolioSpec

(***************************************************************************)
(* The entries, their syncs and what is stored of them, the capture and    *)
(* the snapshot keep their types, for any entries, tokens and bounds.      *)
(***************************************************************************)
THEOREM PortfolioTyped == PortfolioSpec => []PortfolioTypeOK
<1>1. PortfolioInv => PortfolioTypeOK
  BY DEF PortfolioInv, EntryTypes, Known, CountTypes, ShotInv, PortfolioTypeOK
<1> QED
  BY <1>1, PortfolioInvariant, PTL

(***************************************************************************)
(* For any number of entries and assets: however entries are added, split, *)
(* replaced, switched off and on and deleted, no asset is tracked twice    *)
(* and no entry is left without one.                                       *)
(***************************************************************************)
THEOREM AssetsTrackedOnce == PortfolioSpec => []TrackedOnce
<1>1. PortfolioInv => TrackedOnce
  BY DEF PortfolioInv, TracksInv
<1> QED
  BY <1>1, PortfolioInvariant, PTL

LEMMA BalanceIsLastPoint ==
  ASSUME NEW p \in Enabled
  PROVE  Balance(p, {e \in Entry : status[e] = "complete"}) = LastPoint(p)
<1>1. p[1] \in Entry
  BY DEF Enabled, Pair
<1> QED
  BY <1>1 DEF Balance, LastPoint, Reconstructed, Unknown

(***************************************************************************)
(* For any number of entries and assets: the portfolio counts what ends    *)
(* the graph of the addresses and never contradicts their table, and a     *)
(* snapshot is shown with the value of all it holds or marked partial.     *)
(***************************************************************************)
THEOREM PagesAreTrue == PortfolioSpec => []ShownTrue
<1>1. PagesAgree
  <2> DEFINE whole == {e \in Entry : status[e] = "complete"}
  <2>1. ASSUME NEW a \in Asset PROVE Combined(a) = QuantityOf(a, Enabled, whole)
    <3> DEFINE counted == {q \in Enabled : q[2] = a /\ Balance(q, whole) # Unknown}
               drawn == {q \in Enabled : q[2] = a /\ LastPoint(q) # Unknown}
    <3>1. counted = drawn
      BY BalanceIsLastPoint
    <3>2. [p \in counted |-> Balance(p, whole)] = [p \in drawn |-> LastPoint(p)]
      BY <3>1, BalanceIsLastPoint
    <3> QED
      BY <3>2 DEF Combined, QuantityOf
  <2>2. ASSUME NEW p \in Enabled PROVE Balance(p, whole) \in {Unknown, Holding(p)}
    BY BalanceIsLastPoint DEF LastPoint, Reconstructed, Holding
  <2> QED
    BY <2>1, <2>2 DEF PagesAgree
<1>2. ShotInv => WholeOrMarked
  <2> SUFFICES ASSUME ShotInv, ~Partial PROVE Shown = NonZero(shot.quantity)
    BY DEF WholeOrMarked
  <2> QED
    BY DEF ShotInv, Partial, Shown, Valued
<1>3. PortfolioInv => ShownTrue
  BY <1>1, <1>2 DEF PortfolioInv, ShownTrue
<1> QED
  BY <1>3, PortfolioInvariant, PTL

LEMMA CompleteCaptureIsTrue ==
  ASSUME PortfolioInv, CaptureEnds, shot'.incomplete = 0, ~stirred,
         Enabled \cap behind = {}, \A p \in Enabled : p[1] \notin outrun,
         NEW a \in Asset
  PROVE  shot'.quantity[a] = Cardinality({p \in Enabled : p[2] = a}) * held[a]
<1> DEFINE whole == {e \in Entry : status[e] = "complete"}
           tracking == {p \in Enabled : p[2] = a}
<1>1. /\ capture.pairs = Enabled /\ capture.whole = whole
      /\ EntryTypes /\ TracksInv /\ BehindTold /\ SelectionsRead
  BY DEF PortfolioInv, StoredInv, CaptureFresh, CaptureEnds
<1>2. Enabled \subseteq Pair /\ Once(Enabled)
  BY <1>1, EnabledOnce
<1>3. \A p \in Enabled : Balance(p, whole) # Unknown
  <2> DEFINE unknown == {p \in Enabled : Balance(p, whole) = Unknown}
  <2>1. Cardinality(unknown) = 0
    BY <1>1 DEF CaptureEnds
  <2>2. IsFiniteSet(Pair)
    BY AssetAssumptions, PortfolioAssumptions, FS_Singleton, FS_Union, FS_Product DEF Asset, Pair
  <2>3. IsFiniteSet(unknown)
    BY <1>2, <2>2, FS_Subset
  <2> QED
    BY <2>1, <2>3, FS_EmptySet
<1>4. shot'.quantity[a] = QuantityOf(a, Enabled, whole)
  BY <1>1 DEF CaptureEnds
<1>5. ASSUME NEW p \in tracking PROVE Balance(p, whole) = held[a]
  <2>1. /\ p \in Enabled /\ p[2] = a /\ p[1] \in Entry /\ p = <<p[1], p[2]>>
        /\ a \in selection[p[1]] /\ p[1] \notin outrun /\ p \notin behind
    BY DEF Enabled, Pair
  <2>2. /\ observed[p[1]][a] \in {Unknown, held[a]} /\ events[p[1]][a] \in {Unknown, held[a]}
    BY <1>1, <2>1 DEF BehindTold
  <2>3. status[p[1]] = "complete" => events[p[1]][a] # Unknown
    BY <1>1, <2>1 DEF SelectionsRead
  <2> QED
    BY <1>3, <2>1, <2>2, <2>3 DEF Balance
<1>6. held[a] \in Nat /\ held[a] \in Known \ {Unknown}
  BY <1>1, PortfolioAssumptions DEF EntryTypes, Known, Unknown
<1>7. CASE tracking = {}
  <2>1. QuantityOf(a, Enabled, whole) = 0
    BY <1>7, QuantityOfNone
  <2>2. Cardinality(tracking) = 0
    BY <1>7, FS_EmptySet
  <2> QED
    BY <1>4, <1>6, <2>1, <2>2
<1>8. ASSUME NEW p \in tracking
      PROVE  shot'.quantity[a] = Cardinality(tracking) * held[a]
  <2>1. tracking = {p}
    BY <1>2 DEF Once
  <2>2. Cardinality(tracking) = 1
    BY <2>1, FS_Singleton
  <2>3. Balance(p, whole) = held[a] /\ p \in Enabled /\ p[2] = a
    BY <1>5
  <2>4. QuantityOf(a, Enabled, whole) = held[a]
    BY <1>2, <1>6, <2>3, QuantityOfOne
  <2> QED
    BY <1>4, <1>6, <2>2, <2>4
<1> QED
  BY <1>7, <1>8

(***************************************************************************)
(* For any number of entries, assets and edits: a snapshot that claims to  *)
(* be complete, taken while nothing was stored, has counted every selected *)
(* asset at what the address held, unless a sync was overtaken or behind.  *)
(***************************************************************************)
THEOREM SnapshotIsTrue == PortfolioSpec => SnapshotTrue
<1> DEFINE Claim == /\ capture.on /\ ~capture'.on /\ shot'.incomplete = 0 /\ ~stirred
                    /\ Enabled \cap behind = {} /\ \A p \in Enabled : p[1] \notin outrun
           Counted == \A a \in Asset :
                        shot'.quantity[a] = Cardinality({p \in Enabled : p[2] = a}) * held[a]
<1>1. ASSUME PortfolioInv, PortfolioNext, capture.on, ~capture'.on PROVE CaptureEnds
  <2>1. CASE \E a \in Asset : AddressMoves(a) \/ PriceChanges(a)
    BY <1>1, <2>1 DEF AddressMoves, PriceChanges
  <2>2. CASE \E e \in Entry, assets \in SUBSET Asset : Add(e, assets) \/ ReplaceAssets(e, assets)
    BY <1>1, <2>2 DEF Add, ReplaceAssets
  <2>3. CASE \E e \in Entry : Patch(e) \/ Delete(e) \/ Schedule(e)
    BY <1>1, <2>3 DEF Patch, Delete, Schedule
  <2>4. CASE \E e \in Entry : SyncBegins(e) \/ SyncFetches(e) \/ SyncFails(e) \/ SyncWrites(e)
    BY <1>1, <2>4 DEF SyncBegins, SyncFetches, SyncFails, SyncWrites
  <2>5. CASE CaptureBegins
    BY <1>1, <2>5 DEF CaptureBegins
  <2> QED
    BY <1>1, <2>1, <2>2, <2>3, <2>4, <2>5, Zenon DEF PortfolioNext
<1>2. PortfolioInv /\ [PortfolioNext]_portfolioVars => [Claim => Counted]_portfolioVars
  <2> SUFFICES ASSUME PortfolioInv, PortfolioNext, Claim PROVE Counted
    OBVIOUS
  <2>1. CaptureEnds
    BY <1>1
  <2> QED
    BY <2>1, CompleteCaptureIsTrue
<1> QED
  BY <1>2, PortfolioInvariant, PTL DEF PortfolioSpec, SnapshotTrue

=============================================================================
