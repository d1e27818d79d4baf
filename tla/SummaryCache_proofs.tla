------------------------ MODULE SummaryCache_proofs -------------------------
(***************************************************************************)
(* Proofs about SummaryCache, for any number of processes, requests,       *)
(* versions of the data and selections: with Redis at hand, whatever locks *)
(* expire, calculations and commands fail and processes die.               *)
(***************************************************************************)
EXTENDS SummaryCache, TLAPS

\* The epoch is the last selection whose change was answered.
EpochFollows == epoch = Answered

\* Requests are registered under the keys that have been asked for.
RequestsPast == requests \subseteq 0 .. epoch

\* What is stored under a key is of its selection or a later one, and not from
\* the future.
EntryOK(k) ==
  /\ entry[k].data.source <= source /\ entry[k].data.selection <= selection
  /\ Hit(entry[k].data) => entry[k].data.selection >= k

EntriesOK == \A k \in Epoch : EntryOK(k)

\* A result about to be stored under the present generation holds what has been
\* announced, and whoever still has the lock has one as new as the entry.
FillOK(p, k) ==
  /\ fill[p][k].pc # "none" => k <= epoch
  /\ Hit(fill[p][k].data) => fill[p][k].data.selection >= k
  /\ fill[p][k].pc = "store" =>
       /\ fill[p][k].generation = generation => fill[p][k].data.source >= announced
       /\ fill[p][k].data.source <= source /\ fill[p][k].data.selection <= selection
       /\ lock[k] = p =>
            /\ fill[p][k].data.source >= entry[k].data.source
            /\ fill[p][k].data.selection >= entry[k].data.selection

FillsOK == \A p \in Process, k \in Epoch : FillOK(p, k)

\* A request asks for the key of the selection that it must respect, or of a
\* later one, and gets what is of that selection.
AskOK(c) ==
  /\ ask[c].key <= epoch /\ ask[c].floor <= ask[c].key
  /\ Hit(ask[c].data) => ask[c].data.selection >= ask[c].key
  /\ ask[c].pc = "look" => ask[c].process \in Process

AsksOK == \A c \in Client : AskOK(c)

RefreshOK(n) ==
  /\ refresh[n].todo \subseteq 0 .. epoch /\ refresh[n].key <= epoch
  /\ refresh[n].pc \in {"announce", "list", "next"} => refresh[n].process \in Process

RefreshesOK == \A n \in Change : RefreshOK(n)

CacheInv ==
  /\ TypeOK /\ EpochFollows /\ RequestsPast
  /\ EntriesOK /\ FreshIsCurrent /\ FillsOK /\ AsksOK /\ RefreshesOK

-----------------------------------------------------------------------------
(* Types, by component                                                      *)

EntrySet(g) == [data : Data, generation : 0 .. g, aged : BOOLEAN]

FillSet(g) ==
  [pc : {"none", "lock", "generation", "current", "load", "store", "release"},
   locked : BOOLEAN, generation : 0 .. g, data : Data]

AskSet ==
  [pc : {"idle", "look", "wait", "done"}, process : Process \cup {Nobody},
   key : Key, floor : Epoch, data : Data]

RefreshSet ==
  [pc : {"none", "announce", "list", "next", "await", "wait", "done"},
   process : Process \cup {Nobody}, todo : SUBSET Epoch, key : Epoch]

DatabaseTyped ==
  source \in 1 .. MaxSource /\ selection \in Epoch /\ changing \in BOOLEAN

VersionsTyped == epoch \in Epoch /\ generation \in Nat /\ announced \in 1 .. source
LockTyped == lock \in [Epoch -> Process \cup {Nobody}]
EntryTyped == entry \in [Epoch -> EntrySet(generation)]
FillTyped == fill \in [Process -> [Key -> FillSet(generation)]]
AskTyped == ask \in [Client -> AskSet]
RefreshTyped == refresh \in [Change -> RefreshSet]
TroubleTyped == trouble \in 0 .. MaxTrouble

LEMMA Typed ==
  TypeOK <=>
    /\ DatabaseTyped /\ VersionsTyped /\ LockTyped /\ EntryTyped /\ requests \subseteq Epoch
    /\ FillTyped /\ AskTyped /\ RefreshTyped /\ TroubleTyped
BY DEF TypeOK, DatabaseTyped, VersionsTyped, LockTyped, EntryTyped, EntrySet, FillTyped,
       FillSet, AskTyped, AskSet, RefreshTyped, RefreshSet, TroubleTyped

LEMMA Numbers == 0 \in Epoch /\ Epoch \subseteq Key /\ Epoch \subseteq Nat /\ Key \subseteq Nat
BY Assumptions DEF Epoch, Key, Fallback

\* Versions are numbers.
LEMMA Versions ==
  /\ DatabaseTyped /\ VersionsTyped =>
       source \in Nat /\ selection \in Nat /\ epoch \in Nat /\ generation \in Nat
  /\ \A d \in Data : d.source \in Nat /\ d.selection \in Nat
  /\ \A k \in Key : k \in Nat
<1>1. \A n : n \in 1 .. MaxSource \/ n \in 0 .. MaxSource => n \in Nat
  BY Assumptions DEF Assumptions
<1>2. ASSUME DatabaseTyped PROVE source \in 1 .. MaxSource /\ selection \in Epoch
  BY <1>2, Zenon DEF DatabaseTyped
<1>3. ASSUME VersionsTyped PROVE epoch \in Epoch /\ generation \in Nat
  BY <1>3, Zenon DEF VersionsTyped
<1>4. ASSUME NEW d \in Data PROVE d.source \in 0 .. MaxSource /\ d.selection \in Epoch
  BY <1>4 DEF Data
<1> QED
  BY <1>1, <1>2, <1>3, <1>4, Numbers

LEMMA Blanks ==
  /\ Nothing \in Data /\ ~ Hit(Nothing)
  /\ \A g \in Nat : NoFill \in FillSet(g)
  /\ NoAsk \in AskSet /\ NoRefresh \in RefreshSet
BY Assumptions, Numbers
DEF Nothing, Data, Hit, NoFill, FillSet, NoAsk, AskSet, NoRefresh, RefreshSet

\* What a fill starts as.
LEMMA Starters ==
  ASSUME NEW g \in Nat, NEW pc \in {"none", "lock", "load"}
  PROVE  LET f == [NoFill EXCEPT !.pc = pc]
         IN  f \in FillSet(g) /\ f.pc # "store" /\ f.data = Nothing
BY Blanks DEF NoFill, FillSet

LEMMA CacheInit == Init => CacheInv
<1> SUFFICES ASSUME Init PROVE CacheInv
  OBVIOUS
<1> USE Assumptions, Blanks, Numbers DEF Init
<1>1. TypeOK
  <2>1. FillTyped
    BY DEF FillTyped
  <2>2. AskTyped /\ RefreshTyped
    BY DEF AskTyped, RefreshTyped
  <2>3. EntryTyped
    BY DEF EntryTyped, EntrySet, NoEntry
  <2>4. DatabaseTyped
    <3>1. source \in 1 .. MaxSource /\ selection \in Epoch
      OBVIOUS
    <3>2. changing \in BOOLEAN
      OBVIOUS
    <3> QED
      BY <3>1, <3>2 DEF DatabaseTyped
  <2>5. VersionsTyped /\ TroubleTyped
    BY DEF VersionsTyped, TroubleTyped
  <2>6. LockTyped /\ requests \subseteq Epoch
    BY DEF LockTyped
  <2> QED
    BY <2>1, <2>2, <2>3, <2>4, <2>5, <2>6, Typed
<1>2. EpochFollows /\ RequestsPast /\ RefreshesOK
  BY DEF EpochFollows, Answered, RequestsPast, RefreshesOK, RefreshOK, NoRefresh
<1>3. EntriesOK /\ FreshIsCurrent
  BY DEF EntriesOK, EntryOK, FreshIsCurrent, NoEntry, Nothing
<1>4. FillsOK
  BY DEF FillsOK, FillOK, NoFill
<1>5. AsksOK
  BY DEF AsksOK, AskOK, NoAsk
<1> QED
  BY <1>1, <1>2, <1>3, <1>4, <1>5 DEF CacheInv

-----------------------------------------------------------------------------
(* What a step leaves alone                                                 *)

\* A step of fills, requests or refreshes, or of a lock.
LEMMA Frame ==
  ASSUME CacheInv, UNCHANGED <<database, versions, entry>>,
         LockTyped', TroubleTyped', requests' \subseteq 0 .. epoch,
         FillTyped', FillsOK', AskTyped', AsksOK', RefreshTyped', RefreshesOK'
  PROVE  CacheInv'
<1>0. UNCHANGED <<source, selection, changing, epoch, generation, announced>>
  BY DEF database, versions
<1>1. (DatabaseTyped /\ VersionsTyped /\ EntryTyped)'
  BY <1>0, Typed DEF CacheInv, DatabaseTyped, VersionsTyped, EntryTyped
<1>2. (requests \subseteq Epoch)'
  BY Assumptions, Typed DEF CacheInv, VersionsTyped, Epoch
<1>3. TypeOK'
  BY <1>1, <1>2, Typed, PTL
<1>4. (EpochFollows /\ RequestsPast /\ EntriesOK /\ FreshIsCurrent)'
  BY <1>0 DEF CacheInv, EpochFollows, Answered, RequestsPast, EntriesOK, EntryOK, FreshIsCurrent
<1> QED
  BY <1>3, <1>4 DEF CacheInv

LEMMA AsksStay ==
  ASSUME CacheInv, UNCHANGED <<epoch, ask>> PROVE AskTyped' /\ AsksOK'
BY Typed DEF CacheInv, AskTyped, AsksOK, AskOK

LEMMA RefreshesStay ==
  ASSUME CacheInv, UNCHANGED <<epoch, refresh>> PROVE RefreshTyped' /\ RefreshesOK'
BY Typed DEF CacheInv, RefreshTyped, RefreshesOK, RefreshOK

LEMMA LockStays ==
  ASSUME CacheInv, UNCHANGED lock PROVE LockTyped'
BY Typed DEF CacheInv, LockTyped

LEMMA TroubleStays ==
  ASSUME CacheInv, UNCHANGED trouble \/ Trouble PROVE TroubleTyped'
BY Assumptions, Typed DEF CacheInv, TroubleTyped, Trouble

LEMMA RequestsStay ==
  ASSUME CacheInv, UNCHANGED requests PROVE requests' \subseteq 0 .. epoch
BY DEF CacheInv, RequestsPast

LEMMA FillsStay ==
  ASSUME CacheInv, UNCHANGED <<database, versions, entry, fill>>,
         \A q \in Process, j \in Epoch : lock'[j] = q => lock[j] = q
  PROVE  FillTyped' /\ FillsOK'
<1>0. UNCHANGED <<source, selection, changing, epoch, generation, announced>>
  BY DEF database, versions
<1> QED
  BY <1>0, Typed DEF CacheInv, FillTyped, FillsOK, FillOK

-----------------------------------------------------------------------------
(* Steps of a fill                                                          *)

\* A fill becomes f, which keeps what FillOK asks for; no other fill gets a
\* lock.
LEMMA FillBecomes ==
  ASSUME CacheInv, NEW p \in Process, NEW k \in Epoch, NEW f \in FillSet(generation),
         k <= epoch,
         fill' = [fill EXCEPT ![p][k] = f],
         UNCHANGED <<database, versions, entry>>,
         \A q \in Process, j \in Epoch : lock'[j] = q => lock[j] = q \/ (q = p /\ j = k),
         Hit(f.data) => f.data.selection >= k,
         f.pc = "store" =>
           /\ f.generation = generation => f.data.source >= announced
           /\ f.data.source <= source /\ f.data.selection <= selection
           /\ lock'[k] = p => /\ f.data.source >= entry[k].data.source
                              /\ f.data.selection >= entry[k].data.selection
  PROVE  FillTyped' /\ FillsOK'
<1> USE Numbers
<1>0. UNCHANGED <<source, selection, changing, epoch, generation, announced>>
  BY DEF database, versions
<1>1. FillTyped'
  BY <1>0, Typed DEF CacheInv, FillTyped
<1>2. FillsOK'
  <2> SUFFICES ASSUME NEW q \in Process, NEW j \in Epoch PROVE FillOK(q, j)'
    BY DEF FillsOK
  <2>1. CASE q = p /\ j = k
    <3>1. fill'[q][j] = f
      BY <2>1, Typed DEF CacheInv, FillTyped
    <3> QED
      BY <1>0, <2>1, <3>1 DEF FillOK
  <2>2. CASE ~ (q = p /\ j = k)
    <3>1. fill'[q][j] = fill[q][j]
      BY <2>2, Typed DEF CacheInv, FillTyped
    <3> QED
      BY <1>0, <2>2, <3>1 DEF CacheInv, FillsOK, FillOK
  <2> QED
    BY <2>1, <2>2
<1> QED
  BY <1>1, <1>2

\* A fill is joined or started.
LEMMA FillStarts ==
  ASSUME CacheInv, NEW p \in Process, NEW k \in Epoch, k <= epoch,
         fill' = [fill EXCEPT ![p][k] = Started(@)] \/ fill' = [fill EXCEPT ![p][k] = StartedWithout(@)],
         UNCHANGED <<database, versions, entry, lock>>
  PROVE  FillTyped' /\ FillsOK'
<1> DEFINE old == fill[p][k]
<1>1. old \in FillSet(generation) /\ generation \in Nat
  BY Typed, Numbers DEF CacheInv, FillTyped, VersionsTyped
<1>2. PICK f : fill' = [fill EXCEPT ![p][k] = f] /\ f \in {old, Started(old), StartedWithout(old)}
  OBVIOUS
<1>3. f # old => \E at \in {"lock", "load"} : f = [NoFill EXCEPT !.pc = at]
  BY <1>2 DEF Started, StartedWithout
<1>4. CASE f = old
  <2>1. FillOK(p, k)
    BY DEF CacheInv, FillsOK
  <2>2. UNCHANGED <<entry, lock>>
    OBVIOUS
  <2> QED
    BY <1>1, <1>2, <1>4, <2>1, <2>2, FillBecomes DEF FillOK
<1>5. CASE f # old
  <2>1. f \in FillSet(generation) /\ f.pc # "store" /\ f.data = Nothing
    <3>1. PICK at \in {"lock", "load"} : f = [NoFill EXCEPT !.pc = at]
      BY <1>3, <1>5
    <3> QED
      BY <1>1, <3>1, Starters
  <2> QED
    BY <1>2, <2>1, Blanks, FillBecomes
<1> QED
  BY <1>4, <1>5

\* A fill under way goes on to f; nobody notices yet.
LEMMA FillMoves ==
  ASSUME CacheInv, NEW p \in Process, NEW k \in Epoch, NEW f \in FillSet(generation),
         fill[p][k].pc # "none", Moved(p, k, f),
         UNCHANGED <<database, versions, entry, requests, ask, refresh>>,
         LockTyped', UNCHANGED trouble \/ Trouble,
         \A q \in Process, j \in Epoch : lock'[j] = q => lock[j] = q \/ (q = p /\ j = k),
         Hit(f.data) => f.data.selection >= k,
         f.pc = "store" =>
           /\ f.generation = generation => f.data.source >= announced
           /\ f.data.source <= source /\ f.data.selection <= selection
           /\ lock'[k] = p => /\ f.data.source >= entry[k].data.source
                              /\ f.data.selection >= entry[k].data.selection
  PROVE  CacheInv'
<1>1. k <= epoch
  BY DEF CacheInv, FillsOK, FillOK
<1>2. FillTyped' /\ FillsOK'
  BY <1>1, FillBecomes DEF Moved
<1>3. UNCHANGED <<epoch, ask, refresh>>
  BY DEF versions
<1> QED
  BY <1>2, <1>3, AsksStay, RefreshesStay, TroubleStays, RequestsStay, Frame

\* A fill comes to its end, with d for those who wait for it.
LEMMA FillSettles ==
  ASSUME CacheInv, NEW p \in Process, NEW k \in Epoch, NEW d \in Data,
         fill[p][k].pc # "none", Settle(p, k, d),
         UNCHANGED <<database, versions, entry, requests>>,
         LockTyped', UNCHANGED trouble \/ Trouble,
         \A q \in Process, j \in Epoch : lock'[j] = q => lock[j] = q,
         Hit(d) => d.selection >= k
  PROVE  CacheInv'
<1> USE Numbers
<1>0. epoch' = epoch /\ k <= epoch /\ generation \in Nat
  BY Typed DEF CacheInv, FillsOK, FillOK, versions, VersionsTyped
<1>1. FillTyped' /\ FillsOK'
  <2>1. PICK f : /\ fill' = [fill EXCEPT ![p][k] = f]
                 /\ f \in {Started(NoFill), NoFill}
    BY DEF Settle
  <2>2. f \in FillSet(generation) /\ f.pc # "store" /\ f.data = Nothing
    <3>1. Started(NoFill) = [NoFill EXCEPT !.pc = "lock"]
      BY DEF Started, NoFill
    <3> QED
      <4>1. CASE f = [NoFill EXCEPT !.pc = "lock"]
        BY <1>0, <4>1, Starters
      <4>2. CASE f = NoFill
        BY <1>0, <4>2, Blanks DEF NoFill
      <4> QED
        BY <2>1, <3>1, <4>1, <4>2
  <2> QED
    BY <1>0, <2>1, <2>2, Blanks, FillBecomes
<1>2. AskTyped' /\ AsksOK'
  <2> SUFFICES ASSUME NEW c \in Client PROVE ask'[c] \in AskSet /\ AskOK(c)'
    BY DEF AskTyped, AsksOK, Settle
  <2>1. ask[c] \in AskSet /\ AskOK(c)
    BY Typed DEF CacheInv, AskTyped, AsksOK
  <2>2. CASE Waits(c, p, k)
    <3>1. ask'[c] = [ask[c] EXCEPT !.pc = "done", !.data = d]
      BY <2>2 DEF Settle
    <3> QED
      BY <1>0, <2>1, <2>2, <3>1 DEF AskSet, AskOK, Waits
  <2>3. CASE ~ Waits(c, p, k)
    <3>1. ask'[c] = ask[c]
      BY <2>3 DEF Settle
    <3> QED
      BY <1>0, <2>1, <3>1 DEF AskOK
  <2> QED
    BY <2>2, <2>3
<1>3. RefreshTyped' /\ RefreshesOK'
  <2> SUFFICES ASSUME NEW n \in Change
               PROVE  refresh'[n] \in RefreshSet /\ RefreshOK(n)'
    BY DEF RefreshTyped, RefreshesOK, Settle
  <2>1. refresh[n] \in RefreshSet /\ RefreshOK(n)
    BY Typed DEF CacheInv, RefreshTyped, RefreshesOK
  <2>2. \/ refresh'[n] = refresh[n]
        \/ refresh'[n] = [refresh[n] EXCEPT !.pc = "wait"]
        \/ /\ refresh'[n] = [refresh[n] EXCEPT !.pc = "next"]
           /\ refresh[n].process = p
    BY DEF Settle, WaitsRefresh
  <2> QED
    BY <1>0, <2>1, <2>2 DEF RefreshSet, RefreshOK
<1> QED
  BY <1>1, <1>2, <1>3, TroubleStays, RequestsStay, Frame

\* Whoever relied on a lock is the only one that loses it.
LEMMA LocksOnlyGo ==
  ASSUME CacheInv, NEW k \in Epoch, lock' = [lock EXCEPT ![k] = Nobody]
  PROVE  LockTyped' /\ \A q \in Process, j \in Epoch : lock'[j] = q => lock[j] = q
BY Assumptions, Typed DEF CacheInv, LockTyped

LEMMA RunFillStep ==
  ASSUME CacheInv, NEW p \in Process, NEW k \in Epoch, RunFill(p, k)
  PROVE  CacheInv'
<1> USE Assumptions, Numbers
<1> DEFINE f == fill[p][k]
<1>0. /\ f \in FillSet(generation) /\ generation \in Nat
      /\ FillOK(p, k) /\ EntryOK(k) /\ epoch = Answered
      /\ entry[k] \in EntrySet(generation)
      /\ lock \in [Epoch -> Process \cup {Nobody}]
      /\ source \in 1 .. MaxSource /\ selection \in Epoch /\ announced \in 1 .. source
  BY Typed DEF CacheInv, FillTyped, FillsOK, EntriesOK, EpochFollows, VersionsTyped,
               EntryTyped, LockTyped, DatabaseTyped
<1>a. f \in FillSet(generation)
  BY <1>0
<1>b. generation \in Nat /\ 0 \in 0 .. generation /\ generation \in 0 .. generation
  BY <1>0
<1>1. ASSUME TakeLock(p, k) PROVE CacheInv'
  <2> DEFINE g == [f EXCEPT !.pc = "generation", !.locked = TRUE]
  <2>1. g \in FillSet(generation) /\ g.pc # "store" /\ (Hit(g.data) => g.data.selection >= k)
    BY <1>0 DEF FillSet, FillOK
  <2>2. LockTyped' /\ \A q \in Process, j \in Epoch : lock'[j] = q => lock[j] = q \/ (q = p /\ j = k)
    BY <1>0, <1>1 DEF TakeLock, LockTyped
  <2> QED
    BY ZenonT(40), <1>1, <2>1, <2>2, FillMoves DEF TakeLock, At, versions, database
<1>2. ASSUME Shared(p, k) PROVE CacheInv'
  <2>1. entry[k].data \in Data /\ (Hit(entry[k].data) => entry[k].data.selection >= k)
    BY <1>0 DEF EntrySet, EntryOK
  <2>2. /\ fill[p][k].pc # "none" /\ Settle(p, k, entry[k].data)
        /\ UNCHANGED <<database, versions, entry, lock, requests, trouble>>
    BY <1>2 DEF Shared, At, redis
  <2> QED
    BY <2>1, <2>2, LockStays, FillSettles
<1>3. ASSUME LooksNoFurther(p, k) PROVE CacheInv'
  <2> DEFINE g == [f EXCEPT !.pc = "load"]
  <2>1. g \in FillSet(generation) /\ g.pc # "store" /\ (Hit(g.data) => g.data.selection >= k)
    BY <1>0 DEF FillSet, FillOK
  <2> QED
    BY <1>3, <2>1, LockStays, FillMoves DEF LooksNoFurther, At, redis
<1>4. ASSUME ReadGeneration(p, k) PROVE CacheInv'
  <2> DEFINE g == [f EXCEPT !.pc = "current", !.generation = generation]
  <2>1. g \in FillSet(generation) /\ g.pc = "current" /\ g.data = f.data
    BY <1>a, <1>b DEF FillSet
  <2>2. Hit(g.data) => g.data.selection >= k
    BY <1>0, <2>1 DEF FillOK
  <2> QED
    BY <1>4, <2>1, <2>2, LockStays, FillMoves DEF ReadGeneration, At, redis
<1>5. ASSUME CheckCurrent(p, k) PROVE CacheInv'
  <2>1. PICK g : /\ Moved(p, k, g)
                 /\ \/ g = [f EXCEPT !.pc = "release", !.data = entry[k].data, !.generation = 0]
                    \/ g = [f EXCEPT !.pc = "load"]
    BY <1>5 DEF CheckCurrent
  <2>2. g \in FillSet(generation) /\ g.pc # "store" /\ (Hit(g.data) => g.data.selection >= k)
    <3>1. entry[k].data \in Data
      BY <1>0 DEF EntrySet
    <3>2. CASE g = [f EXCEPT !.pc = "release", !.data = entry[k].data, !.generation = 0]
      <4>1. g \in FillSet(generation) /\ g.pc = "release" /\ g.data = entry[k].data
        BY <1>a, <1>b, <3>1, <3>2 DEF FillSet
      <4> QED
        BY <1>0, <4>1 DEF EntryOK
    <3>3. CASE g = [f EXCEPT !.pc = "load"]
      BY <1>0, <3>3 DEF FillSet, FillOK
    <3> QED
      BY <2>1, <3>2, <3>3
  <2> QED
    BY <1>5, <2>1, <2>2, LockStays, FillMoves DEF CheckCurrent, At, redis
<1>6. ASSUME Load(p, k) PROVE CacheInv'
  <2> DEFINE g == [f EXCEPT !.pc = IF f.locked THEN "store" ELSE "release",
                            !.data = [source |-> source, selection |-> selection]]
  <2>1. /\ g \in FillSet(generation)
        /\ g.data.source = source /\ g.data.selection = selection
    <3>1. [source |-> source, selection |-> selection] \in Data
      BY <1>0 DEF Data
    <3> QED
      <4>1. g \in FillSet(generation)
            /\ g.data = [source |-> source, selection |-> selection]
        BY <1>a, <1>b, <3>1 DEF FillSet
      <4> QED
        BY <4>1
  <2>2. epoch <= selection /\ k <= epoch
    BY <1>0, <1>6 DEF Load, At, FillOK, Answered
  <2>3. g.data.selection >= k
    BY <1>0, <2>1, <2>2, Typed DEF CacheInv, VersionsTyped
  <2>4. /\ g.data.source >= announced
        /\ g.data.source <= source /\ g.data.selection <= selection
        /\ g.data.source >= entry[k].data.source
        /\ g.data.selection >= entry[k].data.selection
    BY <1>0, <2>1 DEF EntryOK, EntrySet, Data
  <2> QED
    BY <1>6, <2>1, <2>3, <2>4, LockStays, FillMoves DEF Load, At, redis
<1>7. ASSUME Fails(p, k) PROVE CacheInv'
  <2> DEFINE g == [f EXCEPT !.pc = "release", !.generation = 0]
  <2>1. g \in FillSet(generation) /\ g.pc = "release" /\ g.data = f.data
    BY <1>a, <1>b DEF FillSet
  <2>2. Hit(g.data) => g.data.selection >= k
    BY <1>0, <2>1 DEF FillOK
  <2> QED
    BY <1>7, <2>1, <2>2, LockStays, FillMoves DEF Fails, At, redis
<1>8. ASSUME Release(p, k) PROVE CacheInv'
  <2>1. f.data \in Data /\ (Hit(f.data) => f.data.selection >= k)
    BY <1>0 DEF FillSet, FillOK
  <2>2. lock' = lock \/ lock' = [lock EXCEPT ![k] = Nobody]
    BY <1>8 DEF Release, Released
  <2>3. LockTyped' /\ \A q \in Process, j \in Epoch : lock'[j] = q => lock[j] = q
    BY <2>2, LockStays, LocksOnlyGo
  <2> QED
    BY <1>8, <2>1, <2>3, FillSettles DEF Release, At
<1>9. ASSUME ReleaseFails(p, k) PROVE CacheInv'
  <2>1. f.data \in Data /\ (Hit(f.data) => f.data.selection >= k)
    BY <1>0 DEF FillSet, FillOK
  <2> QED
    BY <1>9, <2>1, LockStays, FillSettles DEF ReleaseFails, At, redis
<1>10. ASSUME Store(p, k) PROVE CacheInv'
  <2> DEFINE g == [f EXCEPT !.pc = "release", !.generation = 0]
             e == [data |-> f.data, generation |-> f.generation, aged |-> FALSE]
  <2>0. UNCHANGED <<source, selection, changing, epoch, generation, announced, lock, requests,
                    ask, refresh, trouble>>
    BY <1>10 DEF Store, database, versions
  <2>1. /\ g \in FillSet(generation) /\ g.pc = "release" /\ g.data = f.data
        /\ e \in EntrySet(generation)
    <3>1. e \in EntrySet(generation)
      BY <1>0 DEF FillSet, EntrySet
    <3> QED
      BY <1>a, <1>b, <3>1 DEF FillSet
  <2>2. fill' = [fill EXCEPT ![p][k] = g] /\ f.pc = "store"
    BY <1>10 DEF Store, Moved, At
  <2>3. \/ entry' = entry
        \/ lock[k] = p /\ entry' = [entry EXCEPT ![k] = e]
    BY <1>10 DEF Store, MayStore, Stamp
  <2>4. EntryTyped' /\ FillTyped'
    BY <2>0, <2>1, <2>2, <2>3, Typed DEF CacheInv, EntryTyped, FillTyped
  <2>5. EntriesOK' /\ FreshIsCurrent'
    <3>1. CASE entry' = entry
      BY <2>0, <3>1 DEF CacheInv, EntriesOK, EntryOK, FreshIsCurrent
    <3>2. CASE entry' = [entry EXCEPT ![k] = e]
      <4> SUFFICES ASSUME NEW j \in Epoch
                   PROVE  /\ EntryOK(j)'
                          /\ Hit(entry'[j].data) /\ entry'[j].generation = generation
                               => entry'[j].data.source >= announced
        BY <2>0 DEF EntriesOK, FreshIsCurrent
      <4>1. entry'[j] = IF j = k THEN e ELSE entry[j]
        BY <3>2, Typed DEF CacheInv, EntryTyped
      <4> QED
        BY <1>0, <2>0, <2>2, <4>1 DEF CacheInv, EntriesOK, EntryOK, FreshIsCurrent, FillOK
    <3> QED
      BY <2>3, <3>1, <3>2
  <2>6. FillsOK'
    <3> SUFFICES ASSUME NEW q \in Process, NEW j \in Epoch PROVE FillOK(q, j)'
      BY DEF FillsOK
    <3>1. FillOK(q, j)
      BY DEF CacheInv, FillsOK
    <3>2. fill'[q][j] = IF q = p /\ j = k THEN g ELSE fill[q][j]
      BY <2>2, Typed DEF CacheInv, FillTyped
    <3>3. CASE q = p /\ j = k
      BY <1>0, <2>0, <2>1, <2>2, <3>2, <3>3 DEF FillOK
    <3>4. CASE ~ (q = p /\ j = k)
      <4>1. lock[j] = q => entry'[j] = entry[j]
        BY <2>3, <3>4, Typed DEF CacheInv, EntryTyped
      <4> QED
        BY <2>0, <3>1, <3>2, <3>4, <4>1 DEF FillOK
    <3> QED
      BY <3>3, <3>4
  <2>7. (DatabaseTyped /\ VersionsTyped /\ LockTyped /\ requests \subseteq Epoch /\ AskTyped
         /\ RefreshTyped /\ TroubleTyped)'
    BY <2>0, Typed DEF CacheInv, DatabaseTyped, VersionsTyped, LockTyped, AskTyped, RefreshTyped,
                       TroubleTyped
  <2>8. TypeOK'
    BY <2>4, <2>7, Typed, PTL
  <2>9. (EpochFollows /\ RequestsPast /\ AsksOK /\ RefreshesOK)'
    BY <2>0 DEF CacheInv, EpochFollows, Answered, RequestsPast, AsksOK, AskOK, RefreshesOK, RefreshOK
  <2> QED
    BY <2>5, <2>6, <2>8, <2>9 DEF CacheInv
<1> QED
  BY <1>1, <1>2, <1>3, <1>4, <1>5, <1>6, <1>7, <1>8, <1>9, <1>10 DEF RunFill

-----------------------------------------------------------------------------
(* Steps of a request                                                       *)

LEMMA AskBecomes ==
  ASSUME CacheInv, NEW c \in Client, NEW a \in AskSet,
         ask' = [ask EXCEPT ![c] = a], UNCHANGED epoch,
         a.key <= epoch, a.floor <= a.key, Hit(a.data) => a.data.selection >= a.key,
         a.pc = "look" => a.process \in Process
  PROVE  AskTyped' /\ AsksOK'
<1>1. AskTyped'
  BY Typed DEF CacheInv, AskTyped
<1>2. ASSUME NEW d \in Client PROVE AskOK(d)'
  <2>1. ask'[d] = IF d = c THEN a ELSE ask[d]
    BY Typed DEF CacheInv, AskTyped
  <2> QED
    BY <2>1 DEF CacheInv, AsksOK, AskOK
<1> QED
  BY <1>1, <1>2 DEF AsksOK

LEMMA GetOrLoadStep ==
  ASSUME CacheInv, NEW c \in Client, GetOrLoad(c) PROVE CacheInv'
<1> USE Assumptions, Numbers
<1> DEFINE a == ask[c]
           k == ask[c].key
<1>0. /\ a \in AskSet /\ AskOK(c)
      /\ epoch = Answered /\ epoch \in Epoch
      /\ entry \in [Epoch -> EntrySet(generation)] /\ EntriesOK
      /\ requests \subseteq 0 .. epoch
  BY Typed DEF CacheInv, AskTyped, AsksOK, EpochFollows, VersionsTyped, EntryTyped, RequestsPast
<1>a. epoch \in Nat
  BY <1>0
<1>1. ASSUME NEW p \in Process, Ask(c, p) PROVE CacheInv'
  <2> DEFINE b == [pc |-> "look", process |-> p, key |-> epoch, floor |-> Answered,
                   data |-> Nothing]
  <2>1. /\ b \in AskSet /\ b.key = epoch /\ b.floor = epoch /\ b.data = Nothing
        /\ b.process = p
    BY <1>0, Blanks DEF AskSet
  <2>2. ask' = [ask EXCEPT ![c] = b]
        /\ UNCHANGED <<database, versions, epoch, entry, lock, requests, fill, refresh, trouble>>
    BY <1>1 DEF Ask, redis, versions
  <2>3. AskTyped' /\ AsksOK'
    <3> HIDE DEF b
    <3>1. /\ b.key <= epoch /\ b.floor <= b.key /\ (b.pc = "look" => b.process \in Process)
      BY <1>a, <2>1
    <3>2. Hit(b.data) => b.data.selection >= b.key
      BY <2>1, Blanks, Zenon
    <3>3. epoch' = epoch
      BY <2>2
    <3> QED
      BY <2>1, <2>2, <3>1, <3>2, <3>3, AskBecomes
  <2> QED
    BY <2>2, <2>3, LockStays, TroubleStays, RequestsStay, FillsStay, RefreshesStay, Frame
<1>2. ASSUME Look(c) PROVE CacheInv'
  <2> DEFINE b == [a EXCEPT !.pc = IF Hit(entry[k].data) THEN "done" ELSE "wait",
                            !.data = entry[k].data]
  <2>1. k \in Epoch /\ a.process \in Process
    BY <1>0, <1>2 DEF AskSet, AskOK, Look, Epoch, Key, Fallback
  <2>2. entry[k].data \in Data /\ (Hit(entry[k].data) => entry[k].data.selection >= k)
    BY <1>0, <2>1 DEF EntrySet, EntriesOK, EntryOK
  <2>3. /\ b \in AskSet /\ b.key = k /\ b.floor = a.floor /\ b.data = entry[k].data
        /\ b.pc # "look"
    BY <1>0, <2>2 DEF AskSet
  <2>4. /\ ask' = [ask EXCEPT ![c] = b] /\ requests' = requests \cup {k}
        /\ UNCHANGED <<database, versions, epoch, entry, lock, refresh, trouble>>
    BY <1>2 DEF Look, versions
  <2>5. AskTyped' /\ AsksOK'
    BY <1>0, <2>2, <2>3, <2>4, AskBecomes DEF AskOK
  <2>6. requests' \subseteq 0 .. epoch
    BY <1>0, <2>1, <2>4 DEF AskOK
  <2>7. fill' = fill \/ fill' = [fill EXCEPT ![a.process][k] = Started(@)]
    BY <1>2 DEF Look
  <2>8. FillTyped' /\ FillsOK'
    BY <1>0, <2>1, <2>4, <2>7, FillsStay, FillStarts DEF AskOK
  <2> QED
    BY <2>4, <2>5, <2>6, <2>8, LockStays, TroubleStays, RefreshesStay, Frame
<1>3. ASSUME LookFails(c) PROVE CacheInv'
  <2> DEFINE b == [a EXCEPT !.pc = "wait"]
  <2>1. k \in Epoch /\ a.process \in Process
    BY <1>0, <1>3 DEF AskSet, AskOK, LookFails, Epoch, Key, Fallback
  <2>2. b \in AskSet /\ b.key = k /\ b.floor = a.floor /\ b.data = a.data /\ b.pc # "look"
    BY <1>0 DEF AskSet
  <2>3. /\ ask' = [ask EXCEPT ![c] = b]
        /\ fill' = [fill EXCEPT ![a.process][k] = StartedWithout(@)]
        /\ UNCHANGED <<database, versions, epoch, entry, lock, requests, refresh>>
        /\ Trouble
    BY <1>3 DEF LookFails, redis, versions
  <2>4. AskTyped' /\ AsksOK'
    BY <1>0, <2>2, <2>3, AskBecomes DEF AskOK
  <2>5. FillTyped' /\ FillsOK'
    BY <1>0, <2>1, <2>3, FillStarts DEF AskOK
  <2> QED
    BY <2>3, <2>4, <2>5, LockStays, TroubleStays, RequestsStay, RefreshesStay, Frame
<1>4. ASSUME Leave(c) PROVE CacheInv'
  <2>1. ask' = [ask EXCEPT ![c] = NoAsk]
        /\ UNCHANGED <<database, versions, epoch, entry, lock, requests, fill, refresh, trouble>>
    BY <1>4 DEF Leave, redis, versions
  <2>2. /\ NoAsk.key = 0 /\ NoAsk.floor = 0 /\ NoAsk.data = Nothing
        /\ NoAsk.pc = "idle"
    BY Blanks DEF NoAsk
  <2>3. AskTyped' /\ AsksOK'
    <3>1. NoAsk \in AskSet /\ NoAsk.key <= epoch /\ NoAsk.floor <= NoAsk.key /\ NoAsk.pc # "look"
      BY <1>a, <2>2, Blanks
    <3>2. Hit(NoAsk.data) => NoAsk.data.selection >= NoAsk.key
      BY <2>2, Blanks, Zenon
    <3>3. epoch' = epoch
      BY <2>1
    <3> QED
      BY <2>1, <3>1, <3>2, <3>3, AskBecomes
  <2> QED
    BY <2>1, <2>3, LockStays, TroubleStays, RequestsStay, FillsStay, RefreshesStay, Frame
<1> QED
  BY <1>1, <1>2, <1>3, <1>4 DEF GetOrLoad

-----------------------------------------------------------------------------
(* Steps of a refresh                                                       *)

LEMMA RefreshBecomes ==
  ASSUME CacheInv, NEW n \in Change, NEW r \in RefreshSet,
         refresh' = [refresh EXCEPT ![n] = r], epoch' \in Nat, epoch' >= epoch,
         r.todo \subseteq 0 .. epoch', r.key <= epoch',
         r.pc \in {"announce", "list", "next"} => r.process \in Process
  PROVE  RefreshTyped' /\ RefreshesOK'
<1>1. RefreshTyped'
  BY Typed DEF CacheInv, RefreshTyped
<1>2. ASSUME NEW m \in Change PROVE RefreshOK(m)'
  <2>1. refresh'[m] = IF m = n THEN r ELSE refresh[m]
    BY Typed DEF CacheInv, RefreshTyped
  <2>2. RefreshOK(m) /\ refresh[m] \in RefreshSet /\ epoch \in Nat
    BY Typed, Numbers DEF CacheInv, RefreshesOK, RefreshTyped, VersionsTyped
  <2>3. CASE m = n
    BY <2>1, <2>3 DEF RefreshOK
  <2>4. CASE m # n
    <3>1. refresh[m].key \in Epoch
      BY <2>2 DEF RefreshSet
    <3>2. refresh[m].key \in Nat /\ epoch \in Nat
      BY <2>2, <3>1, Numbers
    <3>3. 0 .. epoch \subseteq 0 .. epoch'
      BY <3>2
    <3> QED
      BY <2>1, <2>2, <2>4, <3>2, <3>3 DEF RefreshOK
  <2> QED
    BY <2>3, <2>4
<1> QED
  BY <1>1, <1>2 DEF RefreshesOK

\* Data, selection, epoch and generation only grow, and that disturbs nothing.
LEMMA Growth ==
  ASSUME CacheInv, UNCHANGED <<entry, lock, requests, fill, ask, trouble>>,
         DatabaseTyped', VersionsTyped', EpochFollows', RefreshTyped', RefreshesOK',
         source' >= source, selection' >= selection, epoch' >= epoch,
         UNCHANGED <<generation, announced>> \/ generation' > generation
  PROVE  CacheInv'
<1> USE Assumptions, Numbers
<1>0. /\ source \in Nat /\ selection \in Nat /\ epoch \in Nat /\ generation \in Nat
      /\ source' \in Nat /\ selection' \in Nat /\ epoch' \in Nat /\ generation' \in Nat
      /\ generation' >= generation
  <2>1. source \in Nat /\ selection \in Nat /\ epoch \in Nat /\ generation \in Nat
    BY Typed, Versions DEF CacheInv
  <2>2. (source \in Nat /\ selection \in Nat /\ epoch \in Nat /\ generation \in Nat)'
    BY Versions, PTL
  <2> QED
    BY <2>1, <2>2
<1>1. EntryTyped' /\ FillTyped'
  <2>1. EntrySet(generation) \subseteq EntrySet(generation')
    BY <1>0 DEF EntrySet
  <2>2. FillSet(generation) \subseteq FillSet(generation')
    BY <1>0 DEF FillSet
  <2> QED
    BY <2>1, <2>2, Typed DEF CacheInv, EntryTyped, FillTyped
<1>2. (LockTyped /\ requests \subseteq Epoch /\ AskTyped /\ TroubleTyped)'
  BY Typed DEF CacheInv, LockTyped, AskTyped, TroubleTyped
<1>3. TypeOK'
  BY <1>1, <1>2, Typed, PTL
<1>4. RequestsPast'
  BY <1>0 DEF CacheInv, RequestsPast
<1>5. ASSUME NEW k \in Epoch
      PROVE  /\ EntryOK(k)'
             /\ (Hit(entry[k].data) /\ entry[k].generation = generation
                  => entry[k].data.source >= announced)'
  <2>1. /\ EntryOK(k) /\ entry[k] \in EntrySet(generation)
        /\ (Hit(entry[k].data) /\ entry[k].generation = generation
             => entry[k].data.source >= announced)
    BY Typed DEF CacheInv, EntriesOK, EntryTyped, FreshIsCurrent
  <2>2. entry[k].data.source \in Nat /\ entry[k].data.selection \in Nat
        /\ entry[k].generation \in 0 .. generation
    <3>1. entry[k].data \in Data /\ entry[k].generation \in 0 .. generation
      BY <2>1 DEF EntrySet
    <3> QED
      BY <3>1, Versions
  <2> QED
    BY <1>0, <2>1, <2>2 DEF EntryOK
<1>6. ASSUME NEW p \in Process, NEW k \in Epoch PROVE FillOK(p, k)'
  <2>1. FillOK(p, k) /\ fill[p][k] \in FillSet(generation)
    BY Typed DEF CacheInv, FillsOK, FillTyped
  <2>2. fill[p][k].data.source \in Nat /\ fill[p][k].data.selection \in Nat
        /\ fill[p][k].generation \in 0 .. generation
    <3>1. fill[p][k].data \in Data /\ fill[p][k].generation \in 0 .. generation
      BY <2>1 DEF FillSet
    <3> QED
      BY <3>1, Versions
  <2> DEFINE f == fill[p][k]
  <2>3. f' = f /\ lock'[k] = lock[k] /\ entry'[k] = entry[k]
    BY <1>0
  <2>4. k <= epoch => k <= epoch'
    BY <1>0, Versions
  <2>5. f.pc = "store" => f.data.source <= source' /\ f.data.selection <= selection'
    BY <1>0, <2>1, <2>2, Versions DEF FillOK
  <2>6. f.pc = "store" /\ f.generation = generation' => f.data.source >= announced'
    <3>1. CASE generation' = generation /\ announced' = announced
      BY <2>1, <3>1 DEF FillOK
    <3>2. CASE generation' > generation
      BY <2>2, <3>2, <1>0, Versions
    <3> QED
      BY <1>0, <3>1, <3>2
  <2> QED
    BY <2>1, <2>3, <2>4, <2>5, <2>6 DEF FillOK
<1>7. ASSUME NEW c \in Client PROVE AskOK(c)'
  <2>1. AskOK(c) /\ ask[c] \in AskSet
    BY Typed DEF CacheInv, AsksOK, AskTyped
  <2>2. ask[c].key \in Nat
    BY <2>1 DEF AskSet
  <2> QED
    BY <1>0, <2>1, <2>2 DEF AskOK
<1> QED
  BY <1>3, <1>4, <1>5, <1>6, <1>7 DEF CacheInv, EntriesOK, FreshIsCurrent, FillsOK, AsksOK

LEMMA AnnounceStep ==
  ASSUME CacheInv, NEW n \in Change, Announce(n) PROVE CacheInv'
<1> DEFINE r == [refresh[n] EXCEPT !.pc = "list"]
<1>0. /\ refresh' = [refresh EXCEPT ![n] = r] /\ refresh[n].pc = "announce"
      /\ generation' = generation + 1 /\ announced' = source
      /\ UNCHANGED <<source, selection, changing, epoch, entry, lock, requests, fill, ask, trouble>>
  BY DEF Announce, database
<1>1. /\ refresh[n] \in RefreshSet /\ RefreshOK(n)
      /\ source \in 1 .. MaxSource /\ epoch \in Epoch /\ generation \in Nat /\ epoch \in Nat
  BY Typed, Numbers, Versions
  DEF CacheInv, RefreshTyped, RefreshesOK, DatabaseTyped, VersionsTyped
<1>2. /\ r \in RefreshSet /\ r.todo = refresh[n].todo /\ r.key = refresh[n].key
      /\ r.process = refresh[n].process
  BY <1>1 DEF RefreshSet
<1>3. RefreshTyped' /\ RefreshesOK'
  <2> HIDE DEF r
  <2>1. epoch' = epoch /\ epoch' \in Nat /\ epoch' >= epoch
    BY <1>0, <1>1
  <2>2. r.todo \subseteq 0 .. epoch' /\ r.key <= epoch' /\ r.process \in Process
    BY <1>0, <1>1, <1>2, <2>1 DEF RefreshOK
  <2> QED
    BY <1>0, <1>2, <2>1, <2>2, RefreshBecomes
<1>4. source \in Nat /\ source \in 1 .. source /\ selection \in Nat
  BY <1>1, Typed, Versions DEF CacheInv
<1>5. DatabaseTyped'
  BY <1>0, Typed DEF CacheInv, DatabaseTyped
<1>6. VersionsTyped'
  BY <1>0, <1>1, <1>4 DEF VersionsTyped
<1>7. EpochFollows'
  BY <1>0 DEF CacheInv, EpochFollows, Answered
<1> QED
  BY <1>0, <1>1, <1>3, <1>4, <1>5, <1>6, <1>7, Growth

LEMMA RefreshAffectedStep ==
  ASSUME CacheInv, NEW n \in Change, RefreshAffected(n) PROVE CacheInv'
<1> DEFINE old == refresh[n]
<1>0. /\ old \in RefreshSet /\ RefreshOK(n) /\ epoch \in Epoch /\ epoch \in Nat
      /\ requests \subseteq 0 .. epoch /\ requests \subseteq Epoch
  BY Typed, Versions
  DEF CacheInv, RefreshTyped, RefreshesOK, VersionsTyped, RequestsPast
<1>a. old.todo \in SUBSET Epoch
  BY <1>0 DEF RefreshSet
\* A refresh that goes on as r leaves the rest as it is.
<1>1. ASSUME NEW r \in RefreshSet,
             refresh' = [refresh EXCEPT ![n] = r],
             r.todo \subseteq 0 .. epoch, r.key <= epoch,
             r.pc \in {"announce", "list", "next"} => r.process \in Process,
             UNCHANGED <<database, versions, entry, lock, ask>>,
             UNCHANGED trouble \/ Trouble,
             requests' \subseteq 0 .. epoch,
             FillTyped', FillsOK'
      PROVE  CacheInv'
  <2>1. epoch' = epoch
    BY <1>1 DEF versions
  <2>2. RefreshTyped' /\ RefreshesOK'
    <3>1. epoch' \in Nat /\ epoch' >= epoch
      BY <1>0, <2>1
    <3>2. r.todo \subseteq 0 .. epoch' /\ r.key <= epoch'
      BY <1>1, <2>1
    <3> QED
      BY <1>1, <3>1, <3>2, RefreshBecomes
  <2> QED
    BY <1>1, <2>1, <2>2, AsksStay, LockStays, TroubleStays, Frame
<1>2. CASE Announce(n)
  BY <1>2, AnnounceStep
<1>3. ASSUME List(n) PROVE CacheInv'
  <2> DEFINE r == [old EXCEPT !.pc = "next", !.todo = requests]
  <2>1. /\ refresh' = [refresh EXCEPT ![n] = r] /\ old.pc = "list"
        /\ UNCHANGED <<database, versions, entry, lock, requests, fill, ask, trouble>>
    BY <1>3 DEF List, redis
  <2>2. r \in RefreshSet /\ r.todo = requests /\ r.key = old.key /\ r.process = old.process
    BY <1>0 DEF RefreshSet
  <2>3. FillTyped' /\ FillsOK'
    BY <2>1, FillsStay
  <2> HIDE DEF r
  <2> QED
    BY <1>0, <1>1, <2>1, <2>2, <2>3 DEF RefreshOK
<1>4. ASSUME NEW k \in Epoch, Forget(n, k) PROVE CacheInv'
  <2> DEFINE r == [old EXCEPT !.todo = @ \ {k}]
  <2>1. /\ refresh' = [refresh EXCEPT ![n] = r] /\ old.pc = "next"
        /\ requests' = requests \ {k}
        /\ UNCHANGED <<database, versions, entry, lock, fill, ask, trouble>>
    BY <1>4 DEF Forget
  <2>2. r \in RefreshSet /\ r.todo \subseteq old.todo /\ r.key = old.key /\ r.process = old.process
    BY <1>0, <1>a DEF RefreshSet
  <2>3. FillTyped' /\ FillsOK'
    BY <2>1, FillsStay
  <2> HIDE DEF r
  <2> QED
    BY <1>0, <1>1, <2>1, <2>2, <2>3 DEF RefreshOK
<1>5. ASSUME Refill(n) PROVE CacheInv'
  <2> DEFINE p == old.process
             r == [old EXCEPT !.pc = IF At(p, epoch, "none") THEN "wait" ELSE "await",
                              !.todo = @ \ {epoch}, !.key = epoch]
  <2>1. /\ refresh' = [refresh EXCEPT ![n] = r] /\ old.pc = "next"
        /\ fill' = [fill EXCEPT ![p][epoch] = Started(@)]
        /\ UNCHANGED <<database, versions, entry, lock, requests, ask, trouble>>
    <3>1. /\ refresh' = [refresh EXCEPT ![n] = r] /\ old.pc = "next"
          /\ fill' = [fill EXCEPT ![p][epoch] = Started(@)]
      BY <1>5 DEF Refill
    <3>2. UNCHANGED <<database, versions, entry, lock, requests, ask, trouble>>
      BY <1>5 DEF Refill, redis
    <3> QED
      BY <3>1, <3>2
  <2>2. /\ r \in RefreshSet /\ r.todo \subseteq old.todo /\ r.key = epoch
        /\ r.pc \in {"wait", "await"}
    BY <1>0, <1>a DEF RefreshSet
  <2>3. p \in Process
    BY <1>0, <2>1 DEF RefreshOK
  <2>4. FillTyped' /\ FillsOK'
    <3>1. epoch <= epoch /\ UNCHANGED <<database, versions, entry, lock>>
      BY <1>0, <2>1
    <3> HIDE DEF p
    <3> QED
      BY <1>0, <2>1, <2>3, <3>1, FillStarts
  <2> HIDE DEF r
  <2> QED
    <3>1. r.todo \subseteq 0 .. epoch /\ r.key <= epoch /\ requests' \subseteq 0 .. epoch
      BY <1>0, <2>1, <2>2 DEF RefreshOK
    <3> QED
      BY <1>1, <2>1, <2>2, <2>4, <3>1
<1>6. ASSUME NEW r \in RefreshSet, r = [NoRefresh EXCEPT !.pc = "done"],
             refresh' = [refresh EXCEPT ![n] = r],
             UNCHANGED <<database, redis, fill, ask>>, UNCHANGED trouble \/ Trouble
      PROVE  CacheInv'
  <2>1. r.todo = {} /\ r.key = 0 /\ r.pc = "done"
    BY <1>6 DEF NoRefresh
  <2>2. UNCHANGED <<versions, entry, lock, requests>>
    BY <1>6 DEF redis
  <2>3. FillTyped' /\ FillsOK'
    BY <1>6, <2>2, FillsStay
  <2> QED
    <3>1. r.todo \subseteq 0 .. epoch /\ r.key <= epoch /\ requests' \subseteq 0 .. epoch
      BY <1>0, <2>1, <2>2
    <3> QED
      BY <1>1, <1>6, <2>1, <2>2, <2>3, <3>1
<1>7. [NoRefresh EXCEPT !.pc = "done"] \in RefreshSet
  BY Numbers DEF NoRefresh, RefreshSet
<1>8. CASE Refreshed(n)
  BY <1>6, <1>7, <1>8 DEF Refreshed
<1>9. ASSUME RefreshFails(n) PROVE CacheInv'
  <2>1. UNCHANGED <<database, redis, fill, ask>> /\ Trouble
    BY <1>9 DEF RefreshFails
  <2>2. CASE refresh' = [refresh EXCEPT ![n] = [NoRefresh EXCEPT !.pc = "done"]]
    BY <1>6, <1>7, <2>1, <2>2
  <2>3. ASSUME NEW k \in old.todo, refresh' = [refresh EXCEPT ![n].todo = @ \ {k}],
               old.pc = "next"
        PROVE  CacheInv'
    <3> DEFINE r == [old EXCEPT !.todo = @ \ {k}]
    <3>1. /\ refresh' = [refresh EXCEPT ![n] = r]
          /\ UNCHANGED <<versions, entry, lock, requests>>
      BY <2>1, <2>3 DEF redis
    <3>2. r \in RefreshSet /\ r.todo \subseteq old.todo /\ r.key = old.key
          /\ r.process = old.process
      BY <1>0, <1>a DEF RefreshSet
    <3>3. FillTyped' /\ FillsOK'
      BY <2>1, <3>1, FillsStay
    <3> HIDE DEF r
    <3> QED
      BY <1>0, <1>1, <2>1, <2>3, <3>1, <3>2, <3>3 DEF RefreshOK
  <2> QED
    BY <1>9, <2>2, <2>3 DEF RefreshFails
<1> QED
  BY <1>2, <1>3, <1>4, <1>5, <1>8, <1>9 DEF RefreshAffected

-----------------------------------------------------------------------------
(* The other steps                                                          *)

LEMMA DataChangesStep ==
  ASSUME CacheInv, NEW p \in Process, DataChanges(p) PROVE CacheInv'
<1> DEFINE r == [pc |-> "announce", process |-> p, todo |-> {}, key |-> 0]
           n == source + 1
<1>0. /\ source' = source + 1 /\ source < MaxSource
      /\ refresh' = [refresh EXCEPT ![n] = r]
      /\ UNCHANGED <<selection, changing, epoch, generation, announced, entry, lock, requests,
                     fill, ask, trouble>>
  BY DEF DataChanges, redis, versions
<1>1. /\ source \in 1 .. MaxSource /\ source \in Nat /\ selection \in Nat /\ epoch \in Nat
      /\ announced \in 1 .. source /\ MaxSource \in Nat
  BY Assumptions, Typed, Versions DEF CacheInv, DatabaseTyped, VersionsTyped, Assumptions
<1>2. n \in Change /\ source' \in 1 .. MaxSource /\ announced \in 1 .. source'
  BY <1>0, <1>1 DEF Change
<1>3. r \in RefreshSet /\ r.todo = {} /\ r.key = 0 /\ r.process = p
  BY Numbers DEF RefreshSet
<1>4. RefreshTyped' /\ RefreshesOK'
  <2> HIDE DEF r, n
  <2>1. epoch' \in Nat /\ epoch' >= epoch /\ r.todo \subseteq 0 .. epoch' /\ r.key <= epoch'
    BY <1>0, <1>1, <1>3
  <2> QED
    BY <1>0, <1>2, <1>3, <2>1, RefreshBecomes
<1>5. DatabaseTyped'
  BY <1>0, <1>2, Typed DEF CacheInv, DatabaseTyped
<1>6. VersionsTyped'
  BY <1>0, <1>2, Typed DEF CacheInv, VersionsTyped
<1>7. EpochFollows'
  BY <1>0 DEF CacheInv, EpochFollows, Answered
<1>8. source' >= source /\ selection' >= selection /\ epoch' >= epoch
  BY <1>0, <1>1
<1> QED
  BY <1>0, <1>4, <1>5, <1>6, <1>7, <1>8, Growth

LEMMA SelectionChangesStep ==
  ASSUME CacheInv, SelectionChanges PROVE CacheInv'
<1>0. /\ changing = FALSE /\ changing' = TRUE
      /\ selection' = selection + 1 /\ selection < MaxSelection
      /\ UNCHANGED <<source, epoch, generation, announced, entry, lock, requests, fill, ask,
                     refresh, trouble>>
  BY Typed DEF SelectionChanges, redis, versions, calls, CacheInv, DatabaseTyped
<1>1. /\ selection \in Nat /\ source \in Nat /\ epoch \in Nat /\ MaxSelection \in Nat
  BY Assumptions, Typed, Versions DEF CacheInv, Assumptions
<1>2. DatabaseTyped'
  <2>1. selection' \in Epoch
    BY <1>0, <1>1 DEF Epoch
  <2> QED
    BY <1>0, <2>1, Typed DEF CacheInv, DatabaseTyped
<1>3. VersionsTyped'
  BY <1>0, Typed DEF CacheInv, VersionsTyped
<1>4. EpochFollows'
  BY <1>0, <1>1 DEF CacheInv, EpochFollows, Answered
<1>5. RefreshTyped' /\ RefreshesOK'
  BY <1>0, RefreshesStay
<1>6. source' >= source /\ selection' >= selection /\ epoch' >= epoch
  BY <1>0, <1>1
<1> QED
  BY <1>0, <1>2, <1>3, <1>4, <1>5, <1>6, Growth

LEMMA InvalidateStep ==
  ASSUME CacheInv, Invalidate PROVE CacheInv'
<1>0. /\ changing /\ changing' = FALSE /\ epoch' = epoch + 1
      /\ UNCHANGED <<source, selection, generation, announced, entry, lock, requests, fill, ask,
                     refresh, trouble>>
  BY DEF Invalidate, NewEpoch, calls
<1>1. selection \in Nat /\ source \in Nat /\ epoch \in Nat
  BY Typed, Versions DEF CacheInv
<1>2. epoch' = selection
  BY <1>0, <1>1 DEF CacheInv, EpochFollows, Answered
<1>3. DatabaseTyped' /\ VersionsTyped'
  <2>1. DatabaseTyped'
    BY <1>0, Typed DEF CacheInv, DatabaseTyped
  <2>2. VersionsTyped'
    BY <1>0, <1>2, Typed DEF CacheInv, DatabaseTyped, VersionsTyped
  <2> QED
    BY <2>1, <2>2
<1>4. EpochFollows'
  BY <1>0, <1>2 DEF EpochFollows, Answered
<1>5. RefreshTyped' /\ RefreshesOK'
  <2>1. RefreshTyped'
    BY <1>0, Typed DEF CacheInv, RefreshTyped
  <2>2. ASSUME NEW n \in Change PROVE RefreshOK(n)'
    <3>1. RefreshOK(n) /\ refresh[n] \in RefreshSet
      BY Typed DEF CacheInv, RefreshesOK, RefreshTyped
    <3>2. refresh[n].key \in Nat
      BY <3>1, Numbers DEF RefreshSet
    <3> QED
      BY <1>0, <1>1, <3>1, <3>2 DEF RefreshOK
  <2> QED
    BY <2>1, <2>2 DEF RefreshesOK
<1>6. source' >= source /\ selection' >= selection /\ epoch' >= epoch
  BY <1>0, <1>1
<1> QED
  BY <1>0, <1>3, <1>4, <1>5, <1>6, Growth

LEMMA LockExpiresStep ==
  ASSUME CacheInv, NEW k \in Epoch, LockExpires(k) PROVE CacheInv'
<1>1. /\ lock' = [lock EXCEPT ![k] = Nobody] /\ (UNCHANGED trouble \/ Trouble)
      /\ UNCHANGED <<database, versions, entry, requests, fill, ask, refresh>>
  BY DEF LockExpires, calls
<1>2. epoch' = epoch
  BY <1>1 DEF versions
<1>3. LockTyped' /\ \A q \in Process, j \in Epoch : lock'[j] = q => lock[j] = q
  BY <1>1, LocksOnlyGo
<1>4. FillTyped' /\ FillsOK'
  BY <1>1, <1>3, FillsStay
<1> QED
  BY <1>1, <1>2, <1>3, <1>4, AsksStay, RefreshesStay, TroubleStays, RequestsStay, Frame

LEMMA AgeStep ==
  ASSUME CacheInv, NEW k \in Epoch, Age(k) PROVE CacheInv'
<1>0. /\ entry' = [entry EXCEPT ![k].aged = TRUE] /\ Trouble
      /\ UNCHANGED <<source, selection, changing, epoch, generation, announced, lock, requests,
                     fill, ask, refresh>>
  BY DEF Age, database, versions, calls
<1>1. ASSUME NEW j \in Epoch
      PROVE  /\ entry'[j] \in EntrySet(generation)
             /\ entry'[j].data = entry[j].data /\ entry'[j].generation = entry[j].generation
  BY <1>0, Typed DEF CacheInv, EntryTyped, EntrySet
<1>2. EntryTyped'
  BY <1>0, <1>1, Typed DEF CacheInv, EntryTyped
<1>3. EntriesOK' /\ FreshIsCurrent'
  BY <1>0, <1>1 DEF CacheInv, EntriesOK, EntryOK, FreshIsCurrent
<1>4. FillsOK'
  BY <1>0, <1>1 DEF CacheInv, FillsOK, FillOK
<1>5. (DatabaseTyped /\ VersionsTyped /\ LockTyped /\ requests \subseteq Epoch /\ FillTyped
       /\ AskTyped /\ RefreshTyped)'
  BY <1>0, Typed DEF CacheInv, DatabaseTyped, VersionsTyped, LockTyped, FillTyped, AskTyped,
                     RefreshTyped
<1>6. TypeOK'
  BY <1>0, <1>2, <1>5, TroubleStays, Typed, PTL
<1>7. (EpochFollows /\ RequestsPast /\ AsksOK /\ RefreshesOK)'
  BY <1>0 DEF CacheInv, EpochFollows, Answered, RequestsPast, AsksOK, AskOK, RefreshesOK, RefreshOK
<1> QED
  BY <1>3, <1>4, <1>6, <1>7 DEF CacheInv

LEMMA DiesStep ==
  ASSUME CacheInv, NEW p \in Process, Dies(p) PROVE CacheInv'
<1>0. /\ Trouble /\ UNCHANGED <<database, versions, entry, lock, requests>>
      /\ fill' = [fill EXCEPT ![p] = [k \in Key |-> NoFill]]
      /\ ask' = [c \in Client |-> IF ask[c].process = p THEN NoAsk ELSE ask[c]]
      /\ refresh' = [n \in Change |->
           IF refresh[n].process = p THEN [NoRefresh EXCEPT !.pc = "done"] ELSE refresh[n]]
  BY DEF Dies, redis
<1>1. /\ UNCHANGED <<source, selection, epoch, generation, announced>>
      /\ epoch \in Nat /\ generation \in Nat
  BY <1>0, Typed, Versions DEF CacheInv, database, versions
<1>2. FillTyped'
  BY <1>0, <1>1, Blanks, Typed DEF CacheInv, FillTyped
<1>3. ASSUME NEW q \in Process, NEW k \in Epoch PROVE FillOK(q, k)'
  <2>1. fill'[q][k] = IF q = p THEN NoFill ELSE fill[q][k]
    BY <1>0, Typed, Numbers DEF CacheInv, FillTyped
  <2>2. CASE q = p
    <3>1. NoFill.pc = "none" /\ NoFill.data = Nothing
      BY DEF NoFill
    <3> QED
      BY <2>1, <2>2, <3>1, Blanks DEF FillOK
  <2>3. CASE q # p
    BY <1>0, <1>1, <2>1, <2>3 DEF CacheInv, FillsOK, FillOK
  <2> QED
    BY <2>2, <2>3
<1>4. ASSUME NEW c \in Client PROVE ask'[c] \in AskSet /\ AskOK(c)'
  <2>1. ask[c] \in AskSet /\ AskOK(c)
    BY Typed DEF CacheInv, AskTyped, AsksOK
  <2>2. CASE ask'[c] = NoAsk
    BY <1>1, <2>2, Blanks DEF AskOK, NoAsk
  <2>3. CASE ask'[c] = ask[c]
    BY <1>1, <2>1, <2>3 DEF AskOK
  <2> QED
    BY <1>0, <2>2, <2>3
<1>5. ASSUME NEW n \in Change PROVE refresh'[n] \in RefreshSet /\ RefreshOK(n)'
  <2>1. refresh[n] \in RefreshSet /\ RefreshOK(n)
    BY Typed DEF CacheInv, RefreshTyped, RefreshesOK
  <2>2. CASE refresh'[n] = [NoRefresh EXCEPT !.pc = "done"]
    BY <1>1, <2>2, Numbers DEF RefreshOK, NoRefresh, RefreshSet
  <2>3. CASE refresh'[n] = refresh[n]
    BY <1>1, <2>1, <2>3 DEF RefreshOK
  <2> QED
    BY <1>0, <2>2, <2>3
<1>6. AskTyped' /\ AsksOK'
  BY <1>0, <1>4 DEF AskTyped, AsksOK
<1>7. RefreshTyped' /\ RefreshesOK'
  BY <1>0, <1>5 DEF RefreshTyped, RefreshesOK
<1> QED
  BY <1>0, <1>2, <1>3, <1>6, <1>7, LockStays, TroubleStays, RequestsStay, Frame DEF FillsOK

LEMMA CacheStep == CacheInv /\ [Next]_vars => CacheInv'
<1> SUFFICES ASSUME CacheInv, [Next]_vars PROVE CacheInv'
  OBVIOUS
<1>1. CASE UNCHANGED vars
  <2>1. UNCHANGED <<database, versions, entry, lock, requests, fill, ask, refresh, trouble, epoch>>
    BY <1>1 DEF vars, redis, calls, versions
  <2> QED
    BY <2>1, FillsStay, AsksStay, RefreshesStay, LockStays, TroubleStays, RequestsStay, Frame
<1>2. CASE \E c \in Client : GetOrLoad(c)
  BY <1>2, GetOrLoadStep
<1>3. CASE \E p \in Process, k \in Epoch : RunFill(p, k)
  BY <1>3, RunFillStep
<1>4. CASE \E p \in Process : DataChanges(p) \/ Dies(p)
  BY <1>4, DataChangesStep, DiesStep
<1>5. CASE \E n \in Change : RefreshAffected(n)
  BY <1>5, RefreshAffectedStep
<1>6. CASE SelectionChanges \/ Invalidate
  BY <1>6, SelectionChangesStep, InvalidateStep
<1>7. CASE \E k \in Epoch : LockExpires(k) \/ Age(k)
  BY <1>7, LockExpiresStep, AgeStep
<1> QED
  BY <1>1, <1>2, <1>3, <1>4, <1>5, <1>6, <1>7 DEF Next

-----------------------------------------------------------------------------
(* Theorems                                                                 *)

\* The invariant the theorems below follow from holds throughout.
THEOREM CacheInvariant == Spec => []CacheInv
BY CacheInit, CacheStep, PTL DEF Spec

\* The cache is well-typed: no entry bears a generation to come, no key is of
\* an epoch to come (SummaryCacheService).
THEOREM CacheTyped == Spec => []TypeOK
<1>1. CacheInv => TypeOK
  BY DEF CacheInv
<1> QED
  BY <1>1, CacheInvariant, PTL

\* No request gets a total of a selection before the one whose change had been
\* answered (getOrLoad, runFill and invalidate).
THEOREM SelectionIsRespected == Spec => []SelectionRespected
<1>1. CacheInv => SelectionRespected
  <2> SUFFICES ASSUME CacheInv, NEW c \in Client, Hit(ask[c].data)
               PROVE  ask[c].data.selection >= ask[c].floor
    BY DEF SelectionRespected
  <2>1. ask[c] \in AskSet /\ AskOK(c)
    BY Typed DEF CacheInv, AskTyped, AsksOK
  <2>2. ask[c].key \in Key /\ ask[c].floor \in Epoch /\ ask[c].data \in Data
    BY <2>1 DEF AskSet
  <2>3. ask[c].key \in Nat /\ ask[c].floor \in Nat /\ ask[c].data.selection \in Nat
    BY <2>2, Versions, Numbers
  <2> QED
    BY <2>1, <2>3 DEF AskOK
<1> QED
  BY <1>1, CacheInvariant, PTL

\* No entry of the present generation lacks a change that was announced
\* (runFill and refreshAffected).
THEOREM FreshStaysCurrent == Spec => []FreshIsCurrent
<1>1. CacheInv => FreshIsCurrent
  BY DEF CacheInv
<1> QED
  BY <1>1, CacheInvariant, PTL

\* No fill overwrites a newer result, whatever locks expire and processes die
\* (runFill).
THEOREM NothingGrowsOlder == Spec => NeverOlder
<1>1. ASSUME CacheInv, [Next]_vars
      PROVE  [\A k \in Epoch :
                /\ entry'[k].data.source >= entry[k].data.source
                /\ entry'[k].data.selection >= entry[k].data.selection]_vars
  <2> SUFFICES ASSUME Next, NEW k \in Epoch
               PROVE  /\ entry'[k].data.source >= entry[k].data.source
                      /\ entry'[k].data.selection >= entry[k].data.selection
    BY <1>1
  <2>0. entry[k].data.source \in Nat /\ entry[k].data.selection \in Nat
    <3>1. entry[k].data \in Data
      BY <1>1, Typed DEF CacheInv, EntryTyped, EntrySet
    <3> QED
      BY <3>1, Versions
  <2>1. CASE entry' = entry
    BY <2>0, <2>1
  <2>2. ASSUME NEW p \in Process, NEW j \in Epoch, Store(p, j)
        PROVE  /\ entry'[k].data.source >= entry[k].data.source
               /\ entry'[k].data.selection >= entry[k].data.selection
    <3> DEFINE e == [data |-> fill[p][j].data, generation |-> fill[p][j].generation,
                     aged |-> FALSE]
    <3>1. (lock[j] = p /\ entry' = [entry EXCEPT ![j] = e]) \/ entry' = entry
      BY <2>2 DEF Store, MayStore, Stamp
    <3>2. FillOK(p, j) /\ fill[p][j].pc = "store"
      BY <1>1, <2>2 DEF CacheInv, FillsOK, Store, At
    <3>3. entry' # entry => entry'[k] = IF k = j THEN e ELSE entry[k]
      BY <1>1, <3>1, Typed DEF CacheInv, EntryTyped
    <3> QED
      BY <2>0, <2>1, <3>1, <3>2, <3>3 DEF FillOK
  <2>3. ASSUME NEW j \in Epoch, Age(j)
        PROVE  entry'[k].data = entry[k].data
    BY <1>1, <2>3, Typed DEF Age, CacheInv, EntryTyped, EntrySet
  <2> DEFINE Writes == \/ \E p \in Process, j \in Epoch : Store(p, j)
                       \/ \E j \in Epoch : Age(j)
  <2>4. entry' = entry \/ Writes
    <3>1. ASSUME NEW c \in Client, GetOrLoad(c) PROVE entry' = entry
      BY <3>1 DEF GetOrLoad, Ask, Look, LookFails, Leave, redis
    <3>2. ASSUME NEW p \in Process, NEW j \in Epoch, RunFill(p, j)
          PROVE  entry' = entry \/ Store(p, j)
      <4>1. CASE TakeLock(p, j) \/ Shared(p, j) \/ ReadGeneration(p, j) \/ CheckCurrent(p, j)
        BY <4>1 DEF TakeLock, Shared, ReadGeneration, CheckCurrent, redis
      <4>2. CASE Load(p, j) \/ Release(p, j) \/ LooksNoFurther(p, j)
        BY <4>2 DEF Load, Release, LooksNoFurther, redis
      <4>3. CASE Fails(p, j) \/ ReleaseFails(p, j)
        BY <4>3 DEF Fails, ReleaseFails, redis
      <4> QED
        BY <3>2, <4>1, <4>2, <4>3 DEF RunFill
    <3>3. ASSUME NEW p \in Process, DataChanges(p) \/ Dies(p) PROVE entry' = entry
      BY <3>3 DEF DataChanges, Dies, redis
    <3>4. ASSUME NEW n \in Change, RefreshAffected(n) PROVE entry' = entry
      BY <3>4 DEF RefreshAffected, Announce, List, Forget, Refill, Refreshed, RefreshFails, redis
    <3>5. CASE SelectionChanges \/ Invalidate
      BY <3>5 DEF SelectionChanges, Invalidate, redis
    <3>6. ASSUME NEW j \in Epoch, LockExpires(j) PROVE entry' = entry
      BY <3>6 DEF LockExpires
    <3> QED
      BY <3>1, <3>2, <3>3, <3>4, <3>5, <3>6 DEF Next
  <2> QED
    BY <2>0, <2>1, <2>2, <2>3, <2>4
<1> QED
  BY <1>1, CacheInvariant, PTL DEF Spec, NeverOlder

=============================================================================
