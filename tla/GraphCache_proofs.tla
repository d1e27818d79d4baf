--------------------------- MODULE GraphCache_proofs ---------------------------
(***************************************************************************)
(* Of any number of processes, requests, revisions, visits and changes: no *)
(* fill takes the mark of a change with it, no change goes unmarked, and a *)
(* refresh ends with a fill that is as new as its change.                  *)
(***************************************************************************)
EXTENDS GraphCache, TLAPS

Fills(s) == [pc : {"none", "lock", "load", "store", "stored", "failed"},
             token : Token, data : 0 .. s]
VisitSet == [pc : {"none", "write", "drop", "warm", "done"},
             process : Process \cup {Nobody}, batch : SUBSET Revision, keeps : BOOLEAN,
             current : Plan, reactivating : BOOLEAN]
RefreshSet == [pc : {"none", "activity", "list", "mark", "fill", "await", "wait", "done"},
               process : Process \cup {Nobody}, revision : Plan]

FillTyped == fill \in [Process -> [Revision -> Fills(source)]]
VisitTyped == visit \in [Visit -> VisitSet]
RefreshTyped == refresh \in [Change -> RefreshSet]
ResultTyped == result \in [Revision -> 0 .. source]
MarkTyped == mark \in [Revision -> Token]
LockTyped == lock \in [Revision -> Process \cup {Nobody}]
MarkedTyped == marked \in [Revision -> 0 .. source]
PassedTyped == passed \in [Revision -> SUBSET Change]

\* Whoever works at a revision has its lock, unless one expired too early.
Working == {"load", "store", "stored", "failed"}
LockHeld ==
  \A p \in Process, r \in Revision \ outlived : fill[p][r].pc \in Working => lock[r] = p

\* What a step of a refresh or a visit is about.
Marking == {"none", "activity", "list", "mark"}
Known ==
  /\ \A v \in Visit : visit[v].pc = "drop" => visit[v].current \in Revision
  /\ \A n \in Change : /\ refresh[n].pc \in {"mark", "fill", "await", "wait"} =>
                            refresh[n].revision \in Revision /\ refresh[n].process \in Process
                       /\ refresh[n].pc \in {"activity", "list"} => refresh[n].process \in Process
                       /\ refresh[n].pc # "none" \/ refresh[n].process \in Process => n <= source

\* Each token is set once: by one refresh, or by one visit.
Used(t) ==
  \/ t = NoToken
  \/ t \in Change /\ refresh[t].pc \notin Marking
  \/ t \in {MaxSource + v : v \in {w \in Visit : visit[w].pc \notin {"none", "write"}}}
TokensUsed ==
  /\ \A r \in Revision : Used(mark[r])
  /\ \A p \in Process, r \in Revision : Used(fill[p][r].token)

\* A mark that is still the one a fill has read is older than what it has loaded.
FillFresh(p, r) ==
  /\ fill[p][r].pc \in {"load", "store", "stored"} =>
       mark[r] = fill[p][r].token \/ mark[r] # NoToken
  /\ fill[p][r].pc \in {"store", "stored"} /\ mark[r] = fill[p][r].token =>
       fill[p][r].data >= marked[r]
  /\ fill[p][r].pc = "stored" => result[r] \in {fill[p][r].data, Nothing}
FillsFresh == \A p \in Process, r \in Revision \ outlived : FillFresh(p, r)

\* A refresh waits for a fill that has loaded its change, or is going to.
WaitsRight ==
  \A n \in Change, p \in Process, r \in Revision :
    Waits(refresh[n], p, r) /\ fill[p][r].pc \in {"store", "stored"} => fill[p][r].data >= n

\* A change that has been looked for is marked for, or was passed over, or the dashboard
\* is left alone.
Covered(r, n) == n <= marked[r] \/ Due(n) \/ n \in passed[r]
AllCovered == active => \A r \in Revision, n \in Change : n <= source => Covered(r, n)
ListedOne ==
  \A n \in Change : refresh[n].pc = "mark" =>
    \A r \in Revision \ {refresh[n].revision} : n \in passed[r]

GraphInv ==
  /\ TypeOK /\ Known /\ LockHeld /\ TokensUsed /\ FillsFresh /\ MarkKept
  /\ WaitsRight /\ AllCovered /\ ListedOne

-----------------------------------------------------------------------------
(* Types                                                                    *)

LEMMA Typed ==
  TypeOK <=>
    /\ source \in 1 .. MaxSource /\ active \in BOOLEAN /\ plan \in Plan
    /\ ResultTyped /\ MarkTyped /\ LockTyped /\ FillTyped /\ ask \in [Client -> Plan]
    /\ VisitTyped /\ RefreshTyped /\ MarkedTyped /\ PassedTyped
    /\ outlived \subseteq Revision /\ trouble \in 0 .. MaxTrouble
BY DEF TypeOK, ResultTyped, MarkTyped, LockTyped, FillTyped, Fills, VisitTyped, VisitSet,
       RefreshTyped, RefreshSet, MarkedTyped, PassedTyped

LEMMA Numbers ==
  /\ MaxSource \in Nat /\ MaxSource >= 1 /\ MaxVisits \in Nat /\ MaxTrouble \in Nat
  /\ NoToken \in Token /\ \A n \in Change : n \in Token /\ n \in Nat /\ n # NoToken
  /\ \A v \in Visit : /\ v \in Nat /\ MaxSource + v \in Token /\ MaxSource + v # NoToken
                      /\ MaxSource + v \notin Change
  /\ Token \subseteq Nat
BY Assumptions DEF Change, Visit, Token, NoToken

LEMMA Blanks ==
  /\ NoFill = [pc |-> "none", token |-> NoToken, data |-> Nothing]
  /\ \A s \in Nat : NoFill \in Fills(s) /\ [NoFill EXCEPT !.pc = "lock"] \in Fills(s)
                    /\ [NoFill EXCEPT !.pc = "failed"] \in Fills(s)
  /\ NoVisit \in VisitSet /\ Activated \in VisitSet /\ Activated.pc = "done"
  /\ NoRefresh \in RefreshSet /\ Refreshed \in RefreshSet /\ Refreshed.pc = "done"
<1>1. NoFill = [pc |-> "none", token |-> NoToken, data |-> Nothing]
  BY DEF NoFill
<1>2. ASSUME NEW s \in Nat
      PROVE  /\ NoFill \in Fills(s) /\ [NoFill EXCEPT !.pc = "lock"] \in Fills(s)
             /\ [NoFill EXCEPT !.pc = "failed"] \in Fills(s)
  BY Numbers, <1>1 DEF Fills, Nothing
<1>3. NoVisit \in VisitSet /\ NoVisit.pc = "none"
  BY DEF NoVisit, VisitSet, Plan
<1>4. Activated \in VisitSet /\ Activated.pc = "done"
  BY <1>3 DEF Activated, VisitSet
<1>5. NoRefresh \in RefreshSet
  BY DEF NoRefresh, RefreshSet, Plan
<1>6. Refreshed \in RefreshSet /\ Refreshed.pc = "done"
  BY <1>5 DEF Refreshed, RefreshSet
<1> QED BY <1>1, <1>2, <1>3, <1>4, <1>5, <1>6

\* A fill that is joined or started.
LEMMA StartedType ==
  ASSUME NEW s \in Nat, NEW f \in Fills(s)
  PROVE  /\ Started(f) \in Fills(s)
         /\ Started(f) = f \/ (f.pc = "none" /\ Started(f) = [NoFill EXCEPT !.pc = "lock"])
BY Blanks DEF Started

\* The fills of all but one process and revision stay.
LEMMA FillBecomes ==
  ASSUME FillTyped, NEW p \in Process, NEW r \in Revision, NEW f \in Fills(source), Moved(p, r, f)
  PROVE  /\ fill' \in [Process -> [Revision -> Fills(source)]]
         /\ \A q \in Process, j \in Revision :
              fill'[q][j] = IF q = p /\ j = r THEN f ELSE fill[q][j]
BY DEF FillTyped, Moved

\* A larger source leaves types as they are.
LEMMA Widened ==
  ASSUME NEW s \in Nat, NEW t \in Nat, s <= t
  PROVE  0 .. s \subseteq 0 .. t /\ Fills(s) \subseteq Fills(t)
BY DEF Fills

\* Those who wait for a fill stay as they are, or go on.
LEMMA ResumedType ==
  ASSUME RefreshTyped, NEW n \in Change, NEW p, NEW r, NEW d
  PROVE  /\ Resumed(n, p, r, d) \in RefreshSet
         /\ \/ Resumed(n, p, r, d) = refresh[n]
            \/ /\ refresh[n].pc \in {"wait", "await"}
               /\ \/ Resumed(n, p, r, d) = [refresh[n] EXCEPT !.pc = "fill"]
                  \/ Resumed(n, p, r, d) = Refreshed
         /\ ~ Waits(Resumed(n, p, r, d), p, r)
BY Blanks DEF RefreshTyped, RefreshSet, Resumed, Waits, Refreshed, NoRefresh

LEMMA GraphInit == Init => GraphInv
<1> SUFFICES ASSUME Init PROVE GraphInv
  OBVIOUS
<1>0. ask \in [Client -> Plan]
  <2>1. ask = [c \in Client |-> Unregistered]
    BY DEF Init
  <2> QED BY <2>1 DEF Plan
<1> USE Numbers, Blanks DEF Init
<1>1. TypeOK
  <2>1. source \in 1 .. MaxSource /\ active \in BOOLEAN /\ plan \in Plan
    <3>1. source \in 1 .. MaxSource
      OBVIOUS
    <3>2. active \in BOOLEAN
      BY Zenon
    <3>3. plan \in Plan
      BY DEF Plan
    <3> QED BY <3>1, <3>2, <3>3
  <2>2. ResultTyped /\ MarkTyped /\ LockTyped /\ MarkedTyped /\ PassedTyped
    BY DEF ResultTyped, MarkTyped, LockTyped, MarkedTyped, PassedTyped, Nothing
  <2>3. FillTyped /\ VisitTyped /\ RefreshTyped
    BY DEF FillTyped, VisitTyped, RefreshTyped
  <2>5. outlived \subseteq Revision /\ trouble \in 0 .. MaxTrouble
    OBVIOUS
  <2> QED BY <1>0, <2>1, <2>2, <2>3, <2>5, Typed
<1>2. LockHeld /\ TokensUsed /\ FillsFresh
  BY DEF LockHeld, Working, TokensUsed, Used, FillsFresh, FillFresh
<1>3. Known /\ WaitsRight /\ ListedOne
  BY Assumptions DEF Known, WaitsRight, Waits, ListedOne, NoVisit, NoRefresh
<1>4. MarkKept /\ AllCovered
  BY DEF MarkKept, AllCovered, Nothing
<1> QED BY <1>1, <1>2, <1>3, <1>4 DEF GraphInv

-----------------------------------------------------------------------------
(* What a step changes                                                      *)

LEMMA SourceStep ==
  ASSUME TypeOK, [Next]_vars
  PROVE  /\ source' \in 1 .. MaxSource /\ source \in Nat /\ source' \in Nat /\ source <= source'
         /\ source' # source => \E p \in Process : DataChanges(p)
<1>1. source \in 1 .. MaxSource
  BY Typed
<1>2. source' = source \/ \E p \in Process : DataChanges(p)
  BY DEF Next, vars, redis, calls, history, RunMaterialize, GetOrLoad, RefreshAffected, Activate,
         TakeLock, LockIsTaken, Load, Store, Finish, Fails, Abandon, Ask, Touch, WritePlans,
         DropResult, Warm, Visits, AskActivity, ListPlans, SetMark, FillAgain, GiveUp,
         RefreshFails, Dies, LockExpires, Quiet
<1>3. ASSUME NEW p \in Process, DataChanges(p) PROVE source < MaxSource /\ source' = source + 1
  BY <1>3 DEF DataChanges
<1>4. MaxSource \in Nat
  BY Numbers
<1> QED BY <1>1, <1>2, <1>3, <1>4

\* One fill moves on, settles or is started, or a process dies with its fills.
FillMoves(p, r) ==
  \/ UNCHANGED fill[p][r]
  \/ fill[p][r].pc = "none" /\ fill'[p][r] = [NoFill EXCEPT !.pc = "lock"]
  \/ fill'[p][r] = NoFill
  \/ fill[p][r].pc \in {"load", "store", "stored"} /\ fill'[p][r] = [NoFill EXCEPT !.pc = "failed"]
  \/ TakeLock(p, r) /\ fill'[p][r] = [fill[p][r] EXCEPT !.pc = "load", !.token = mark[r]]
  \/ Load(p, r) /\ fill'[p][r] = [fill[p][r] EXCEPT !.pc = "store", !.data = source]
  \/ Store(p, r) /\ fill'[p][r] = [fill[p][r] EXCEPT !.pc = "stored"]

LEMMA FillStep ==
  ASSUME TypeOK, Known, [Next]_vars
  PROVE  FillTyped' /\ \A p \in Process, r \in Revision : FillMoves(p, r)
<1>0. /\ FillTyped /\ MarkTyped /\ VisitTyped /\ RefreshTyped
      /\ source \in Nat /\ source' \in Nat /\ source <= source'
      /\ Fills(source) \subseteq Fills(source')
  BY Typed, SourceStep, Widened
<1>1. SUFFICES fill' \in [Process -> [Revision -> Fills(source)]]
               /\ \A p \in Process, r \in Revision : FillMoves(p, r)
  BY <1>0 DEF FillTyped
<1>2. ASSUME NEW p \in Process, NEW r \in Revision, NEW f \in Fills(source), Moved(p, r, f),
             f = fill[p][r] \/ (fill[p][r].pc = "none" /\ f = [NoFill EXCEPT !.pc = "lock"])
             \/ f = NoFill
             \/ (fill[p][r].pc \in {"load", "store", "stored"} /\ f = [NoFill EXCEPT !.pc = "failed"])
             \/ (TakeLock(p, r) /\ f = [fill[p][r] EXCEPT !.pc = "load", !.token = mark[r]])
             \/ (Load(p, r) /\ f = [fill[p][r] EXCEPT !.pc = "store", !.data = source])
             \/ (Store(p, r) /\ f = [fill[p][r] EXCEPT !.pc = "stored"])
      PROVE  fill' \in [Process -> [Revision -> Fills(source)]]
             /\ \A q \in Process, j \in Revision : FillMoves(q, j)
  <2>1. /\ fill' \in [Process -> [Revision -> Fills(source)]]
        /\ \A q \in Process, j \in Revision :
             fill'[q][j] = IF q = p /\ j = r THEN f ELSE fill[q][j]
    BY <1>0, <1>2, FillBecomes
  <2>2. ASSUME NEW q \in Process, NEW j \in Revision PROVE FillMoves(q, j)
    <3>1. CASE q = p /\ j = r
      <4>1. fill'[p][r] = f
        BY <2>1
      <4> QED BY <1>2, <3>1, <4>1, Zenon DEF FillMoves
    <3>2. CASE ~ (q = p /\ j = r)
      BY <2>1, <3>2 DEF FillMoves
    <3> QED BY <3>1, <3>2
  <2> QED BY <2>1, <2>2
<1>3. ASSUME NEW p \in Process, NEW r \in Revision PROVE fill[p][r] \in Fills(source)
  BY <1>0 DEF FillTyped
<1>4. ASSUME NEW p \in Process, NEW r \in Revision, RunMaterialize(p, r)
      PROVE  fill' \in [Process -> [Revision -> Fills(source)]]
             /\ \A q \in Process, j \in Revision : FillMoves(q, j)
  <2>1. CASE TakeLock(p, r)
    <3>1. mark[r] \in Token
      BY <1>0 DEF MarkTyped
    <3>2. [fill[p][r] EXCEPT !.pc = "load", !.token = mark[r]] \in Fills(source)
      BY <1>3, <3>1 DEF Fills
    <3> QED BY <1>2, <2>1, <3>2 DEF TakeLock
  <2>2. CASE LockIsTaken(p, r) \/ Finish(p, r) \/ Abandon(p, r)
    <3>1. Moved(p, r, NoFill)
      BY <2>2 DEF LockIsTaken, Finish, Abandon, Settle
    <3> QED BY <1>0, <1>2, <3>1, Blanks
  <2>3. CASE Load(p, r)
    <3>1. [fill[p][r] EXCEPT !.pc = "store", !.data = source] \in Fills(source)
      <4>1. source \in 0 .. source
        BY <1>0
      <4> QED BY <1>3, <4>1 DEF Fills
    <3>2. Moved(p, r, [fill[p][r] EXCEPT !.pc = "store", !.data = source])
      BY <2>3 DEF Load, Loaded
    <3> QED BY <1>2, <2>3, <3>1, <3>2
  <2>4. CASE Store(p, r)
    <3>1. [fill[p][r] EXCEPT !.pc = "stored"] \in Fills(source)
      BY <1>3 DEF Fills
    <3>2. Moved(p, r, [fill[p][r] EXCEPT !.pc = "stored"])
      BY <2>4 DEF Store
    <3> QED BY <1>2, <2>4, <3>1, <3>2
  <2>5. CASE Fails(p, r)
    BY <1>0, <1>2, <2>5, Blanks DEF Fails
  <2> QED BY <1>4, <2>1, <2>2, <2>3, <2>4, <2>5 DEF RunMaterialize
<1>5. ASSUME NEW p \in Process, NEW r \in Revision, Moved(p, r, Started(fill[p][r]))
      PROVE  fill' \in [Process -> [Revision -> Fills(source)]]
             /\ \A q \in Process, j \in Revision : FillMoves(q, j)
  <2>1. /\ Started(fill[p][r]) \in Fills(source)
        /\ \/ Started(fill[p][r]) = fill[p][r]
           \/ fill[p][r].pc = "none" /\ Started(fill[p][r]) = [NoFill EXCEPT !.pc = "lock"]
    BY <1>0, <1>3, StartedType
  <2> QED BY <1>2, <1>5, <2>1
<1>6. CASE UNCHANGED fill
  BY <1>0, <1>6 DEF FillTyped, FillMoves
<1>7. ASSUME NEW c \in Client, GetOrLoad(c)
      PROVE  fill' \in [Process -> [Revision -> Fills(source)]]
             /\ \A q \in Process, j \in Revision : FillMoves(q, j)
  <2>1. UNCHANGED fill \/ \E p \in Process, r \in Revision : Moved(p, r, Started(fill[p][r]))
    BY <1>7 DEF GetOrLoad, Ask, Touch
  <2> QED BY <1>5, <1>6, <2>1
<1>8. ASSUME NEW v \in Visit, Activate(v)
      PROVE  fill' \in [Process -> [Revision -> Fills(source)]]
             /\ \A q \in Process, j \in Revision : FillMoves(q, j)
  <2>1. CASE Warm(v)
    <3> DEFINE x == visit[v]
               cold == {r \in x.batch : mark[r] # NoToken \/ result[r] = Nothing}
               row == [r \in Revision |-> IF r \in cold THEN Started(fill[x.process][r])
                                          ELSE fill[x.process][r]]
    <3>1. fill' = [fill EXCEPT ![x.process] = row]
      BY <2>1 DEF Warm
    <3>2. ASSUME x.process \in Process PROVE row \in [Revision -> Fills(source)]
      BY <1>0, <1>3, <3>2, StartedType
    <3>3. ASSUME NEW q \in Process, NEW j \in Revision PROVE FillMoves(q, j)
      <4>1. fill'[q][j] = fill[q][j] \/ fill'[q][j] = Started(fill[q][j])
        BY <1>0, <3>1 DEF FillTyped
      <4>2. fill[q][j] \in Fills(source)
        BY <1>3
      <4> QED BY <1>0, <4>1, <4>2, StartedType DEF FillMoves
    <3>4. fill' \in [Process -> [Revision -> Fills(source)]]
      BY <1>0, <3>1, <3>2 DEF FillTyped
    <3> QED BY <3>3, <3>4
  <2>2. CASE WritePlans(v) \/ DropResult(v)
    BY <1>6, <2>2 DEF WritePlans, DropResult
  <2> QED BY <1>8, <2>1, <2>2 DEF Activate
<1>9. ASSUME NEW n \in Change, RefreshAffected(n)
      PROVE  fill' \in [Process -> [Revision -> Fills(source)]]
             /\ \A q \in Process, j \in Revision : FillMoves(q, j)
  <2>1. CASE FillAgain(n)
    BY <1>5, <2>1 DEF FillAgain, Known
  <2>2. CASE AskActivity(n) \/ ListPlans(n) \/ SetMark(n)
    BY <1>6, <2>2 DEF AskActivity, ListPlans, SetMark
  <2> QED BY <1>9, <2>1, <2>2 DEF RefreshAffected
<1>10. ASSUME NEW p \in Process, Dies(p)
       PROVE  fill' \in [Process -> [Revision -> Fills(source)]]
              /\ \A q \in Process, j \in Revision : FillMoves(q, j)
  <2>1. fill' = [fill EXCEPT ![p] = [r \in Revision |-> NoFill]]
    BY <1>10 DEF Dies
  <2>2. NoFill \in Fills(source)
    BY <1>0, Blanks
  <2>3. fill' \in [Process -> [Revision -> Fills(source)]]
    BY <1>0, <2>1, <2>2 DEF FillTyped
  <2>4. ASSUME NEW q \in Process, NEW j \in Revision PROVE FillMoves(q, j)
    BY <1>0, <2>1 DEF FillTyped, FillMoves
  <2> QED BY <2>3, <2>4
<1>11. ASSUME (\E v \in Visit, p \in Process, r \in Revision : Visits(v, p, {r}, TRUE))
              \/ (\E v \in Visit, p \in Process, keeps \in BOOLEAN : Visits(v, p, {}, keeps))
              \/ (\E n \in Change : GiveUp(n) \/ RefreshFails(n))
              \/ (\E p \in Process : DataChanges(p))
              \/ (\E r \in Revision : LockExpires(r))
              \/ Quiet \/ UNCHANGED vars
       PROVE  UNCHANGED fill
  BY <1>11 DEF Visits, GiveUp, RefreshFails, DataChanges, LockExpires, Quiet, vars, calls
<1> QED BY <1>4, <1>6, <1>7, <1>8, <1>9, <1>10, <1>11 DEF Next

\* One refresh goes on, or comes to its end.
RefreshMoves(n) ==
  \/ UNCHANGED refresh[n]
  \/ n <= source /\ refresh'[n] = Refreshed
  \/ /\ n = source + 1 /\ source' = source + 1 /\ refresh'[n].pc = "activity"
     /\ refresh'[n].process \in Process
  \/ AskActivity(n) /\ refresh'[n] = [refresh[n] EXCEPT !.pc = "list"]
  \/ /\ ListPlans(n) /\ plan \in Revision
     /\ refresh'[n] = [refresh[n] EXCEPT !.pc = "mark", !.revision = plan]
  \/ SetMark(n) /\ refresh'[n] = [refresh[n] EXCEPT !.pc = "fill"]
  \/ /\ FillAgain(n)
     /\ \/ refresh'[n] = [refresh[n] EXCEPT !.pc = "await"]
        \/ /\ refresh'[n] = [refresh[n] EXCEPT !.pc = "wait"]
           /\ At(refresh[n].process, refresh[n].revision, "none")
  \/ refresh[n].pc \in {"wait", "await"} /\ refresh'[n] = [refresh[n] EXCEPT !.pc = "fill"]

\* A refresh becomes x; the others stay.
LEMMA RefreshBecomes ==
  ASSUME RefreshTyped, NEW n \in Change, NEW x \in RefreshSet,
         refresh' = [refresh EXCEPT ![n] = x]
  PROVE  /\ RefreshTyped'
         /\ \A m \in Change : refresh'[m] = IF m = n THEN x ELSE refresh[m]
BY DEF RefreshTyped

LEMMA RefreshStep ==
  ASSUME TypeOK, Known, [Next]_vars
  PROVE  RefreshTyped' /\ \A n \in Change : RefreshMoves(n)
<1>0. RefreshTyped /\ plan \in Plan /\ source \in 1 .. MaxSource /\ source' \in Nat
  BY Typed, SourceStep
<1>1. ASSUME NEW n \in Change PROVE refresh[n] \in RefreshSet
  BY <1>0 DEF RefreshTyped
<1>2. CASE UNCHANGED refresh
  BY <1>0, <1>2 DEF RefreshTyped, RefreshMoves
<1>3. ASSUME NEW p \in Process, NEW r \in Revision, NEW d, Settle(p, r, d)
      PROVE  RefreshTyped' /\ \A n \in Change : RefreshMoves(n)
  <2>1. refresh' = [n \in Change |-> Resumed(n, p, r, d)]
    BY <1>3 DEF Settle
  <2>2. ASSUME NEW n \in Change PROVE refresh'[n] \in RefreshSet /\ RefreshMoves(n)
    <3>1. refresh'[n] = Resumed(n, p, r, d)
      BY <2>1
    <3>2. refresh[n].pc \in {"wait", "await"} => n <= source
      BY DEF Known
    <3> QED BY <1>0, <3>1, <3>2, ResumedType DEF RefreshMoves
  <2> QED BY <2>1, <2>2 DEF RefreshTyped
<1>4. ASSUME NEW p \in Process, NEW r \in Revision, RunMaterialize(p, r)
      PROVE  RefreshTyped' /\ \A n \in Change : RefreshMoves(n)
  <2>1. UNCHANGED refresh \/ \E d \in {Nothing, fill[p][r].data, Failed} : Settle(p, r, d)
    BY <1>4 DEF RunMaterialize, TakeLock, LockIsTaken, Load, Store, Finish, Fails, Abandon
  <2> QED BY <1>2, <1>3, <2>1
<1>5. ASSUME NEW n \in Change, NEW x \in RefreshSet, refresh' = [refresh EXCEPT ![n] = x],
             \/ n <= source /\ x = Refreshed
             \/ AskActivity(n) /\ x = [refresh[n] EXCEPT !.pc = "list"]
             \/ ListPlans(n) /\ plan \in Revision
                /\ x = [refresh[n] EXCEPT !.pc = "mark", !.revision = plan]
             \/ SetMark(n) /\ x = [refresh[n] EXCEPT !.pc = "fill"]
             \/ /\ FillAgain(n)
                /\ \/ x = [refresh[n] EXCEPT !.pc = "await"]
                   \/ /\ x = [refresh[n] EXCEPT !.pc = "wait"]
                      /\ At(refresh[n].process, refresh[n].revision, "none")
             \/ n = source + 1 /\ source' = source + 1 /\ x.pc = "activity" /\ x.process \in Process
      PROVE  RefreshTyped' /\ \A m \in Change : RefreshMoves(m)
  <2>1. RefreshTyped' /\ \A m \in Change : refresh'[m] = IF m = n THEN x ELSE refresh[m]
    BY <1>0, <1>5, RefreshBecomes
  <2>2. ASSUME NEW m \in Change PROVE RefreshMoves(m)
    <3>1. CASE m = n
      <4>1. refresh'[n] = x
        BY <2>1
      <4> QED BY <1>5, <3>1, <4>1, Zenon DEF RefreshMoves
    <3>2. CASE m # n
      BY <2>1, <3>2 DEF RefreshMoves
    <3> QED BY <3>1, <3>2
  <2> QED BY <2>1, <2>2
<1>5a. ASSUME NEW n \in Change, n <= source, refresh' = [refresh EXCEPT ![n] = Refreshed]
       PROVE  RefreshTyped' /\ \A m \in Change : RefreshMoves(m)
  <2>1. Refreshed \in RefreshSet
    BY Blanks
  <2> QED BY <1>5a, <1>5, <2>1, Zenon
<1>6. ASSUME NEW n \in Change, RefreshAffected(n) \/ GiveUp(n) \/ RefreshFails(n)
      PROVE  RefreshTyped' /\ \A m \in Change : RefreshMoves(m)
  <2>1. CASE AskActivity(n)
    <3>1. [refresh[n] EXCEPT !.pc = "list"] \in RefreshSet
      BY <1>1 DEF RefreshSet
    <3>2. CASE active
      <4>1. refresh' = [refresh EXCEPT ![n] = [refresh[n] EXCEPT !.pc = "list"]]
        BY <1>0, <2>1, <3>2 DEF AskActivity, RefreshTyped
      <4> QED BY <1>5, <2>1, <3>1, <4>1
    <3>3. CASE ~ active
      <4>1. refresh' = [refresh EXCEPT ![n] = Refreshed]
        BY <1>0, <2>1, <3>3 DEF AskActivity, RefreshTyped
      <4>2. n <= source
        BY <2>1 DEF AskActivity, Known
      <4> QED BY <1>5a, <4>1, <4>2
    <3> QED BY <3>2, <3>3
  <2>2. CASE ListPlans(n)
    <3>1. CASE plan = Unregistered
      <4>1. refresh' = [refresh EXCEPT ![n] = Refreshed]
        BY <1>0, <2>2, <3>1 DEF ListPlans, RefreshTyped
      <4>2. n <= source
        BY <2>2 DEF ListPlans, Known
      <4> QED BY <1>5a, <4>1, <4>2
    <3>2. CASE plan # Unregistered
      <4>1. plan \in Revision /\ [refresh[n] EXCEPT !.pc = "mark", !.revision = plan] \in RefreshSet
        BY <1>0, <1>1, <3>2 DEF RefreshSet, Plan
      <4>2. refresh' = [refresh EXCEPT ![n] = [refresh[n] EXCEPT !.pc = "mark", !.revision = plan]]
        BY <1>0, <2>2, <3>2 DEF ListPlans, RefreshTyped
      <4> QED BY <1>5, <2>2, <4>1, <4>2
    <3> QED BY <3>1, <3>2
  <2>3. CASE SetMark(n)
    <3>1. [refresh[n] EXCEPT !.pc = "fill"] \in RefreshSet
      BY <1>1 DEF RefreshSet
    <3>2. refresh' = [refresh EXCEPT ![n] = [refresh[n] EXCEPT !.pc = "fill"]]
      BY <1>0, <2>3 DEF SetMark, RefreshTyped
    <3> QED BY <1>5, <2>3, <3>1, <3>2
  <2>4. CASE FillAgain(n)
    <3>1. /\ [refresh[n] EXCEPT !.pc = "wait"] \in RefreshSet
          /\ [refresh[n] EXCEPT !.pc = "await"] \in RefreshSet
      BY <1>1 DEF RefreshSet
    <3>2. CASE At(refresh[n].process, refresh[n].revision, "none")
      <4>1. refresh' = [refresh EXCEPT ![n] = [refresh[n] EXCEPT !.pc = "wait"]]
        BY <1>0, <2>4, <3>2 DEF FillAgain, RefreshTyped
      <4> QED BY <1>5, <2>4, <3>1, <3>2, <4>1, Zenon
    <3>3. CASE ~ At(refresh[n].process, refresh[n].revision, "none")
      <4>1. refresh' = [refresh EXCEPT ![n] = [refresh[n] EXCEPT !.pc = "await"]]
        BY <1>0, <2>4, <3>3 DEF FillAgain, RefreshTyped, Lets
      <4> QED BY <1>5, <2>4, <3>1, <4>1, Zenon
    <3> QED BY <3>2, <3>3
  <2>5. CASE GiveUp(n) \/ RefreshFails(n)
    <3>1. refresh' = [refresh EXCEPT ![n] = Refreshed]
      BY <2>5 DEF GiveUp, RefreshFails
    <3>2. n <= source
      BY <2>5 DEF GiveUp, RefreshFails, Known
    <3> QED BY <1>5a, <3>1, <3>2
  <2> QED BY <1>6, <2>1, <2>2, <2>3, <2>4, <2>5 DEF RefreshAffected
<1>7. ASSUME NEW p \in Process, DataChanges(p)
      PROVE  RefreshTyped' /\ \A m \in Change : RefreshMoves(m)
  <2> DEFINE x == [pc |-> "activity", process |-> p, revision |-> Unregistered]
  <2>1. x \in RefreshSet
    BY DEF RefreshSet, Plan
  <2>2. source + 1 \in Change /\ source' = source + 1
    BY <1>0, <1>7, Numbers DEF DataChanges, Change
  <2>3. refresh' = [refresh EXCEPT ![source + 1] = x]
    BY <1>7 DEF DataChanges
  <2> QED BY <1>5, <2>1, <2>2, <2>3
<1>8. ASSUME NEW p \in Process, Dies(p)
      PROVE  RefreshTyped' /\ \A m \in Change : RefreshMoves(m)
  <2>1. refresh' = [n \in Change |-> IF refresh[n].process = p THEN Refreshed ELSE refresh[n]]
    BY <1>8 DEF Dies
  <2>2. \A n \in Change : refresh[n].process = p => n <= source
    BY DEF Known
  <2> QED BY <1>1, <2>1, <2>2, Blanks DEF RefreshTyped, RefreshMoves
<1>9. ASSUME NEW c \in Client, GetOrLoad(c) PROVE UNCHANGED refresh
  BY <1>9 DEF GetOrLoad, Ask, Touch
<1>10. ASSUME NEW v \in Visit, Activate(v) PROVE UNCHANGED refresh
  BY <1>10 DEF Activate, WritePlans, DropResult, Warm
<1>11. ASSUME (\E v \in Visit, p \in Process, r \in Revision : Visits(v, p, {r}, TRUE))
              \/ (\E v \in Visit, p \in Process, keeps \in BOOLEAN : Visits(v, p, {}, keeps))
              \/ (\E r \in Revision : LockExpires(r))
              \/ Quiet \/ UNCHANGED vars
       PROVE  UNCHANGED refresh
  BY <1>11 DEF Visits, LockExpires, Quiet, vars, calls
<1> QED BY <1>2, <1>4, <1>6, <1>7, <1>8, <1>9, <1>10, <1>11 DEF Next

\* One visit goes on.
VisitMoves(v) ==
  \/ UNCHANGED visit[v]
  \/ visit'[v] = Activated
  \/ visit[v].pc = "none" /\ visit'[v].pc = "write"
  \/ /\ WritePlans(v) /\ visit'[v].current = visit[v].current
     /\ visit'[v].pc = IF Removed(visit[v]) = {} THEN "warm" ELSE "drop"

LEMMA VisitStep ==
  ASSUME TypeOK, [Next]_vars
  PROVE  VisitTyped' /\ \A v \in Visit : VisitMoves(v)
<1>0. VisitTyped /\ plan \in Plan
  BY Typed
<1>1. ASSUME NEW v \in Visit PROVE visit[v] \in VisitSet
  BY <1>0 DEF VisitTyped
<1>2. CASE UNCHANGED visit
  BY <1>0, <1>2 DEF VisitTyped, VisitMoves
<1>3. ASSUME NEW v \in Visit, NEW x \in VisitSet, visit' = [visit EXCEPT ![v] = x],
             \/ x = Activated
             \/ visit[v].pc = "none" /\ x.pc = "write"
             \/ WritePlans(v) /\ x.current = visit[v].current
                /\ x.pc = IF Removed(visit[v]) = {} THEN "warm" ELSE "drop"
      PROVE  VisitTyped' /\ \A w \in Visit : VisitMoves(w)
  <2>1. /\ VisitTyped'
        /\ \A w \in Visit : visit'[w] = IF w = v THEN x ELSE visit[w]
    BY <1>0, <1>3 DEF VisitTyped
  <2>2. ASSUME NEW w \in Visit PROVE VisitMoves(w)
    <3>1. CASE w = v
      <4>1. visit'[v] = x
        BY <2>1
      <4> QED BY <1>3, <3>1, <4>1, Zenon DEF VisitMoves
    <3>2. CASE w # v
      BY <2>1, <3>2 DEF VisitMoves
    <3> QED BY <3>1, <3>2
  <2> QED BY <2>1, <2>2
<1>4. ASSUME NEW v \in Visit, Activate(v)
      PROVE  VisitTyped' /\ \A w \in Visit : VisitMoves(w)
  <2>1. CASE WritePlans(v)
    <3> DEFINE pc == IF Removed(visit[v]) = {} THEN "warm" ELSE "drop"
               x == [visit[v] EXCEPT !.pc = pc]
    <3>1. x \in VisitSet /\ x.current = visit[v].current /\ x.pc = pc
      BY <1>1 DEF VisitSet
    <3>2. visit' = [visit EXCEPT ![v] = x]
      BY <1>0, <2>1 DEF WritePlans, VisitTyped
    <3> QED BY <1>3, <2>1, <3>1, <3>2
  <2>2. CASE DropResult(v) \/ Warm(v)
    BY <1>3, <2>2, Blanks DEF DropResult, Warm
  <2> QED BY <1>4, <2>1, <2>2 DEF Activate
<1>5. ASSUME NEW v \in Visit, NEW p \in Process, NEW batch \in SUBSET Revision,
             NEW keeps \in BOOLEAN, Visits(v, p, batch, keeps)
      PROVE  VisitTyped' /\ \A w \in Visit : VisitMoves(w)
  <2> DEFINE x == [pc |-> "write", process |-> p, batch |-> batch, keeps |-> keeps,
                   current |-> plan, reactivating |-> ~ active]
  <2>1. x \in VisitSet
    BY <1>0 DEF VisitSet
  <2>2. visit[v].pc = "none" /\ visit' = [visit EXCEPT ![v] = x]
    BY <1>5 DEF Visits
  <2> QED BY <1>3, <2>1, <2>2
<1>6. ASSUME NEW p \in Process, Dies(p) PROVE VisitTyped' /\ \A w \in Visit : VisitMoves(w)
  <2>1. visit' = [v \in Visit |-> IF visit[v].process = p THEN Activated ELSE visit[v]]
    BY <1>6 DEF Dies
  <2> QED BY <1>1, <2>1, Blanks DEF VisitTyped, VisitMoves
<1>7. ASSUME NEW c \in Client, GetOrLoad(c) PROVE UNCHANGED visit
  BY <1>7 DEF GetOrLoad, Ask, Touch
<1>8. ASSUME NEW p \in Process, NEW r \in Revision, RunMaterialize(p, r) PROVE UNCHANGED visit
  BY <1>8 DEF RunMaterialize, TakeLock, LockIsTaken, Load, Store, Finish, Fails, Abandon
<1>9. ASSUME (\E n \in Change : RefreshAffected(n) \/ GiveUp(n) \/ RefreshFails(n))
             \/ (\E p \in Process : DataChanges(p)) \/ (\E r \in Revision : LockExpires(r))
             \/ Quiet \/ UNCHANGED vars
      PROVE  UNCHANGED visit
  BY <1>9 DEF RefreshAffected, AskActivity, ListPlans, SetMark, FillAgain, GiveUp, RefreshFails,
              DataChanges, LockExpires, Quiet, vars, calls
<1>10. \A r \in Revision : {r} \in SUBSET Revision
  OBVIOUS
<1>11. {} \in SUBSET Revision /\ TRUE \in BOOLEAN
  OBVIOUS
<1> QED BY <1>2, <1>4, <1>5, <1>6, <1>7, <1>8, <1>9, <1>10, <1>11 DEF Next

\* Who changes the rest.
Changed ==
  /\ \/ active' = active
     \/ Quiet
     \/ \E v \in Visit : WritePlans(v)
  /\ \/ plan' = plan
     \/ \E p \in Process, r \in Revision : Store(p, r)
     \/ \E c \in Client : Touch(c)
     \/ \E v \in Visit : WritePlans(v)
  /\ \/ result' = result
     \/ \E p \in Process, r \in Revision : Store(p, r)
     \/ \E v \in Visit : DropResult(v)
  /\ \/ mark' = mark /\ marked' = marked
     \/ \E p \in Process, r \in Revision : Finish(p, r)
     \/ \E v \in Visit : WritePlans(v)
     \/ \E n \in Change : SetMark(n)
  /\ \/ lock' = lock
     \/ \E p \in Process, r \in Revision : TakeLock(p, r) \/ Finish(p, r) \/ Abandon(p, r)
     \/ \E r \in Revision : LockExpires(r)
  /\ \/ ask' = ask
     \/ \E c \in Client, p \in Process, r \in Revision : Ask(c, p, r)
     \/ \E c \in Client : Touch(c)
  /\ \/ passed' = passed
     \/ \E v \in Visit : WritePlans(v)
     \/ \E n \in Change : ListPlans(n) \/ RefreshFails(n)
     \/ \E p \in Process : Dies(p)
  /\ \/ outlived' = outlived
     \/ \E r \in Revision : LockExpires(r)
  /\ trouble' = trouble \/ Trouble

LEMMA Changes == ASSUME [Next]_vars PROVE Changed
<1>1. ASSUME NEW c \in Client, NEW p \in Process, NEW r \in Revision, Ask(c, p, r)
      PROVE  /\ active' = active /\ plan' = plan /\ result' = result /\ mark' = mark
             /\ lock' = lock /\ marked' = marked /\ passed' = passed /\ outlived' = outlived
             /\ trouble' = trouble
  BY <1>1 DEF Ask, redis, history
<1>2. ASSUME NEW p \in Process, NEW r \in Revision, RunMaterialize(p, r)
      PROVE  /\ active' = active /\ ask' = ask /\ marked' = marked /\ passed' = passed
             /\ outlived' = outlived
             /\ plan' = plan \/ Store(p, r)
             /\ result' = result \/ Store(p, r)
             /\ mark' = mark \/ Finish(p, r)
             /\ lock' = lock \/ TakeLock(p, r) \/ Finish(p, r) \/ Abandon(p, r)
             /\ trouble' = trouble \/ Trouble
  BY <1>2 DEF RunMaterialize, TakeLock, LockIsTaken, Load, Store, Finish, Fails, Abandon,
              redis, history
<1>3. ASSUME NEW v \in Visit, Activate(v)
      PROVE  /\ \/ WritePlans(v)
                \/ /\ active' = active /\ plan' = plan /\ mark' = mark /\ marked' = marked
                   /\ passed' = passed
             /\ result' = result \/ DropResult(v)
             /\ lock' = lock /\ ask' = ask /\ outlived' = outlived /\ trouble' = trouble
  BY <1>3 DEF Activate, WritePlans, DropResult, Warm, redis, history
<1>4. ASSUME NEW n \in Change, RefreshAffected(n) \/ GiveUp(n) \/ RefreshFails(n)
      PROVE  /\ active' = active /\ plan' = plan /\ result' = result /\ lock' = lock
             /\ ask' = ask /\ outlived' = outlived
             /\ (mark' = mark /\ marked' = marked) \/ SetMark(n)
             /\ passed' = passed \/ ListPlans(n) \/ RefreshFails(n)
             /\ trouble' = trouble \/ Trouble
  BY <1>4 DEF RefreshAffected, AskActivity, ListPlans, SetMark, FillAgain, GiveUp, RefreshFails,
              redis, history
<1>5. ASSUME NEW p \in Process, DataChanges(p) \/ Dies(p)
      PROVE  /\ active' = active /\ plan' = plan /\ result' = result /\ mark' = mark
             /\ lock' = lock /\ ask' = ask /\ marked' = marked /\ outlived' = outlived
             /\ passed' = passed \/ Dies(p)
             /\ trouble' = trouble \/ Trouble
  BY <1>5 DEF DataChanges, Dies, redis, history
<1>6. ASSUME NEW r \in Revision, LockExpires(r)
      PROVE  /\ active' = active /\ plan' = plan /\ result' = result /\ mark' = mark
             /\ ask' = ask /\ marked' = marked /\ passed' = passed
             /\ trouble' = trouble \/ Trouble
  BY <1>6 DEF LockExpires, calls
<1>7. ASSUME \/ \E v \in Visit, p \in Process, r \in Revision : Visits(v, p, {r}, TRUE)
             \/ \E v \in Visit, p \in Process, keeps \in BOOLEAN : Visits(v, p, {}, keeps)
             \/ \E c \in Client : Touch(c)
             \/ Quiet
             \/ UNCHANGED vars
      PROVE  /\ result' = result /\ mark' = mark /\ lock' = lock /\ marked' = marked
             /\ passed' = passed /\ outlived' = outlived /\ trouble' = trouble
             /\ active' = active \/ Quiet
             /\ (plan' = plan /\ ask' = ask) \/ \E c \in Client : Touch(c)
  BY <1>7 DEF Visits, Touch, Quiet, vars, redis, calls, history
<1> QED
  <2>1. CASE \E c \in Client, p \in Process, r \in Revision : Ask(c, p, r)
    BY <1>1, <2>1, Zenon DEF Changed
  <2>2. CASE \E p \in Process, r \in Revision : RunMaterialize(p, r)
    <3> PICK p \in Process, r \in Revision : RunMaterialize(p, r)
      BY <2>2
    <3>1. /\ plan' = plan \/ \E q \in Process, j \in Revision : Store(q, j)
          /\ result' = result \/ \E q \in Process, j \in Revision : Store(q, j)
      BY <1>2, Zenon
    <3>2. /\ mark' = mark \/ \E q \in Process, j \in Revision : Finish(q, j)
          /\ \/ lock' = lock
             \/ \E q \in Process, j \in Revision : TakeLock(q, j) \/ Finish(q, j) \/ Abandon(q, j)
      BY <1>2, Zenon
    <3>3. /\ active' = active /\ ask' = ask /\ marked' = marked /\ passed' = passed
          /\ outlived' = outlived
      BY <1>2
    <3>4. trouble' = trouble \/ Trouble
      BY <1>2
    <3> QED BY <3>1, <3>2, <3>3, <3>4, Zenon DEF Changed
  <2>3. CASE \E v \in Visit : Activate(v)
    BY <1>3, <2>3, Zenon DEF Changed
  <2>4. CASE \E n \in Change : RefreshAffected(n) \/ GiveUp(n) \/ RefreshFails(n)
    BY <1>4, <2>4, Zenon DEF Changed
  <2>5. CASE \E p \in Process : DataChanges(p) \/ Dies(p)
    BY <1>5, <2>5, Zenon DEF Changed
  <2>6. CASE \E r \in Revision : LockExpires(r)
    BY <1>6, <2>6, Zenon DEF Changed
  <2>7. CASE \/ \E v \in Visit, p \in Process, r \in Revision : Visits(v, p, {r}, TRUE)
             \/ \E v \in Visit, p \in Process, keeps \in BOOLEAN : Visits(v, p, {}, keeps)
             \/ \E c \in Client : Touch(c)
             \/ Quiet
             \/ UNCHANGED vars
    BY <1>7, <2>7, Zenon DEF Changed
  <2> QED BY <2>1, <2>2, <2>3, <2>4, <2>5, <2>6, <2>7, Zenon DEF Next, GetOrLoad

LEMMA TypeStep ==
  ASSUME TypeOK, Known, [Next]_vars
  PROVE  TypeOK'
<1>0. /\ source \in 1 .. MaxSource /\ active \in BOOLEAN /\ plan \in Plan
      /\ ResultTyped /\ MarkTyped /\ LockTyped /\ FillTyped /\ ask \in [Client -> Plan]
      /\ VisitTyped /\ RefreshTyped /\ MarkedTyped /\ PassedTyped
      /\ outlived \subseteq Revision /\ trouble \in 0 .. MaxTrouble
  BY Typed
<1>1. /\ source' \in 1 .. MaxSource /\ source \in Nat /\ source' \in Nat /\ source <= source'
      /\ 0 .. source \subseteq 0 .. source' /\ FillTyped' /\ RefreshTyped' /\ VisitTyped'
  BY SourceStep, FillStep, RefreshStep, VisitStep, Widened
<1>2. active' \in BOOLEAN
  <2>1. active' = active \/ active' = TRUE \/ active' = FALSE
    BY Changes DEF Changed, Quiet, WritePlans
  <2> QED BY <1>0, <2>1, Zenon
<1>3. plan' \in Plan
  <2>1. ASSUME NEW p \in Process, NEW r \in Revision, Store(p, r) PROVE plan' \in Plan
    BY <2>1 DEF Store, Plan
  <2>2. ASSUME NEW c \in Client, Touch(c) PROVE plan' \in Plan
    BY <1>0, <2>2 DEF Touch
  <2>3. ASSUME NEW v \in Visit, WritePlans(v) PROVE plan' \in Plan
    <3>1. visit[v].batch \in SUBSET Revision
      BY <1>0 DEF VisitTyped, VisitSet
    <3>2. visit[v].batch # {} => (CHOOSE r \in visit[v].batch : TRUE) \in visit[v].batch
      OBVIOUS
    <3> QED BY <1>0, <2>3, <3>1, <3>2 DEF WritePlans, Plan
  <2> QED BY <1>0, <2>1, <2>2, <2>3, Changes DEF Changed
<1>4. ResultTyped'
  <2>1. result' \in [Revision -> 0 .. source]
    <3>1. ASSUME NEW p \in Process, NEW r \in Revision, Store(p, r)
          PROVE  result' \in [Revision -> 0 .. source]
      <4>1. fill[p][r].data \in 0 .. source
        BY <1>0 DEF FillTyped, Fills
      <4> QED BY <1>0, <3>1, <4>1 DEF Store, ResultTyped
    <3>2. ASSUME NEW v \in Visit, DropResult(v) PROVE result' \in [Revision -> 0 .. source]
      <4>1. 0 \in 0 .. source
        BY <1>1
      <4>2. result' = [result EXCEPT ![visit[v].current] = 0]
        BY <3>2 DEF DropResult, Nothing
      <4> QED BY <1>0, <4>1, <4>2 DEF ResultTyped
    <3> QED BY <1>0, <3>1, <3>2, Changes DEF Changed, ResultTyped
  <2> QED BY <1>1, <2>1 DEF ResultTyped
<1>5. MarkTyped'
  <2>1. ASSUME NEW p \in Process, NEW r \in Revision, Finish(p, r) PROVE mark' \in [Revision -> Token]
    BY <1>0, <2>1, Numbers DEF Finish, Kept, MarkTyped
  <2>2. ASSUME NEW v \in Visit, WritePlans(v) PROVE mark' \in [Revision -> Token]
    BY <1>0, <2>2, Numbers DEF WritePlans, MarkTyped
  <2>3. ASSUME NEW n \in Change, SetMark(n) PROVE mark' \in [Revision -> Token]
    BY <1>0, <2>3, Numbers DEF SetMark, MarkTyped
  <2> QED BY <1>0, <2>1, <2>2, <2>3, Changes DEF Changed, MarkTyped
<1>6. LockTyped'
  BY <1>0, Changes DEF Changed, LockTyped, TakeLock, Finish, Abandon, Released, LockExpires
<1>7. ask' \in [Client -> Plan]
  <2>1. ASSUME NEW c \in Client, NEW p \in Process, NEW r \in Revision, Ask(c, p, r)
        PROVE  ask' \in [Client -> Plan]
    BY <1>0, <2>1 DEF Ask, Plan
  <2>2. ASSUME NEW c \in Client, Touch(c) PROVE ask' \in [Client -> Plan]
    BY <1>0, <2>2 DEF Touch, Plan
  <2> QED BY <1>0, <2>1, <2>2, Changes DEF Changed
<1>8. MarkedTyped'
  <2>1. marked' \in [Revision -> 0 .. source]
    <3>1. ASSUME NEW v \in Visit, WritePlans(v) PROVE marked' \in [Revision -> 0 .. source]
      BY <1>0, <1>1, <3>1 DEF WritePlans, MarkedTyped
    <3>2. ASSUME NEW n \in Change, SetMark(n) PROVE marked' \in [Revision -> 0 .. source]
      <4>1. n \in 0 .. source
        BY <1>1, <3>2, Numbers DEF SetMark, Known
      <4> QED BY <1>0, <3>2, <4>1 DEF SetMark, MarkedTyped
    <3>3. ASSUME NEW p \in Process, NEW r \in Revision, Finish(p, r) PROVE marked' = marked
      BY <3>3 DEF Finish, history
    <3> QED BY <1>0, <3>1, <3>2, <3>3, Changes DEF Changed, MarkedTyped
  <2> QED BY <1>1, <2>1 DEF MarkedTyped
<1>9. PassedTyped'
  <2>1. ASSUME NEW v \in Visit, WritePlans(v) PROVE passed' \in [Revision -> SUBSET Change]
    <3>1. 2 .. source \subseteq Change
      BY <1>0, Numbers DEF Change
    <3> QED BY <1>0, <2>1, <3>1 DEF WritePlans, PassedTyped
  <2>2. ASSUME NEW n \in Change, ListPlans(n) \/ RefreshFails(n)
        PROVE  passed' \in [Revision -> SUBSET Change]
    BY <1>0, <2>2 DEF ListPlans, RefreshFails, Passes, PassedTyped
  <2>3. ASSUME NEW p \in Process, Dies(p) PROVE passed' \in [Revision -> SUBSET Change]
    BY <1>0, <2>3 DEF Dies, PassedTyped
  <2> QED BY <1>0, <2>1, <2>2, <2>3, Changes DEF Changed, PassedTyped
<1>10. outlived' \subseteq Revision
  BY <1>0, Changes DEF Changed, LockExpires
<1>11. trouble' \in 0 .. MaxTrouble
  BY <1>0, Changes, Numbers DEF Changed, Trouble
<1> QED BY <1>1, <1>2, <1>3, <1>4, <1>5, <1>6, <1>7, <1>8, <1>9, <1>10, <1>11
        DEF TypeOK, ResultTyped, MarkTyped, LockTyped, FillTyped, Fills, VisitTyped, VisitSet,
            RefreshTyped, RefreshSet, MarkedTyped, PassedTyped

LEMMA KnownStep ==
  ASSUME TypeOK, Known, [Next]_vars
  PROVE  Known'
<1>1. ASSUME NEW v \in Visit, visit'[v].pc = "drop" PROVE visit'[v].current \in Revision
  <2>1. VisitMoves(v)
    BY VisitStep
  <2>2. CASE WritePlans(v) /\ visit'[v].current = visit[v].current /\ Removed(visit[v]) # {}
    BY <2>2 DEF Removed
  <2> QED BY <1>1, <2>1, <2>2, Blanks DEF VisitMoves, Known
<1>2. ASSUME NEW n \in Change
      PROVE  /\ refresh'[n].pc \in {"mark", "fill", "await", "wait"} =>
                  refresh'[n].revision \in Revision /\ refresh'[n].process \in Process
             /\ refresh'[n].pc \in {"activity", "list"} => refresh'[n].process \in Process
             /\ refresh'[n].pc # "none" \/ refresh'[n].process \in Process => n <= source'
  <2>1. /\ RefreshMoves(n) /\ source \in Nat /\ source <= source' /\ source' \in Nat
        /\ refresh[n] \in RefreshSet /\ n \in Nat
    BY RefreshStep, SourceStep, Typed, Numbers DEF RefreshTyped
  <2>2. Refreshed.pc = "done" /\ Refreshed.process = Nobody
    BY DEF Refreshed, NoRefresh
  <2>3. /\ AskActivity(n) => refresh[n].pc = "activity"
        /\ ListPlans(n) => refresh[n].pc = "list"
        /\ SetMark(n) => refresh[n].pc = "mark"
        /\ FillAgain(n) => refresh[n].pc = "fill"
    BY DEF AskActivity, ListPlans, SetMark, FillAgain
  <2>4. /\ refresh[n].pc \in {"mark", "fill", "await", "wait"} =>
             refresh[n].revision \in Revision /\ refresh[n].process \in Process
        /\ refresh[n].pc \in {"activity", "list"} => refresh[n].process \in Process
        /\ refresh[n].pc # "none" \/ refresh[n].process \in Process => n <= source
    BY DEF Known
  <2>5. CASE refresh'[n] = refresh[n]
    BY <2>1, <2>4, <2>5
  <2>6. CASE n <= source /\ refresh'[n] = Refreshed
    BY <2>1, <2>2, <2>6, Assumptions
  <2>7. CASE n = source + 1 /\ source' = source + 1 /\ refresh'[n].pc = "activity"
             /\ refresh'[n].process \in Process
    BY <2>1, <2>7
  <2>8. ASSUME NEW pc \in {"list", "fill", "wait", "await"}, refresh[n].pc # "none",
               refresh'[n] = [refresh[n] EXCEPT !.pc = pc],
               pc = "list" \/ refresh[n].pc \in {"mark", "fill", "await", "wait"},
               pc # "list" \/ refresh[n].pc = "activity"
        PROVE  /\ refresh'[n].pc \in {"mark", "fill", "await", "wait"} =>
                    refresh'[n].revision \in Revision /\ refresh'[n].process \in Process
               /\ refresh'[n].pc \in {"activity", "list"} => refresh'[n].process \in Process
               /\ refresh'[n].pc # "none" \/ refresh'[n].process \in Process => n <= source'
    <3>1. /\ refresh'[n].pc = pc /\ refresh'[n].process = refresh[n].process
          /\ refresh'[n].revision = refresh[n].revision
      BY <2>1, <2>8 DEF RefreshSet
    <3> QED BY <2>1, <2>4, <2>8, <3>1
  <2>9. CASE ListPlans(n) /\ plan \in Revision
             /\ refresh'[n] = [refresh[n] EXCEPT !.pc = "mark", !.revision = plan]
    <3>1. /\ refresh'[n].pc = "mark" /\ refresh'[n].process = refresh[n].process
          /\ refresh'[n].revision = plan
      BY <2>1, <2>9 DEF RefreshSet
    <3> QED BY <2>1, <2>3, <2>4, <2>9, <3>1
  <2> QED BY <2>1, <2>3, <2>5, <2>6, <2>7, <2>8, <2>9 DEF RefreshMoves
<1> QED BY <1>1, <1>2 DEF Known

-----------------------------------------------------------------------------
(* Locks and tokens                                                         *)

LEMMA OutlivedStep ==
  ASSUME [Next]_vars
  PROVE  outlived \subseteq outlived'
BY Changes DEF Changed, LockExpires

LEMMA LockHeldStep ==
  ASSUME TypeOK, Known, LockHeld, [Next]_vars
  PROVE  LockHeld'
<1>1. SUFFICES ASSUME NEW p \in Process, NEW r \in Revision, r \notin outlived',
                      fill'[p][r].pc \in Working
               PROVE  lock'[r] = p
  BY DEF LockHeld
<1>2. /\ FillMoves(p, r) /\ r \notin outlived /\ LockTyped /\ fill[p][r] \in Fills(source)
      /\ fill' \in [Process -> [Revision -> Fills(source')]] /\ FillTyped
  <2>1. FillTyped /\ FillTyped' /\ LockTyped
    BY FillStep, Typed
  <2>2. r \notin outlived
    BY <1>1, OutlivedStep
  <2> QED BY <2>1, <2>2, FillStep DEF FillTyped
<1>3. CASE TakeLock(p, r)
  BY <1>2, <1>3 DEF TakeLock, LockTyped
<1>4. CASE fill[p][r].pc \in Working
  <2>1. lock[r] = p
    BY <1>2, <1>4 DEF LockHeld
  <2>2. ASSUME NEW q \in Process, NEW j \in Revision, TakeLock(q, j) PROVE lock'[r] = p
    BY <1>2, <2>1, <2>2, Assumptions DEF TakeLock, Acquired, LockTyped
  <2>3. ASSUME NEW q \in Process, NEW j \in Revision, Finish(q, j) \/ Abandon(q, j)
        PROVE  lock'[r] = p
    <3>1. Moved(q, j, NoFill) /\ lock' = Released(q, j)
      BY <2>3 DEF Finish, Abandon, Settle
    <3>2. ~ (q = p /\ j = r)
      <4>1. NoFill.pc \notin Working
        BY Blanks DEF Working
      <4> QED BY <1>1, <1>2, <3>1, <4>1 DEF Moved, FillTyped
    <3> QED BY <1>2, <2>1, <3>1, <3>2 DEF Released, LockTyped
  <2>4. ASSUME NEW j \in Revision, LockExpires(j) PROVE lock'[r] = p
    <3>1. j # r
      BY <1>1, <1>4, <2>1, <2>4 DEF LockExpires, Holds, Working
    <3> QED BY <1>2, <2>1, <2>4, <3>1 DEF LockExpires, LockTyped
  <2> QED BY <2>1, <2>2, <2>3, <2>4, Changes DEF Changed
<1>5. fill[p][r].pc \in Working \/ TakeLock(p, r)
  <2>1. NoFill.pc = "none" /\ [NoFill EXCEPT !.pc = "lock"].pc = "lock"
    BY Blanks
  <2>2. /\ Load(p, r) => fill[p][r].pc \in Working
        /\ Store(p, r) => fill[p][r].pc \in Working
    BY DEF Load, Store, At, Working
  <2> QED BY <1>1, <1>2, <2>1, <2>2 DEF FillMoves, Working
<1> QED BY <1>3, <1>4, <1>5

\* The mark of one revision: what a step makes of it.
MarkMoves(r) ==
  \/ mark'[r] = mark[r] /\ marked'[r] = marked[r]
  \/ \E p \in Process : /\ Finish(p, r) /\ mark'[r] = Kept(r, fill[p][r].token)
                        /\ marked'[r] = marked[r]
  \/ \E v \in Visit : WritePlans(v) /\ mark'[r] = MaxSource + v /\ marked'[r] = source
  \/ \E n \in Change : /\ SetMark(n) /\ mark'[r] = n
                       /\ marked'[r] = IF n > marked[r] THEN n ELSE marked[r]

LEMMA MarkStep ==
  ASSUME TypeOK, [Next]_vars
  PROVE  \A r \in Revision : MarkMoves(r)
<1> SUFFICES ASSUME NEW r \in Revision PROVE MarkMoves(r)
  OBVIOUS
<1>0. MarkTyped /\ MarkedTyped
  BY Typed
<1>1. CASE mark' = mark /\ marked' = marked
  BY <1>1 DEF MarkMoves
<1>2. ASSUME NEW p \in Process, NEW j \in Revision, Finish(p, j) PROVE MarkMoves(r)
  <2>1. mark' = [mark EXCEPT ![j] = Kept(j, fill[p][j].token)] /\ marked' = marked
    BY <1>2 DEF Finish, history
  <2>2. CASE j = r
    <3>1. mark'[r] = Kept(r, fill[p][r].token) /\ marked'[r] = marked[r]
      BY <1>0, <2>1, <2>2 DEF MarkTyped
    <3> QED BY <1>2, <2>2, <3>1, Zenon DEF MarkMoves
  <2>3. CASE j # r
    BY <1>0, <2>1, <2>3 DEF MarkTyped, MarkMoves
  <2> QED BY <2>2, <2>3
<1>3. ASSUME NEW v \in Visit, WritePlans(v) PROVE MarkMoves(r)
  <2>1. \/ mark'[r] = mark[r] /\ marked'[r] = marked[r]
        \/ mark'[r] = MaxSource + v /\ marked'[r] = source
    BY <1>3 DEF WritePlans
  <2> QED BY <1>3, <2>1, Zenon DEF MarkMoves
<1>4. ASSUME NEW n \in Change, SetMark(n) PROVE MarkMoves(r)
  <2>1. \/ mark'[r] = mark[r] /\ marked'[r] = marked[r]
        \/ mark'[r] = n /\ marked'[r] = IF n > marked[r] THEN n ELSE marked[r]
    BY <1>0, <1>4 DEF SetMark, MarkTyped, MarkedTyped
  <2> QED BY <1>4, <2>1, Zenon DEF MarkMoves
<1> QED BY <1>1, <1>2, <1>3, <1>4, Changes DEF Changed

LEMMA TokensStep ==
  ASSUME TypeOK, Known, TokensUsed, [Next]_vars
  PROVE  /\ TokensUsed'
         /\ \A t : Used(t) => Used(t)'
<1>1. ASSUME NEW v \in Visit, visit[v].pc \notin {"none", "write"}
      PROVE  visit'[v].pc \notin {"none", "write"}
  <2>1. VisitMoves(v)
    BY VisitStep
  <2>2. WritePlans(v) => visit[v].pc = "write"
    BY DEF WritePlans
  <2> QED BY <1>1, <2>1, <2>2, Blanks DEF VisitMoves
<1>2. ASSUME NEW n \in Change, refresh[n].pc \notin Marking
      PROVE  refresh'[n].pc \notin Marking
  <2>1. RefreshMoves(n) /\ refresh[n] \in RefreshSet /\ source \in Nat
    BY RefreshStep, SourceStep, Typed DEF RefreshTyped
  <2>2. /\ AskActivity(n) => refresh[n].pc = "activity"
        /\ ListPlans(n) => refresh[n].pc = "list"
    BY DEF AskActivity, ListPlans
  <2>3. refresh[n].pc # "none" => n # source + 1
    BY <2>1, Numbers DEF Known
  <2>4. \A y \in RefreshSet, pc \in {"fill", "wait", "await"} :
          [y EXCEPT !.pc = pc].pc \notin Marking
    BY DEF RefreshSet, Marking
  <2>5. Refreshed.pc \notin Marking
    BY Blanks DEF Marking
  <2> QED BY <1>2, <2>1, <2>2, <2>3, <2>4, <2>5 DEF RefreshMoves, Marking
<1>3. ASSUME NEW t, Used(t) PROVE Used(t)'
  BY <1>1, <1>2, <1>3 DEF Used
<1>4. ASSUME NEW r \in Revision PROVE Used(mark[r])'
  <2>1. MarkMoves(r) /\ Used(mark[r])
    BY MarkStep DEF TokensUsed
  <2>2. CASE mark'[r] \in {mark[r], NoToken}
    BY <1>3, <2>1, <2>2 DEF Used
  <2>3. ASSUME NEW v \in Visit, WritePlans(v), mark'[r] = MaxSource + v PROVE Used(mark[r])'
    <3>1. visit'[v].pc \in {"warm", "drop"}
      BY <2>3, Typed DEF WritePlans, VisitTyped, VisitSet
    <3>2. visit'[v].pc \notin {"none", "write"}
      BY <3>1
    <3> QED BY <2>3, <3>2 DEF Used
  <2>4. ASSUME NEW n \in Change, SetMark(n), mark'[r] = n PROVE Used(mark[r])'
    <3>1. refresh'[n].pc = "fill"
      BY <2>4, Typed DEF SetMark, RefreshTyped, RefreshSet
    <3> QED BY <2>4, <3>1 DEF Used, Marking
  <2> QED BY <2>1, <2>2, <2>3, <2>4 DEF MarkMoves, Kept
<1>5. ASSUME NEW p \in Process, NEW r \in Revision PROVE Used(fill[p][r].token)'
  <2>1. FillMoves(p, r) /\ fill[p][r] \in Fills(source)
    BY FillStep, Typed DEF FillTyped
  <2>2. fill'[p][r].token \in {fill[p][r].token, NoToken, mark[r]}
    <3>1. /\ NoFill.token = NoToken /\ [NoFill EXCEPT !.pc = "lock"].token = NoToken
          /\ [NoFill EXCEPT !.pc = "failed"].token = NoToken
      BY Blanks
    <3>2. /\ [fill[p][r] EXCEPT !.pc = "load", !.token = mark[r]].token = mark[r]
          /\ [fill[p][r] EXCEPT !.pc = "store", !.data = source].token = fill[p][r].token
          /\ [fill[p][r] EXCEPT !.pc = "stored"].token = fill[p][r].token
      BY <2>1 DEF Fills
    <3> QED BY <2>1, <3>1, <3>2 DEF FillMoves
  <2>3. Used(fill[p][r].token) /\ Used(mark[r]) /\ Used(NoToken)
    BY DEF TokensUsed, Used
  <2> QED BY <1>3, <2>2, <2>3
<1> QED BY <1>3, <1>4, <1>5 DEF TokensUsed

-----------------------------------------------------------------------------
(* No fill takes the mark of a change with it                               *)

\* A token that is set is new: no fill has read it.
LEMMA NewToken ==
  ASSUME TypeOK, TokensUsed, NEW p \in Process, NEW r \in Revision, NEW t,
         \/ \E v \in Visit : WritePlans(v) /\ t = MaxSource + v
         \/ \E n \in Change : SetMark(n) /\ t = n
  PROVE  t # NoToken /\ t # fill[p][r].token
<1>1. Used(fill[p][r].token)
  BY DEF TokensUsed
<1>2. ASSUME NEW v \in Visit, WritePlans(v), t = MaxSource + v
      PROVE  t # NoToken /\ t # fill[p][r].token
  <2>1. t # NoToken /\ t \notin Change
    BY <1>2, Numbers
  <2>2. visit[v].pc = "write"
    BY <1>2 DEF WritePlans
  <2>3. ASSUME NEW w \in Visit, MaxSource + w = t PROVE w = v
    BY <1>2, <2>3, Numbers
  <2> QED BY <1>1, <2>1, <2>2, <2>3 DEF Used
<1>3. ASSUME NEW n \in Change, SetMark(n), t = n
      PROVE  t # NoToken /\ t # fill[p][r].token
  <2>1. t # NoToken /\ \A v \in Visit : t # MaxSource + v
    BY <1>3, Numbers
  <2>2. refresh[n].pc \in Marking
    BY <1>3 DEF SetMark, Marking
  <2> QED BY <1>1, <1>3, <2>1, <2>2 DEF Used
<1> QED BY <1>2, <1>3

\* The result of one revision: what a step makes of it.
ResultMoves(r) ==
  \/ result'[r] = result[r]
  \/ result'[r] = Nothing
  \/ \E p \in Process : Store(p, r) /\ result'[r] = fill[p][r].data

LEMMA ResultStep ==
  ASSUME TypeOK, [Next]_vars
  PROVE  \A r \in Revision : ResultMoves(r)
<1> SUFFICES ASSUME NEW r \in Revision PROVE ResultMoves(r)
  OBVIOUS
<1>0. ResultTyped
  BY Typed
<1>1. ASSUME NEW p \in Process, NEW j \in Revision, Store(p, j) PROVE ResultMoves(r)
  <2>1. result' = [result EXCEPT ![j] = fill[p][j].data]
    BY <1>1 DEF Store
  <2>2. CASE j = r
    <3>1. result'[r] = fill[p][r].data
      BY <1>0, <2>1, <2>2 DEF ResultTyped
    <3> QED BY <1>1, <2>2, <3>1, Zenon DEF ResultMoves
  <2>3. CASE j # r
    BY <1>0, <2>1, <2>3 DEF ResultTyped, ResultMoves
  <2> QED BY <2>2, <2>3
<1>2. ASSUME NEW v \in Visit, DropResult(v) PROVE ResultMoves(r)
  BY <1>0, <1>2 DEF DropResult, ResultTyped, ResultMoves
<1> QED BY <1>1, <1>2, Changes DEF Changed, ResultMoves

LEMMA FillsFreshStep ==
  ASSUME TypeOK, Known, LockHeld, TokensUsed, FillsFresh, [Next]_vars
  PROVE  FillsFresh'
<1> SUFFICES ASSUME NEW p \in Process, NEW r \in Revision, r \notin outlived'
             PROVE  FillFresh(p, r)'
  BY DEF FillsFresh
<1>1. r \notin outlived /\ FillFresh(p, r)
  BY OutlivedStep DEF FillsFresh
<1>2. /\ fill[p][r] \in Fills(source) /\ FillTyped /\ marked[r] \in 0 .. source /\ source \in Nat
  BY Typed, SourceStep DEF FillTyped, MarkedTyped
<1>3. FillMoves(p, r) /\ MarkMoves(r) /\ ResultMoves(r)
  BY FillStep, MarkStep, ResultStep
<1>4. fill'[p][r].pc \in {"none", "lock", "failed"} => FillFresh(p, r)'
  BY DEF FillFresh
<1>5. CASE UNCHANGED fill[p][r] /\ fill[p][r].pc \in {"load", "store", "stored"}
  <2>1. lock[r] = p
    BY <1>1, <1>5 DEF LockHeld, Working
  <2>2. ASSUME NEW q \in Process, Store(q, r) \/ Finish(q, r) PROVE FALSE
    <3>1. q = p
      BY <1>1, <2>1, <2>2 DEF Store, Finish, At, LockHeld, Working
    <3>2. Store(p, r) => fill'[p][r] = [fill[p][r] EXCEPT !.pc = "stored"]
      BY <1>2 DEF Store, Moved, FillTyped
    <3>3. Store(p, r) => fill[p][r].pc = "store" /\ fill'[p][r].pc = "stored"
      BY <1>2, <3>2 DEF Store, At, Fills
    <3>4. Finish(p, r) => fill'[p][r] = NoFill
      BY <1>2 DEF Finish, Settle, Moved, FillTyped
    <3> QED BY <1>5, <2>2, <3>1, <3>3, <3>4, Blanks
  <2>3. result'[r] \in {result[r], Nothing}
    BY <1>3, <2>2 DEF ResultMoves
  <2>4. \/ mark'[r] = mark[r] /\ marked'[r] = marked[r]
        \/ mark'[r] # NoToken /\ mark'[r] # fill[p][r].token
    BY <1>3, <2>2, NewToken DEF MarkMoves
  <2> QED BY <1>1, <1>5, <2>3, <2>4 DEF FillFresh
<1>6. CASE TakeLock(p, r) /\ fill'[p][r] = [fill[p][r] EXCEPT !.pc = "load", !.token = mark[r]]
  <2>1. fill'[p][r].pc = "load" /\ fill'[p][r].token = mark[r] /\ mark' = mark
    BY <1>2, <1>6 DEF Fills, TakeLock
  <2> QED BY <2>1 DEF FillFresh
<1>7. CASE Load(p, r) /\ fill'[p][r] = [fill[p][r] EXCEPT !.pc = "store", !.data = source]
  <2>1. /\ fill'[p][r].pc = "store" /\ fill'[p][r].token = fill[p][r].token
        /\ fill'[p][r].data = source /\ fill[p][r].pc = "load"
    BY <1>2, <1>7 DEF Fills, Load, At
  <2>2. mark' = mark /\ marked' = marked
    BY <1>7 DEF Load, redis, history
  <2> QED BY <1>1, <1>2, <2>1, <2>2 DEF FillFresh
<1>8. CASE Store(p, r) /\ fill'[p][r] = [fill[p][r] EXCEPT !.pc = "stored"]
  <2>1. /\ fill'[p][r].pc = "stored" /\ fill'[p][r].token = fill[p][r].token
        /\ fill'[p][r].data = fill[p][r].data /\ fill[p][r].pc = "store"
    BY <1>2, <1>8 DEF Fills, Store, At
  <2>2. mark' = mark /\ marked' = marked
    BY <1>8 DEF Store, history
  <2>3. result'[r] = fill[p][r].data
    BY <1>8, Typed DEF Store, ResultTyped
  <2> QED BY <1>1, <2>1, <2>2, <2>3 DEF FillFresh
<1>9. /\ NoFill.pc = "none" /\ [NoFill EXCEPT !.pc = "lock"].pc = "lock"
      /\ [NoFill EXCEPT !.pc = "failed"].pc = "failed"
  BY Blanks
<1>10. UNCHANGED fill[p][r] => fill'[p][r].pc \in {"none", "lock", "failed"}
                               \/ fill[p][r].pc \in {"load", "store", "stored"}
  BY <1>2 DEF Fills
<1> QED BY <1>3, <1>4, <1>5, <1>6, <1>7, <1>8, <1>9, <1>10 DEF FillMoves

LEMMA MarkKeptStep ==
  ASSUME TypeOK, TokensUsed, FillsFresh, MarkKept, [Next]_vars
  PROVE  MarkKept'
<1> SUFFICES ASSUME NEW r \in Revision, r \notin outlived', result'[r] \in 1 .. marked'[r] - 1
             PROVE  mark'[r] # NoToken
  BY DEF MarkKept
<1>1. /\ r \notin outlived /\ marked[r] \in Nat /\ result[r] \in Nat
      /\ \A p \in Process : fill[p][r].data \in Nat
  BY OutlivedStep, Typed, SourceStep DEF MarkedTyped, ResultTyped, FillTyped, Fills
<1>2. /\ result[r] \in 1 .. marked[r] - 1 => mark[r] # NoToken
      /\ \A p \in Process : FillFresh(p, r)
  BY <1>1 DEF MarkKept, FillsFresh
<1>3. MarkMoves(r) /\ ResultMoves(r)
  BY MarkStep, ResultStep
<1>4. ASSUME NEW p \in Process, Store(p, r), result'[r] = fill[p][r].data
      PROVE  mark'[r] # NoToken
  <2>1. mark' = mark /\ marked' = marked /\ fill[p][r].pc = "store"
    BY <1>4 DEF Store, At, history
  <2> QED BY <1>1, <1>2, <1>4, <2>1 DEF FillFresh
<1>5. CASE result'[r] = result[r]
  <2>1. ASSUME NEW p \in Process, Finish(p, r), mark'[r] = Kept(r, fill[p][r].token),
               marked'[r] = marked[r]
        PROVE  mark'[r] # NoToken
    <3>1. fill[p][r].pc = "stored"
      BY <2>1 DEF Finish, At
    <3> QED BY <1>1, <1>2, <1>5, <2>1, <3>1 DEF FillFresh, Kept, Nothing
  <2>2. ASSUME NEW v \in Visit, mark'[r] = MaxSource + v PROVE mark'[r] # NoToken
    BY <2>2, Numbers
  <2>3. ASSUME NEW n \in Change, mark'[r] = n PROVE mark'[r] # NoToken
    BY <2>3, Numbers
  <2> QED BY <1>2, <1>3, <1>5, <2>1, <2>2, <2>3 DEF MarkMoves
<1> QED BY <1>1, <1>3, <1>4, <1>5 DEF ResultMoves, Nothing

-----------------------------------------------------------------------------
(* A refresh ends with a fill as new as its change                          *)

LEMMA WaitsRightStep ==
  ASSUME TypeOK, Known, WaitsRight, [Next]_vars
  PROVE  WaitsRight'
<1> SUFFICES ASSUME NEW n \in Change, NEW p \in Process, NEW r \in Revision,
                    Waits(refresh'[n], p, r), fill'[p][r].pc \in {"store", "stored"}
             PROVE  fill'[p][r].data >= n
  BY DEF WaitsRight
<1>1. /\ FillMoves(p, r) /\ RefreshMoves(n)
      /\ fill[p][r] \in Fills(source) /\ refresh[n] \in RefreshSet
  BY FillStep, RefreshStep, Typed DEF FillTyped, RefreshTyped
<1>2. ASSUME fill[p][r].pc # "none" PROVE Waits(refresh[n], p, r)
  <2>1. \A pc : [refresh[n] EXCEPT !.pc = pc] =
                  [pc |-> pc, process |-> refresh[n].process, revision |-> refresh[n].revision]
    BY <1>1 DEF RefreshSet
  <2>2. [refresh[n] EXCEPT !.pc = "mark", !.revision = plan].pc = "mark"
    BY <1>1 DEF RefreshSet
  <2>3. Refreshed.pc = "done" /\ refresh'[n].pc = "wait"
        /\ refresh'[n].process = p /\ refresh'[n].revision = r
    BY Blanks DEF Waits
  <2> QED BY <1>1, <1>2, <2>1, <2>2, <2>3 DEF RefreshMoves, At, Waits
<1>3. CASE UNCHANGED fill[p][r]
  BY <1>2, <1>3 DEF WaitsRight
<1>4. CASE Load(p, r) /\ fill'[p][r] = [fill[p][r] EXCEPT !.pc = "store", !.data = source]
  <2>1. fill'[p][r].data = source /\ fill[p][r].pc = "load"
    BY <1>1, <1>4 DEF Fills, Load, At
  <2>2. n <= source
    BY <1>2, <2>1 DEF Known, Waits
  <2> QED BY <2>1, <2>2, Numbers, SourceStep
<1>5. CASE Store(p, r) /\ fill'[p][r] = [fill[p][r] EXCEPT !.pc = "stored"]
  <2>1. fill'[p][r].data = fill[p][r].data /\ fill[p][r].pc = "store"
    BY <1>1, <1>5 DEF Fills, Store, At
  <2> QED BY <1>2, <2>1 DEF WaitsRight
<1>6. /\ NoFill.pc = "none" /\ [NoFill EXCEPT !.pc = "lock"].pc = "lock"
      /\ [NoFill EXCEPT !.pc = "failed"].pc = "failed"
      /\ [fill[p][r] EXCEPT !.pc = "load", !.token = mark[r]].pc = "load"
  BY <1>1, Blanks DEF Fills
<1> QED BY <1>1, <1>3, <1>4, <1>5, <1>6 DEF FillMoves

-----------------------------------------------------------------------------
(* No change goes unmarked                                                  *)

\* What has been marked for, and what was passed over, stays so.
LEMMA CoverGrows ==
  ASSUME TypeOK, [Next]_vars, NEW r \in Revision, NEW n \in Change, n <= source,
         n <= marked[r] \/ n \in passed[r]
  PROVE  n <= marked'[r] \/ n \in passed'[r]
<1>1. /\ marked[r] \in 0 .. source /\ PassedTyped /\ MarkedTyped /\ n \in 2 .. source
      /\ source \in Nat /\ n \in Nat
  BY Typed, SourceStep, Numbers DEF MarkedTyped, Change
<1>2. n <= marked[r] => n <= marked'[r]
  <2>1. MarkMoves(r) /\ \A m \in Change : m \in Nat
    BY MarkStep, Numbers
  <2> QED BY <1>1, <2>1 DEF MarkMoves
<1>3. n \in passed[r] => n \in passed'[r]
  <2>1. ASSUME NEW v \in Visit, WritePlans(v), n \in passed[r] PROVE n \in passed'[r]
    BY <1>1, <2>1 DEF WritePlans
  <2>2. ASSUME NEW m \in Change, ListPlans(m) \/ RefreshFails(m), n \in passed[r]
        PROVE  n \in passed'[r]
    BY <2>2 DEF ListPlans, RefreshFails, Passes
  <2>3. ASSUME NEW p \in Process, Dies(p), n \in passed[r] PROVE n \in passed'[r]
    BY <2>3 DEF Dies
  <2> QED BY <2>1, <2>2, <2>3, Changes DEF Changed
<1> QED BY <1>2, <1>3

\* A change that is due no longer has been marked for, or it was passed over, or it is
\* of no account while the dashboard is left alone.
LEMMA DueEnds ==
  ASSUME TypeOK, Known, ListedOne, [Next]_vars, NEW n \in Change, Due(n), ~ Due(n)',
         NEW r \in Revision
  PROVE  ~ active' \/ n <= marked'[r] \/ n \in passed'[r]
<1>1. /\ RefreshTyped /\ MarkedTyped /\ PassedTyped /\ n \in Nat /\ plan \in Plan
      /\ refresh[n] \in RefreshSet /\ marked[r] \in Nat /\ n <= source
  BY Typed, Numbers, SourceStep DEF RefreshTyped, MarkedTyped, Known, Due
<1>2. refresh'[n] # refresh[n]
  BY DEF Due
<1>3. ASSUME NEW m \in Change, AskActivity(m) PROVE ~ active' \/ refresh'[n] = refresh[n]
                                                  \/ Due(n)'
  BY <1>1, <1>3 DEF AskActivity, redis, RefreshTyped, RefreshSet, Due
<1>4. ASSUME NEW m \in Change, ListPlans(m) PROVE n \in passed'[r]
  <2>1. m = n
    BY <1>1, <1>2, <1>4 DEF ListPlans, RefreshTyped
  <2>2. plan = Unregistered
    BY <1>1, <1>4, <2>1 DEF ListPlans, RefreshTyped, RefreshSet, Due
  <2>3. r # plan
    BY <2>2, Assumptions
  <2> QED BY <1>4, <2>1, <2>3 DEF ListPlans, Passes
<1>5. ASSUME NEW m \in Change, SetMark(m) PROVE n <= marked'[r] \/ n \in passed'[r]
  <2>1. m = n
    BY <1>1, <1>2, <1>5 DEF SetMark, RefreshTyped
  <2>2. CASE r = refresh[n].revision
    BY <1>1, <1>5, <2>1, <2>2 DEF SetMark, MarkedTyped
  <2>3. CASE r # refresh[n].revision
    BY <1>5, <2>1, <2>3 DEF SetMark, ListedOne
  <2> QED BY <2>2, <2>3
<1>6. ASSUME NEW m \in Change, RefreshFails(m) PROVE n \in passed'[r]
  <2>1. m = n
    BY <1>1, <1>2, <1>6 DEF RefreshFails, RefreshTyped
  <2> QED BY <1>6, <2>1 DEF RefreshFails, Passes
<1>7. ASSUME NEW p \in Process, Dies(p) PROVE n \in passed'[r]
  BY <1>2, <1>7 DEF Dies, Due
<1>8. ASSUME NEW m \in Change, FillAgain(m) \/ GiveUp(m) PROVE FALSE
  <2>1. m = n
    BY <1>1, <1>2, <1>8 DEF FillAgain, GiveUp, RefreshTyped
  <2> QED BY <1>8, <2>1 DEF FillAgain, GiveUp, Due
<1>9. ASSUME NEW p \in Process, NEW j \in Revision, RunMaterialize(p, j) PROVE FALSE
  <2>1. \/ refresh' = refresh
        \/ \E d : refresh' = [m \in Change |-> Resumed(m, p, j, d)]
    BY <1>9 DEF RunMaterialize, TakeLock, LockIsTaken, Load, Store, Finish, Fails, Abandon, Settle
  <2>2. \A d : Resumed(n, p, j, d) = refresh[n]
    BY DEF Resumed, Waits, Due
  <2> QED BY <1>2, <2>1, <2>2
<1>10. ASSUME NEW p \in Process, DataChanges(p) PROVE FALSE
  BY <1>1, <1>2, <1>10, SourceStep DEF DataChanges, RefreshTyped
<1>11. CASE refresh' = refresh
  BY <1>2, <1>11
<1>12. ASSUME NEW v \in Visit, Activate(v) PROVE refresh' = refresh
  BY <1>12 DEF Activate, WritePlans, DropResult, Warm
<1>13. ASSUME \/ \E c \in Client : GetOrLoad(c)
              \/ \E v \in Visit, p \in Process, j \in Revision : Visits(v, p, {j}, TRUE)
              \/ \E v \in Visit, p \in Process, keeps \in BOOLEAN : Visits(v, p, {}, keeps)
              \/ \E j \in Revision : LockExpires(j)
              \/ Quiet
              \/ UNCHANGED vars
       PROVE  refresh' = refresh
  BY <1>13 DEF GetOrLoad, Ask, Touch, Visits, LockExpires, Quiet, vars, calls
<1> QED
  BY <1>2, <1>3, <1>4, <1>5, <1>6, <1>7, <1>8, <1>9, <1>10, <1>12, <1>13
     DEF Next, RefreshAffected

\* A visit that ends a quiet time marks for every change, or passes it over.
LEMMA QuietEnds ==
  ASSUME TypeOK, ~ active, active', [Next]_vars,
         NEW r \in Revision, NEW n \in Change, n <= source
  PROVE  n <= marked'[r] \/ Due(n)' \/ n \in passed'[r]
<1>1. PICK v \in Visit : WritePlans(v)
  BY Changes DEF Changed, Quiet
<1>2. /\ visit[v] \in VisitSet /\ PassedTyped /\ n \in 2 .. source /\ source \in Nat
  BY Typed, SourceStep, Numbers DEF VisitTyped, Change
<1> DEFINE x == visit[v]
<1>3. CASE Removed(x) # {}
  BY <1>1, <1>2, <1>3 DEF WritePlans
<1>4. CASE Removed(x) = {} /\ Overlooks(x, r)
  <2>1. n \in passed'[r] \/ Due(n)
    BY <1>1, <1>2, <1>4 DEF WritePlans
  <2>2. Due(n) => Due(n)'
    BY <1>1 DEF WritePlans, Due
  <2> QED BY <2>1, <2>2
<1>5. CASE Removed(x) = {} /\ ~ Overlooks(x, r)
  <2>1. r \in Marks(x)
    BY <1>2, <1>5 DEF Overlooks, Marks, Removed, VisitSet
  <2>2. marked'[r] = source
    BY <1>1, <2>1 DEF WritePlans
  <2> QED BY <2>2
<1> QED BY <1>3, <1>4, <1>5

LEMMA AllCoveredStep ==
  ASSUME TypeOK, Known, AllCovered, ListedOne, [Next]_vars
  PROVE  AllCovered'
<1> SUFFICES ASSUME active', NEW r \in Revision, NEW n \in Change, n <= source'
             PROVE  n <= marked'[r] \/ Due(n)' \/ n \in passed'[r]
  BY DEF AllCovered, Covered
<1>1. CASE n <= source
  <2>1. CASE active
    <3>1. n <= marked[r] \/ Due(n) \/ n \in passed[r]
      BY <1>1, <2>1 DEF AllCovered, Covered
    <3>2. CASE Due(n)
      BY <3>2, DueEnds
    <3>3. CASE n <= marked[r] \/ n \in passed[r]
      BY <1>1, <3>3, CoverGrows
    <3> QED BY <3>1, <3>2, <3>3
  <2>2. CASE ~ active
    BY <1>1, <2>2, QuietEnds
  <2> QED BY <2>1, <2>2
<1>2. CASE ~ (n <= source)
  <2>1. PICK p \in Process : DataChanges(p)
    BY <1>2, SourceStep
  <2>2. n = source + 1
    BY <1>2, <2>1, SourceStep, Numbers DEF DataChanges
  <2>3. RefreshTyped
    BY Typed
  <2> QED BY <2>1, <2>2, <2>3 DEF DataChanges, RefreshTyped, Due
<1> QED BY <1>1, <1>2

LEMMA ListedOneStep ==
  ASSUME TypeOK, Known, ListedOne, [Next]_vars
  PROVE  ListedOne'
<1> SUFFICES ASSUME NEW n \in Change, refresh'[n].pc = "mark",
                    NEW r \in Revision, r # refresh'[n].revision
             PROVE  n \in passed'[r]
  BY DEF ListedOne
<1>1. RefreshMoves(n) /\ refresh[n] \in RefreshSet
  BY RefreshStep, Typed DEF RefreshTyped
<1>2. CASE UNCHANGED refresh[n]
  <2>1. n <= source /\ n \in passed[r]
    BY <1>2 DEF Known, ListedOne
  <2>2. \/ passed'[r] = passed[r]
        \/ \E v \in Visit : WritePlans(v)
        \/ \E m \in Change : ListPlans(m) \/ RefreshFails(m)
        \/ \E p \in Process : Dies(p)
    BY Changes DEF Changed
  <2>3. n \in 2 .. source
    BY <2>1, SourceStep, Numbers DEF Change
  <2> QED BY <2>1, <2>2, <2>3, Typed
          DEF WritePlans, ListPlans, RefreshFails, Passes, Dies, PassedTyped
<1>3. CASE ListPlans(n) /\ refresh'[n] = [refresh[n] EXCEPT !.pc = "mark", !.revision = plan]
  <2>1. refresh'[n].revision = plan
    BY <1>1, <1>3 DEF RefreshSet
  <2> QED BY <1>3, <2>1 DEF ListPlans, Passes
<1>4. \A pc : [refresh[n] EXCEPT !.pc = pc].pc = pc
  BY <1>1 DEF RefreshSet
<1>5. Refreshed.pc = "done"
  BY Blanks
<1> QED BY <1>1, <1>2, <1>3, <1>4, <1>5 DEF RefreshMoves

-----------------------------------------------------------------------------
(* The theorems                                                             *)

LEMMA GraphStep == GraphInv /\ [Next]_vars => GraphInv'
<1> SUFFICES ASSUME GraphInv, [Next]_vars PROVE GraphInv'
  OBVIOUS
<1>1. TypeOK' /\ Known' /\ LockHeld'
  BY TypeStep, KnownStep, LockHeldStep DEF GraphInv
<1>2. TokensUsed' /\ FillsFresh' /\ MarkKept'
  BY TokensStep, FillsFreshStep, MarkKeptStep DEF GraphInv
<1>3. WaitsRight' /\ AllCovered' /\ ListedOne'
  BY WaitsRightStep, AllCoveredStep, ListedOneStep DEF GraphInv
<1> QED BY <1>1, <1>2, <1>3 DEF GraphInv

\* What the other theorems rest on: locks, tokens, and what each change has come to
\* (graph-cache.ts).
THEOREM GraphInvariant == Spec => []GraphInv
BY GraphInit, GraphStep, PTL DEF Spec

\* The plans, results, marks and calls have the shapes that are stated for them.
THEOREM GraphTyped == Spec => []TypeOK
<1>1. GraphInv => TypeOK
  BY DEF GraphInv
<1> QED BY <1>1, GraphInvariant, PTL

\* No fill takes the mark of a change with it that came while it loaded, and no change
\* goes unmarked while the dashboard is visited, however the fills, refreshes and visits of
\* the processes overlap (graph-cache.ts:197).
THEOREM NothingLost == Spec => []NoChangeLost
<1>1. ASSUME GraphInv PROVE MarkKept /\ NothingForgotten
  <2>1. MarkKept /\ AllCovered /\ TypeOK
    BY <1>1 DEF GraphInv
  <2>2. ASSUME active, plan \in Revision, plan \notin outlived, result[plan] # Nothing,
               mark[plan] = NoToken, NEW n \in Change, n \in result[plan] + 1 .. source
        PROVE  Due(n) \/ n \in passed[plan]
    <3>1. /\ result[plan] \in 0 .. source /\ marked[plan] \in Nat /\ source \in Nat
          /\ n \in Nat /\ n <= source
      BY <2>1, <2>2, Typed, Numbers DEF ResultTyped, MarkedTyped
    <3>2. Covered(plan, n)
      BY <2>1, <2>2, <3>1 DEF AllCovered
    <3>3. ~ (result[plan] \in 1 .. marked[plan] - 1)
      BY <2>1, <2>2 DEF MarkKept
    <3>4. ~ (n <= marked[plan])
      BY <2>2, <3>1, <3>3 DEF Nothing
    <3> QED BY <3>2, <3>4 DEF Covered
  <2> QED BY <2>1, <2>2 DEF NothingForgotten
<1>2. GraphInv => NoChangeLost
  BY <1>1 DEF NoChangeLost
<1> QED BY <1>2, GraphInvariant, PTL

\* A refresh is over only with a fill that began after its change
\* (graph-cache.ts, refreshAffected).
THEOREM RefreshesAnew == Spec => RefreshedAnew
<1>1. ASSUME GraphInv, NEW n \in Change, NEW p \in Process, NEW r \in Revision,
             Waits(refresh[n], p, r), At(p, r, "stored")
      PROVE  fill[p][r].data >= n
  BY <1>1 DEF GraphInv, WaitsRight, At
<1>2. GraphInv =>
        [\A n \in Change, p \in Process, r \in Revision :
           Waits(refresh[n], p, r) /\ refresh'[n].pc = "done" /\ At(p, r, "stored")
             => fill[p][r].data >= n]_vars
  BY <1>1
<1> QED BY <1>2, GraphInvariant, PTL DEF RefreshedAnew
=============================================================================
