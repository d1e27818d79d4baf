----------------------------- MODULE Site_proofs -----------------------------
(***************************************************************************)
(* Of any number of processes, migrations, passwords and sessions: who     *)
(* starts makes the migrations in their order and once, and whoever is let *)
(* in has the password that holds.  Of any number of loads, selections and *)
(* zooms, answered in any order: a chart at rest shows what was selected   *)
(* last.  Of any number of clients and tool calls, however they fail: no   *)
(* mutation is made twice, and the history tells the truth.                *)
(* Of any addresses and rows: a backup brings back what stayed while it    *)
(* was read, and no cursor speaks for a transaction that is missing.       *)
(* Of any lines and windows: what is saved of a chart is what it shows,    *)
(* its detail comes, and its focus comes back.                             *)
(*                                                                         *)
(* Each part has its own inductive invariant; a step of another part       *)
(* leaves it as it is.                                                     *)
(***************************************************************************)
EXTENDS Site, FiniteSetTheorems, SequenceTheorems, WellFoundedInduction, TLAPS

(* The start of a process (Startup). *)

Holding == {"reading", "migrating", "releasing"}
Ready == {"releasing", "account", "changing", "serving"}

\* What the variables hold.
StartupTypeOK ==
  /\ kind \in {"postgres", "sqlite"}
  /\ schema \in Seq(Nat) /\ recorded \in SUBSET Nat
  /\ lock \in Replica \cup {NoReplica}
  /\ phase \in [Replica -> Phases]
  /\ build \in [Replica -> Nat]
  /\ applied \in [Replica -> SUBSET Nat]
  /\ configured \in [Replica -> Password]
  /\ user \in User \cup {NoUser}
  /\ known \in [Replica -> User \cup {NoUser}]
  /\ failures \in [Replica -> Nat]
  /\ signingIn \in SUBSET [replica : Replica, password : Password, version : Nat]
  /\ sessions \in SUBSET [id : Session, password : Password, version : Nat,
                          expired : BOOLEAN]
  /\ starts \in Nat

\* One process at a time is between taking and releasing the lock, or it is alone, ...
LockHeld ==
  /\ \A r \in Replica : phase[r] = "waiting" => kind = "postgres"
  /\ \A r \in Replica : lock = r => kind = "postgres" /\ phase[r] \in Holding
  /\ \A r \in Replica : kind = "postgres" /\ phase[r] \in Holding => lock = r
  /\ kind = "sqlite" =>
       \A r, q \in Replica : phase[r] # "down" /\ phase[q] # "down" => r = q

\* ... so that what it knows to be applied is what is.
SchemaKnown ==
  /\ recorded = 1 .. Len(schema)
  /\ \A n \in 1 .. Len(schema) : schema[n] = n
  /\ \A r \in Replica : phase[r] = "migrating" => applied[r] = recorded
  /\ \A r \in Replica : phase[r] \in Ready => 1 .. build[r] \subseteq recorded

\* Versions only grow, and each stands for one password.
VersionsTell ==
  /\ \A s \in sessions : /\ user # NoUser /\ s.version <= user.version
                         /\ s.version = user.version => s.password = user.password
  /\ \A s \in signingIn : /\ user # NoUser /\ s.version <= user.version
                          /\ s.version = user.version => s.password = user.password
  /\ \A r \in Replica : phase[r] = "serving" => user # NoUser
  /\ \A r \in Replica : phase[r] = "changing" /\ known[r] # NoUser => user # NoUser

StartupInv == StartupTypeOK /\ LockHeld /\ SchemaKnown /\ VersionsTell

-----------------------------------------------------------------------------

LEMMA StartupInitInv == StartupInit => StartupInv
<1> SUFFICES ASSUME StartupInit PROVE StartupInv
  OBVIOUS
<1>1. StartupTypeOK
  BY StartupAssumptions DEF StartupInit, StartupTypeOK, Phases
<1>2. LockHeld
  BY StartupAssumptions DEF StartupInit, LockHeld, Holding
<1>3. SchemaKnown
  BY DEF StartupInit, SchemaKnown, Ready
<1>4. VersionsTell
  BY DEF StartupInit, VersionsTell
<1> QED
  BY <1>1, <1>2, <1>3, <1>4 DEF StartupInv

\* The least of an interval.
LEMMA LowestOfRest ==
  ASSUME NEW low \in Nat, NEW high \in Nat, low + 1 <= high
  PROVE  Lowest((1 .. high) \ (1 .. low)) = low + 1
<1> DEFINE S == (1 .. high) \ (1 .. low)
<1>1. low + 1 \in S /\ \A m \in S : low + 1 <= m
  OBVIOUS
<1>2. \A n \in S : (\A m \in S : n <= m) => n = low + 1
  BY <1>1
<1>3. \A n : n \in S /\ (\A m \in S : n <= m) <=> n = low + 1
  BY <1>1, <1>2
<1> QED
  BY <1>1, <1>2 DEF Lowest

LEMMA PendingRest ==
  ASSUME StartupInv, NEW r \in Replica, phase[r] = "migrating", Pending(r) # {}
  PROVE  /\ Lowest(Pending(r)) = Len(schema) + 1
         /\ Lowest(Pending(r)) \in Pending(r)
<1>1. build[r] \in Nat /\ Len(schema) \in Nat
  BY DEF StartupInv, StartupTypeOK
<1>2. Pending(r) = (1 .. build[r]) \ (1 .. Len(schema))
  BY DEF Pending, StartupInv, SchemaKnown
<1>3. Len(schema) + 1 <= build[r]
  BY <1>1, <1>2
<1>4. Lowest(Pending(r)) = Len(schema) + 1
  BY <1>1, <1>2, <1>3, LowestOfRest
<1> QED
  BY <1>1, <1>2, <1>3, <1>4

LEMMA CountedType ==
  ASSUME NEW f \in [Replica -> Nat], NEW r \in Replica, NEW g,
         \/ g = [f EXCEPT ![r] = 0]
         \/ g = [f EXCEPT ![r] = f[r] + 1]
  PROVE  g \in [Replica -> Nat]
<1>1. f[r] + 1 \in Nat
  OBVIOUS
<1> QED
  BY <1>1

LEMMA StartupNextType ==
  ASSUME StartupInv, [StartupNext]_startupVars
  PROVE  StartupTypeOK'
<1> USE StartupAssumptions DEF StartupTypeOK, schemaVars, loginVars, User, Phases
<1>a. StartupTypeOK
  BY DEF StartupInv
<1> USE <1>a
<1>1. CASE UNCHANGED startupVars
  BY <1>1 DEF startupVars
<1>2. ASSUME NEW r \in Replica, Start(r) PROVE StartupTypeOK'
  BY <1>2 DEF Start, Goes
<1>3. ASSUME NEW r \in Replica, Lock(r) PROVE StartupTypeOK'
  BY <1>3 DEF Lock, Goes
<1>4. ASSUME NEW r \in Replica, ReadApplied(r) PROVE StartupTypeOK'
  BY <1>4 DEF ReadApplied, Goes
<1>5. ASSUME NEW r \in Replica, Migrate(r) PROVE StartupTypeOK'
  <2> DEFINE next == Lowest(Pending(r))
  <2>1. phase[r] = "migrating" /\ Pending(r) # {}
    BY <1>5 DEF Migrate
  <2>2. next = Len(schema) + 1
    BY <2>1, PendingRest
  <2>3. next \in Nat
    BY <2>2
  <2>4. /\ schema' = Append(schema, next) /\ recorded' = recorded \cup {next}
        /\ applied' = [applied EXCEPT ![r] = @ \cup {next}]
    BY <1>5 DEF Migrate
  <2> HIDE DEF next
  <2>5. schema' \in Seq(Nat) /\ recorded' \in SUBSET Nat
    BY <2>3, <2>4
  <2>6. applied' \in [Replica -> SUBSET Nat]
    BY <2>3, <2>4
  <2> QED
    BY <1>5, <2>5, <2>6 DEF Migrate
<1>6. ASSUME NEW r \in Replica, Migrated(r) PROVE StartupTypeOK'
  BY <1>6 DEF Migrated, Goes
<1>7. ASSUME NEW r \in Replica, Unlock(r) PROVE StartupTypeOK'
  BY <1>7 DEF Unlock, Goes, Released
<1>8. ASSUME NEW r \in Replica, ReadAccount(r) PROVE StartupTypeOK'
  BY <1>8 DEF ReadAccount, Goes
<1>9. ASSUME NEW r \in Replica, CreateAccount(r) PROVE StartupTypeOK'
  BY <1>9 DEF CreateAccount, Goes
<1>10. ASSUME NEW r \in Replica, ChangePassword(r) PROVE StartupTypeOK'
  <2>1. user # NoUser
    BY <1>10 DEF ChangePassword, StartupInv, VersionsTell
  <2>2. [password |-> configured[r], version |-> user.version + 1] \in User
    BY <2>1
  <2> QED
    BY <1>10, <2>2 DEF ChangePassword, ReplacePassword, Goes
<1>11. ASSUME NEW r \in Replica, Exit(r) PROVE StartupTypeOK'
  BY <1>11 DEF Exit, Goes, Released
<1>12. ASSUME NEW r \in Replica, BeginLogin(r) PROVE StartupTypeOK'
  <2>1. user \in User
    BY <1>12 DEF BeginLogin, StartupInv, VersionsTell
  <2>2. PICK password \in Password :
          \/ /\ signingIn' = signingIn \cup
                  {[replica |-> r, password |-> password, version |-> user.version]}
             /\ failures' = [failures EXCEPT ![r] = 0]
          \/ failures' = [failures EXCEPT ![r] = @ + 1] /\ signingIn' = signingIn
    BY <1>12, Zenon DEF BeginLogin
  <2>3. failures' \in [Replica -> Nat]
    <3>1. \/ failures' = [failures EXCEPT ![r] = 0]
          \/ failures' = [failures EXCEPT ![r] = failures[r] + 1]
      BY <2>2, Zenon
    <3> QED
      BY <3>1, CountedType
  <2>4. [replica |-> r, password |-> password, version |-> user.version]
          \in [replica : Replica, password : Password, version : Nat]
    BY <2>1
  <2>5. signingIn' \in SUBSET [replica : Replica, password : Password, version : Nat]
    BY <2>2, <2>4
  <2> QED
    BY <1>12, <2>3, <2>5 DEF BeginLogin
<1>13. ASSUME NEW r \in Replica, LetTryAgain(r) PROVE StartupTypeOK'
  BY <1>13 DEF LetTryAgain, Goes
<1>14. ASSUME NEW login \in signingIn, EndLogin(login) PROVE StartupTypeOK'
  <2>1. PICK id \in FreeId :
          sessions' = sessions \cup {[id |-> id, password |-> login.password,
                                      version |-> login.version, expired |-> FALSE]}
    BY <1>14 DEF EndLogin
  <2>2. login.password \in Password /\ login.version \in Nat /\ id \in Session
    BY DEF FreeId
  <2>3. [id |-> id, password |-> login.password, version |-> login.version,
         expired |-> FALSE]
          \in [id : Session, password : Password, version : Nat, expired : BOOLEAN]
    BY <2>2
  <2>4. sessions' \in SUBSET [id : Session, password : Password, version : Nat,
                              expired : BOOLEAN]
    BY <2>1, <2>3
  <2> QED
    BY <1>14, <2>4 DEF EndLogin
<1>15. ASSUME NEW s \in sessions, Refuse(s) PROVE StartupTypeOK'
  BY <1>15 DEF Refuse, Without
<1>16. ASSUME NEW s \in sessions, SignOut(s) PROVE StartupTypeOK'
  BY <1>16 DEF SignOut, Without
<1>17. ASSUME NEW s \in sessions, Expire(s) PROVE StartupTypeOK'
  BY <1>17 DEF Expire, Goes
<1>18. CASE Purge
  BY <1>18 DEF Purge
<1> QED
  BY <1>1, <1>2, <1>3, <1>4, <1>5, <1>6, <1>7, <1>8, <1>9, <1>10, <1>11, <1>12, <1>13, <1>14, <1>15, <1>16, <1>17, <1>18
     DEF StartupNext, StartsUp

LEMMA LockHeldNext ==
  ASSUME StartupInv, [StartupNext]_startupVars
  PROVE  LockHeld'
<1> USE StartupAssumptions DEF LockHeld, Holding, schemaVars, loginVars, Phases
<1>a. LockHeld /\ phase \in [Replica -> Phases] /\ lock \in Replica \cup {NoReplica}
  BY DEF StartupInv, StartupTypeOK
<1> USE <1>a
<1>1. CASE UNCHANGED startupVars
  BY <1>1 DEF startupVars
<1>2. ASSUME NEW r \in Replica, Start(r) PROVE LockHeld'
  BY <1>2 DEF Start, Goes
<1>3. ASSUME NEW r \in Replica, Lock(r) PROVE LockHeld'
  BY <1>3 DEF Lock, Goes
<1>4. ASSUME NEW r \in Replica, ReadApplied(r) PROVE LockHeld'
  BY <1>4 DEF ReadApplied, Goes
<1>5. ASSUME NEW r \in Replica, Migrate(r) PROVE LockHeld'
  BY <1>5 DEF Migrate
<1>6. ASSUME NEW r \in Replica, Migrated(r) PROVE LockHeld'
  BY <1>6 DEF Migrated, Goes
<1>7. ASSUME NEW r \in Replica, Unlock(r) PROVE LockHeld'
  BY <1>7 DEF Unlock, Goes, Released
<1>8. ASSUME NEW r \in Replica, ReadAccount(r) PROVE LockHeld'
  BY <1>8 DEF ReadAccount, Goes
<1>9. ASSUME NEW r \in Replica, CreateAccount(r) PROVE LockHeld'
  BY <1>9 DEF CreateAccount, Goes
<1>10. ASSUME NEW r \in Replica, ChangePassword(r) PROVE LockHeld'
  BY <1>10 DEF ChangePassword, Goes
<1>11. ASSUME NEW r \in Replica, Exit(r) PROVE LockHeld'
  BY <1>11 DEF Exit, Goes, Released
<1>12. CASE UNCHANGED <<kind, phase, lock>>
  BY <1>12
<1> QED
  BY <1>1, <1>2, <1>3, <1>4, <1>5, <1>6, <1>7, <1>8, <1>9, <1>10, <1>11, <1>12
     DEF StartupNext, StartsUp, BeginLogin, LetTryAgain, EndLogin, Refuse, SignOut, Without,
         Expire, Purge

LEMMA SchemaKnownNext ==
  ASSUME StartupInv, [StartupNext]_startupVars
  PROVE  SchemaKnown'
<1> USE DEF SchemaKnown, Holding, Ready, schemaVars, loginVars, Phases
<1>a. /\ SchemaKnown /\ LockHeld
      /\ phase \in [Replica -> Phases] /\ build \in [Replica -> Nat]
      /\ applied \in [Replica -> SUBSET Nat] /\ schema \in Seq(Nat)
      /\ kind \in {"postgres", "sqlite"}
  BY DEF StartupInv, StartupTypeOK
<1> USE <1>a
<1>1. CASE UNCHANGED startupVars
  BY <1>1 DEF startupVars
<1>2. ASSUME NEW r \in Replica, Start(r) PROVE SchemaKnown'
  BY <1>2 DEF Start, Goes
<1>3. ASSUME NEW r \in Replica, Lock(r) PROVE SchemaKnown'
  BY <1>3 DEF Lock, Goes
<1>4. ASSUME NEW r \in Replica, ReadApplied(r) PROVE SchemaKnown'
  BY <1>4 DEF ReadApplied, Goes
<1>5. ASSUME NEW r \in Replica, Migrate(r) PROVE SchemaKnown'
  <2> DEFINE next == Lowest(Pending(r))
  <2>1. phase[r] = "migrating" /\ Pending(r) # {}
    BY <1>5 DEF Migrate
  <2>2. next = Len(schema) + 1
    BY <2>1, PendingRest
  <2>3. /\ schema' = Append(schema, next) /\ recorded' = recorded \cup {next}
        /\ applied' = [applied EXCEPT ![r] = applied[r] \cup {next}]
        /\ phase' = phase /\ build' = build /\ kind' = kind
    BY <1>5 DEF Migrate
  <2> HIDE DEF next
  <2>4. schema' = Append(schema, Len(schema) + 1) /\ Len(schema) \in Nat
    BY <2>2, <2>3
  <2>5. recorded' = 1 .. Len(schema')
    BY <2>2, <2>3, <2>4
  <2>6. \A n \in 1 .. Len(schema') : schema'[n] = n
    BY <2>4
  <2>7. \A q \in Replica : phase'[q] = "migrating" => q = r
    BY <2>1, <2>3 DEF LockHeld
  <2>8. \A q \in Replica : phase'[q] = "migrating" => applied'[q] = recorded'
    BY <2>1, <2>3, <2>7
  <2>9. \A q \in Replica : phase'[q] \in Ready => 1 .. build'[q] \subseteq recorded'
    BY <2>3
  <2> QED
    BY <2>5, <2>6, <2>8, <2>9
<1>6. ASSUME NEW r \in Replica, Migrated(r) PROVE SchemaKnown'
  <2>1. 1 .. build[r] \subseteq recorded
    BY <1>6 DEF Migrated, Pending
  <2> QED
    BY <1>6, <2>1 DEF Migrated, Goes
<1>7. ASSUME NEW r \in Replica, Unlock(r) PROVE SchemaKnown'
  BY <1>7 DEF Unlock, Goes, Released
<1>8. ASSUME NEW r \in Replica, ReadAccount(r) PROVE SchemaKnown'
  BY <1>8 DEF ReadAccount, Goes
<1>9. ASSUME NEW r \in Replica, CreateAccount(r) PROVE SchemaKnown'
  BY <1>9 DEF CreateAccount, Goes
<1>10. ASSUME NEW r \in Replica, ChangePassword(r) PROVE SchemaKnown'
  BY <1>10 DEF ChangePassword, Goes
<1>11. ASSUME NEW r \in Replica, Exit(r) PROVE SchemaKnown'
  BY <1>11 DEF Exit, Goes, Released
<1>12. CASE UNCHANGED <<schemaVars, phase, build>>
  BY <1>12
<1> QED
  BY <1>1, <1>2, <1>3, <1>4, <1>5, <1>6, <1>7, <1>8, <1>9, <1>10, <1>11, <1>12
     DEF StartupNext, StartsUp, BeginLogin, LetTryAgain, EndLogin, Refuse, SignOut, Without,
         Expire, Purge

LEMMA VersionsTellNext ==
  ASSUME StartupInv, [StartupNext]_startupVars
  PROVE  VersionsTell'
<1> USE StartupAssumptions DEF VersionsTell, User, schemaVars, loginVars, Phases
<1>a. /\ VersionsTell
      /\ phase \in [Replica -> Phases]
      /\ user \in User \cup {NoUser}
      /\ known \in [Replica -> User \cup {NoUser}]
  BY DEF StartupInv, StartupTypeOK
<1>b. /\ \A s \in sessions : s.version \in Nat
      /\ \A s \in signingIn : s.version \in Nat
  BY DEF StartupInv, StartupTypeOK
<1> USE <1>a
<1>1. CASE UNCHANGED startupVars
  BY <1>1 DEF startupVars
<1>2. ASSUME NEW r \in Replica, Start(r) PROVE VersionsTell'
  BY <1>2 DEF Start, Goes
<1>3. ASSUME NEW r \in Replica, Lock(r) PROVE VersionsTell'
  BY <1>3 DEF Lock, Goes
<1>4. ASSUME NEW r \in Replica, ReadApplied(r) PROVE VersionsTell'
  BY <1>4 DEF ReadApplied, Goes
<1>5. ASSUME NEW r \in Replica, Migrate(r) PROVE VersionsTell'
  BY <1>5 DEF Migrate
<1>6. ASSUME NEW r \in Replica, Migrated(r) PROVE VersionsTell'
  BY <1>6 DEF Migrated, Goes
<1>7. ASSUME NEW r \in Replica, Unlock(r) PROVE VersionsTell'
  BY <1>7 DEF Unlock, Goes, Released
<1>8. ASSUME NEW r \in Replica, ReadAccount(r) PROVE VersionsTell'
  BY <1>8 DEF ReadAccount, Goes
<1>9. ASSUME NEW r \in Replica, CreateAccount(r) PROVE VersionsTell'
  <2>1. sessions = {} /\ signingIn = {} /\ sessions' = {} /\ signingIn' = {}
    BY <1>9 DEF CreateAccount
  <2>2. user' \in User
    BY <1>9, <2>1 DEF CreateAccount, StartupInv, StartupTypeOK
  <2>3. user' # NoUser
    BY <2>2
  <2> QED
    BY <2>1, <2>3
<1>10. ASSUME NEW r \in Replica, ChangePassword(r) PROVE VersionsTell'
  <2>1. user \in User
    BY <1>10 DEF ChangePassword
  <2>2. /\ user' = [password |-> configured[r], version |-> user.version + 1]
        /\ sessions' = {} /\ signingIn' = signingIn
    BY <1>10 DEF ChangePassword, ReplacePassword
  <2>3. user' \in User /\ user'.version = user.version + 1
    BY <2>1, <2>2 DEF StartupInv, StartupTypeOK
  <2>4. \A s \in signingIn : s.version < user'.version
    BY <1>b, <2>1, <2>3
  <2>5. user' # NoUser
    BY <2>3
  <2> QED
    BY <1>b, <2>2, <2>3, <2>4, <2>5
<1>11. ASSUME NEW r \in Replica, Exit(r) PROVE VersionsTell'
  BY <1>11 DEF Exit, Goes, Released
<1>12. ASSUME NEW r \in Replica, BeginLogin(r) PROVE VersionsTell'
  <2>1. user \in User /\ user' = user /\ sessions' = sessions /\ phase' = phase
        /\ known' = known
    BY <1>12 DEF BeginLogin
  <2>2. \A s \in signingIn' : \/ s \in signingIn
                              \/ s.version = user.version /\ s.password = user.password
    BY <1>12 DEF BeginLogin
  <2>3. user.version <= user.version
    BY <2>1
  <2> QED
    BY <2>1, <2>2, <2>3
<1>13. ASSUME NEW r \in Replica, LetTryAgain(r) PROVE VersionsTell'
  BY <1>13 DEF LetTryAgain
<1>14. ASSUME NEW login \in signingIn, EndLogin(login) PROVE VersionsTell'
  <2>1. user' = user /\ phase' = phase /\ known' = known /\ signingIn' \subseteq signingIn
    BY <1>14 DEF EndLogin
  <2>2. \A s \in sessions' :
          \/ s \in sessions
          \/ s.version = login.version /\ s.password = login.password
    BY <1>14 DEF EndLogin
  <2> QED
    BY <2>1, <2>2
<1>15. ASSUME NEW s \in sessions, Refuse(s) \/ SignOut(s) PROVE VersionsTell'
  BY <1>15 DEF Refuse, SignOut, Without
<1>16. ASSUME NEW s \in sessions, Expire(s) PROVE VersionsTell'
  <2>1. user' = user /\ phase' = phase /\ known' = known /\ signingIn' = signingIn
    BY <1>16 DEF Expire
  <2>2. \A t \in sessions' : t \in sessions \/ t = [s EXCEPT !.expired = TRUE]
    BY <1>16 DEF Expire
  <2>3. s \in [id : Session, password : Password, version : Nat, expired : BOOLEAN]
    BY DEF StartupInv, StartupTypeOK
  <2>4. /\ [s EXCEPT !.expired = TRUE].version = s.version
        /\ [s EXCEPT !.expired = TRUE].password = s.password
    BY <2>3
  <2> QED
    BY <2>1, <2>2, <2>4
<1>17. CASE Purge
  BY <1>17 DEF Purge
<1> QED
  BY <1>1, <1>2, <1>3, <1>4, <1>5, <1>6, <1>7, <1>8, <1>9, <1>10, <1>11, <1>12, <1>13,
     <1>14, <1>15, <1>16, <1>17
     DEF StartupNext, StartsUp

-----------------------------------------------------------------------------
(* A chart (ChartPage). *)

LoadIds == {l.id : l \in loads}

ChartTyped ==
  /\ chart \in {"addresses", "markets", "portfolio", "kraken"}
  /\ loadId \in Nat /\ newest \in Nat /\ newest <= loadId /\ wanted \in Nat
  /\ loads \subseteq [id : Nat, stage : {"settings", "series"}, of : Nat]
  /\ \A l \in loads : l.id <= loadId
  /\ \A k, l \in loads : k.id = l.id => k = l
  /\ zoomId \in Nat /\ newestZoom \in Nat /\ newestZoom <= zoomId /\ zooms \subseteq Nat
  /\ chart = "kraken" => withAssets

\* Somebody will take the spinner away; the detail is that of the last zoom answered.
SpinnerInv ==
  /\ busy => loadId \in LoadIds \/ zoomId \in zooms
  /\ detail \in {0, newestZoom}

\* The last load is under way for what is wanted ...
OnItsWay ==
  withAssets /\ \E l \in loads : l.id = loadId /\ (l.stage = "settings" \/ l.of = wanted)

\* ... or it has been answered, and was taken.
Arrived ==
  /\ loadId \notin LoadIds
  /\ IF chart = "kraken"
     THEN newest = loadId /\ (overview.id = newest => overview.of = wanted)
     ELSE overview.of = IF withAssets THEN wanted ELSE 0

ChartInv == ChartTyped /\ SpinnerInv /\ (wanted \in choosing \/ failed \/ OnItsWay \/ Arrived)

LEMMA ChartInitInv == ChartInit => ChartInv
<1> SUFFICES ASSUME ChartInit PROVE ChartInv
  OBVIOUS
<1>1. ChartTyped
  BY DEF ChartInit, ChartTyped
<1>2. SpinnerInv /\ wanted \in choosing
  BY DEF ChartInit, SpinnerInv
<1> QED
  BY <1>1, <1>2 DEF ChartInv

LEMMA BeginLoadInv ==
  ASSUME ChartTyped, detail \in {0, newestZoom}, BeginLoad,
         UNCHANGED <<chart, wanted, withAssets, zooms, zoomId, newestZoom>>
  PROVE  ChartTyped' /\ SpinnerInv' /\ (OnItsWay \/ Arrived)'
<1> DEFINE new == [id |-> loadId + 1, stage |-> FirstStage, of |-> wanted]
<1>1. /\ loadId' = loadId + 1 /\ failed' = FALSE
      /\ loadId \in Nat /\ wanted \in Nat /\ FirstStage \in {"settings", "series"}
      /\ \A l \in loads : l.id \in Nat /\ l.id <= loadId
  BY DEF BeginLoad, ChartTyped, FirstStage
<1>2. \A l \in loads : l.id # loadId'
  BY <1>1
<1>3. CASE withAssets
  <2>1. loads' = loads \cup {new} /\ busy' = TRUE /\ UNCHANGED <<overview, newest, detail>>
    BY <1>1, <1>3 DEF BeginLoad
  <2>2. new \in [id : Nat, stage : {"settings", "series"}, of : Nat]
        /\ new.id = loadId' /\ new.of = wanted
    BY <1>1
  <2> HIDE DEF new
  <2>3. ChartTyped'
    BY <1>1, <1>2, <2>1, <2>2 DEF ChartTyped
  <2>4. SpinnerInv'
    BY <2>1, <2>2 DEF SpinnerInv, LoadIds
  <2>5. OnItsWay'
    BY <1>3, <2>1, <2>2 DEF OnItsWay
  <2> QED
    BY <2>3, <2>4, <2>5
<1>4. CASE ~ withAssets
  <2>1. /\ overview' = NothingShown /\ detail' = 0 /\ busy' = FALSE
        /\ UNCHANGED <<loads, newest>>
    BY <1>4 DEF BeginLoad
  <2>2. ChartTyped'
    BY <1>1, <2>1 DEF ChartTyped
  <2>3. SpinnerInv'
    BY <2>1 DEF SpinnerInv
  <2>4. Arrived'
    BY <1>2, <1>4, <2>1 DEF Arrived, LoadIds, NothingShown, ChartTyped
  <2> QED
    BY <2>2, <2>3, <2>4
<1> QED
  BY <1>3, <1>4 DEF ChartTyped

LEMMA ChartStep == ChartInv /\ [ChartNext]_chartVars => ChartInv'
<1> SUFFICES ASSUME ChartInv, [ChartNext]_chartVars PROVE ChartInv'
  OBVIOUS
<1> USE DEF ChartInv
<1>1. CASE Select
  <2>1. /\ wanted' = wanted + 1 /\ wanted' \in choosing'
        /\ chart # "markets" => withAssets' = withAssets
        /\ UNCHANGED <<chart, loads, loadId, overview, newest, zooms, zoomId, newestZoom,
                       detail, busy, failed>>
    BY <1>1 DEF Select, Asked, ChartTyped
  <2> QED
    BY <2>1 DEF ChartTyped, SpinnerInv, LoadIds
<1>2. ASSUME NEW n \in choosing, ChoiceSaved(n) PROVE ChartInv'
  BY <1>2, BeginLoadInv DEF ChoiceSaved, SpinnerInv
<1>3. ASSUME NEW n \in choosing, ChoiceLost(n) PROVE ChartInv'
  <2>1. /\ choosing' = choosing \ {n} /\ (failed' <=> failed \/ n = wanted)
        /\ UNCHANGED <<chart, wanted, withAssets, loads, loadId, overview, newest, zooms,
                       zoomId, newestZoom, detail, busy>>
    BY <1>3 DEF ChoiceLost, ChartTyped
  <2> QED
    BY <2>1 DEF ChartTyped, SpinnerInv, LoadIds, OnItsWay, Arrived
<1>4. CASE Reload
  BY <1>4, BeginLoadInv DEF Reload, SpinnerInv
<1>5. ASSUME NEW l \in loads, SettingsAnswered(l) PROVE ChartInv'
  <2> DEFINE k == [l EXCEPT !.stage = "series", !.of = wanted]
  <2>1. /\ loads' = (loads \ {l}) \cup {k}
        /\ UNCHANGED <<chart, wanted, withAssets, choosing, loadId, overview, newest, zooms,
                       zoomId, newestZoom, detail, busy, failed>>
    BY <1>5 DEF SettingsAnswered
  <2>2. l \in [id : Nat, stage : {"settings", "series"}, of : Nat] /\ wanted \in Nat
    BY DEF ChartTyped
  <2>3. /\ k \in [id : Nat, stage : {"settings", "series"}, of : Nat]
        /\ k.id = l.id /\ k.of = wanted
    BY <2>2
  <2> HIDE DEF k
  <2>4. LoadIds' = LoadIds
    BY <2>1, <2>3 DEF LoadIds
  <2>5. ChartTyped'
    BY <2>1, <2>3 DEF ChartTyped
  <2>6. SpinnerInv'
    BY <2>1, <2>4 DEF SpinnerInv
  <2>7. OnItsWay => OnItsWay'
    BY <2>1, <2>3 DEF OnItsWay
  <2>8. Arrived => Arrived'
    BY <2>1, <2>4 DEF Arrived
  <2> QED
    BY <2>1, <2>5, <2>6, <2>7, <2>8
<1>6. ASSUME NEW l \in loads, SeriesAnswered(l) PROVE ChartInv'
  <2>1. /\ loads' = loads \ {l} /\ l.stage = "series"
        /\ UNCHANGED <<chart, wanted, withAssets, choosing, loadId, zooms, zoomId, newestZoom, failed>>
    BY <1>6 DEF SeriesAnswered
  <2>2. l.id \in Nat /\ l.id <= loadId /\ \A k \in loads : k.id = l.id => k = l
    BY DEF ChartTyped
  <2>3. \A i : i # l.id => (i \in LoadIds' <=> i \in LoadIds)
    BY <2>1 DEF LoadIds
  <2>4. l.id \notin LoadIds' /\ l.id \in LoadIds
    BY <2>1, <2>2 DEF LoadIds
  <2>5. CASE CurrentLoad(l.id)
    <3>1. /\ overview' = [id |-> l.id, of |-> l.of] /\ detail' = 0 /\ busy' = FALSE
          /\ newest' = IF l.id > newest THEN l.id ELSE newest
      BY <1>6, <2>5 DEF SeriesAnswered
    <3>2. overview'.id = l.id /\ overview'.of = l.of
      BY <3>1
    <3>3. newest' \in Nat /\ newest' <= loadId /\ (l.id = loadId \/ newest = loadId => newest' = loadId)
      BY <2>2, <3>1 DEF ChartTyped
    <3>4. ChartTyped'
      BY <2>1, <3>1, <3>3 DEF ChartTyped
    <3>5. SpinnerInv'
      BY <3>1 DEF SpinnerInv
    <3>6. OnItsWay => OnItsWay' \/ Arrived'
      <4>1. CASE l.id = loadId
        BY <2>1, <2>2, <2>4, <3>2, <3>3, <4>1 DEF OnItsWay, Arrived
      <4>2. CASE l.id # loadId
        BY <2>1, <4>2 DEF OnItsWay
      <4> QED
        BY <4>1, <4>2
    <3>7. Arrived => Arrived'
      BY <2>1, <2>3, <2>4, <2>5, <3>2, <3>3 DEF Arrived, CurrentLoad
    <3> QED
      BY <2>1, <3>4, <3>5, <3>6, <3>7
  <2>6. CASE ~ CurrentLoad(l.id)
    <3>1. UNCHANGED <<overview, newest, detail, busy>> /\ l.id # loadId
      BY <1>6, <2>6 DEF SeriesAnswered, CurrentLoad
    <3>2. ChartTyped'
      BY <2>1, <3>1 DEF ChartTyped
    <3> QED
      BY <2>1, <2>3, <3>1, <3>2 DEF SpinnerInv, OnItsWay, Arrived
  <2> QED
    BY <2>5, <2>6
<1>7. ASSUME NEW l \in loads, LoadFails(l) PROVE ChartInv'
  <2>1. /\ loads' = loads \ {l}
        /\ UNCHANGED <<chart, wanted, withAssets, choosing, loadId, newest, zooms, zoomId, newestZoom>>
    BY <1>7 DEF LoadFails
  <2>2. \A i : i # l.id => (i \in LoadIds' <=> i \in LoadIds)
    BY <2>1 DEF LoadIds
  <2>3. CASE CurrentLoad(l.id)
    <3>1. failed' = TRUE /\ busy' = FALSE /\ (detail' = 0 \/ detail' = detail)
      BY <1>7, <2>3 DEF LoadFails
    <3> QED
      BY <2>1, <3>1 DEF ChartTyped, SpinnerInv
  <2>4. CASE ~ CurrentLoad(l.id)
    <3>1. UNCHANGED <<failed, busy, overview, detail>> /\ l.id # loadId
      BY <1>7, <2>4 DEF LoadFails, CurrentLoad
    <3>2. ChartTyped'
      BY <2>1, <3>1 DEF ChartTyped
    <3> QED
      BY <2>1, <2>2, <3>1, <3>2 DEF SpinnerInv, OnItsWay, Arrived
  <2> QED
    BY <2>3, <2>4
<1>8. CASE Zoom \/ \E id \in zooms : ZoomAnswered(id) \/ ZoomFails(id)
  <2>1. /\ UNCHANGED <<chart, wanted, withAssets, choosing, loads, loadId, overview, newest, failed>>
        /\ LoadIds' = LoadIds
    BY <1>8 DEF Zoom, ZoomAnswered, ZoomFails, LoadIds
  <2>2. /\ zoomId' \in Nat /\ newestZoom' \in Nat /\ newestZoom' <= zoomId' /\ zooms' \subseteq Nat
    <3>1. zoomId \in Nat /\ newestZoom \in Nat /\ newestZoom <= zoomId /\ zooms \subseteq Nat
      BY DEF ChartTyped
    <3>2. CASE Zoom
      BY <3>1, <3>2 DEF Zoom
    <3>3. ASSUME NEW id \in zooms, ZoomAnswered(id)
          PROVE  /\ zoomId' \in Nat /\ newestZoom' \in Nat /\ newestZoom' <= zoomId'
                 /\ zooms' \subseteq Nat
      BY <3>1, <3>3 DEF ZoomAnswered, LastZoom
    <3>4. ASSUME NEW id \in zooms, ZoomFails(id)
          PROVE  /\ zoomId' \in Nat /\ newestZoom' \in Nat /\ newestZoom' <= zoomId'
                 /\ zooms' \subseteq Nat
      BY <3>1, <3>4 DEF ZoomFails
    <3> QED
      BY <1>8, <3>1, <3>2, <3>3, <3>4
  <2>3. SpinnerInv'
    <3>1. CASE Zoom
      BY <2>1, <3>1 DEF Zoom, SpinnerInv
    <3>2. ASSUME NEW id \in zooms, ZoomAnswered(id) PROVE SpinnerInv'
      <4>1. id \in Nat /\ newestZoom \in Nat /\ newestZoom <= zoomId
        BY DEF ChartTyped
      <4>2. CASE LastZoom(id)
        <5>1. newestZoom' = id
          BY <3>2, <4>1, <4>2 DEF ZoomAnswered, LastZoom
        <5> QED
          BY <3>2, <4>2, <5>1 DEF ZoomAnswered, SpinnerInv
      <4>3. CASE ~ LastZoom(id)
        BY <2>1, <3>2, <4>3 DEF ZoomAnswered, SpinnerInv, LastZoom
      <4> QED
        BY <4>2, <4>3
    <3>3. ASSUME NEW id \in zooms, ZoomFails(id) PROVE SpinnerInv'
      BY <2>1, <3>3 DEF ZoomFails, SpinnerInv, LastZoom
    <3> QED
      BY <1>8, <3>1, <3>2, <3>3
  <2> QED
    BY <2>1, <2>2, <2>3 DEF ChartTyped, OnItsWay, Arrived
<1>9. CASE UNCHANGED chartVars
  BY <1>9 DEF chartVars, ChartTyped, SpinnerInv, LoadIds, OnItsWay, Arrived
<1> QED
  BY <1>1, <1>2, <1>3, <1>4, <1>5, <1>6, <1>7, <1>8, <1>9 DEF ChartNext

LEMMA ChartMeans == ChartInv => LatestShown
BY DEF ChartInv, ChartTyped, SpinnerInv, LoadIds, OnItsWay, Arrived, LatestShown, AtRest

-----------------------------------------------------------------------------
(* The sidecar (Mcp). *)

Tools == {"read", "download", "search", "write", "destructive", "unlisted"}
Results ==
  {"rejected", "rate_limited", "confirmation_required", "planned", "succeeded", "failed"}
Entries == {Entry(n, r) : n \in 1 .. MaxCalls, r \in Results}
CallType ==
  [call : 1 .. MaxCalls, tool : Tools,
   at : {"requesting", "searching", "auditing", "storing", "hung"},
   try : Nat \ {0}, entries : Seq(Entries), behind : SUBSET Entries]

McpTyped ==
  /\ called \in 0 .. MaxCalls /\ calls \subseteq CallType
  /\ audits \in Seq(Entries) /\ log \in Seq(Entries) /\ told \in Seq(Entries)
  /\ made \in [1 .. MaxCalls -> Nat]

\* Of each call that is under way, one; of each that waits for its entry, one entry.
CallsApart ==
  /\ \A c \in calls : c.call <= called
  /\ \A c, d \in calls : c.call = d.call => c = d
  /\ \A i, j \in DOMAIN audits : audits[i].call = audits[j].call => i = j
  /\ \A c \in calls : c.at \in {"auditing", "storing"} =>
       \E i \in DOMAIN audits : audits[i].call = c.call

\* Who stores has the first entry, and has read what is there.
TurnKept ==
  \A c \in calls : c.at = "storing" =>
    audits # <<>> /\ audits[1].call = c.call /\ (forgot \/ c.entries = log)

\* An entry tells the truth of a call that asks for nothing any more.
Closed(n) == n <= called /\ \A c \in calls : c.call = n => c.at # "requesting"
Truth(e) ==
  /\ e.result = "succeeded" => made[e.call] = 1
  /\ e.result \notin {"succeeded", "failed"} => made[e.call] = 0
Fact(e) == Closed(e.call) /\ Truth(e)
Facts(s) == \A i \in DOMAIN s : Fact(s[i])

EntriesTrue ==
  /\ Facts(audits) /\ Facts(log) /\ \A c \in calls : Facts(c.entries)
  /\ \A n \in 1 .. MaxCalls : made[n] <= 1 /\ (n > called => made[n] = 0)
  /\ \A c \in calls : c.at = "requesting" => made[c.call] = 0

LogKept == forgot \/ log = Latest(told)

McpInv == McpTyped /\ CallsApart /\ TurnKept /\ EntriesTrue /\ LogKept

LEMMA LatestOf ==
  ASSUME NEW S, NEW s \in Seq(S)
  PROVE  /\ Latest(s) \in Seq(S)
         /\ \A i \in DOMAIN Latest(s) : \E k \in DOMAIN s : Latest(s)[i] = s[k]
         /\ Len(s) <= MaxEntries => Latest(s) = s
         /\ Len(s) > MaxEntries =>
              /\ Len(Latest(s)) = MaxEntries
              /\ \A i \in 1 .. MaxEntries : Latest(s)[i] = s[Len(s) - MaxEntries + i]
<1> DEFINE n == Len(s)
           a == IF n > MaxEntries THEN n - MaxEntries + 1 ELSE 1
<1> USE McpAssumptions
<1>1. n \in Nat /\ a \in Int /\ 1 <= a /\ MaxEntries \in Nat \ {0}
      /\ \A i \in a .. n : s[i] \in S
  OBVIOUS
<1>2. Latest(s) = SubSeq(s, a, n)
  BY DEF Latest
<1>3. /\ SubSeq(s, a, n) \in Seq(S)
      /\ Len(SubSeq(s, a, n)) = IF a <= n THEN n - a + 1 ELSE 0
      /\ \A i \in 1 .. n - a + 1 : SubSeq(s, a, n)[i] = s[a + i - 1]
  <2> HIDE DEF a, n
  <2> QED BY <1>1, SubSeqProperties
<1>4. n <= MaxEntries => SubSeq(s, a, n) = s
  <2>1. SubSeq(s, 1, n) = s
    BY SubSeqFull
  <2>2. n <= MaxEntries => a = 1
    BY <1>1
  <2> QED BY <2>1, <2>2
<1>5. \A i \in DOMAIN SubSeq(s, a, n) :
        i \in 1 .. n - a + 1 /\ a + i - 1 \in DOMAIN s
  <2>1. DOMAIN SubSeq(s, a, n) = 1 .. Len(SubSeq(s, a, n)) /\ DOMAIN s = 1 .. n
    <3> HIDE DEF a
    <3> QED BY <1>3, LenProperties
  <2> HIDE DEF a
  <2> QED BY <1>1, <1>3, <2>1
<1>6. \A i \in DOMAIN SubSeq(s, a, n) : \E k \in DOMAIN s : SubSeq(s, a, n)[i] = s[k]
  <2> HIDE DEF a, n
  <2> QED BY <1>3, <1>5
<1>7. n > MaxEntries =>
        /\ Len(SubSeq(s, a, n)) = MaxEntries
        /\ \A i \in 1 .. MaxEntries : SubSeq(s, a, n)[i] = s[n - MaxEntries + i]
  <2>1. n > MaxEntries => a = n - MaxEntries + 1
    OBVIOUS
  <2> HIDE DEF a, n
  <2> QED BY <1>1, <1>3, <2>1
<1> QED
  BY <1>2, <1>3, <1>4, <1>6, <1>7

LEMMA LatestAgain ==
  ASSUME NEW S, NEW s \in Seq(S), NEW e \in S
  PROVE  Latest(Append(Latest(s), e)) = Latest(Append(s, e))
<1> USE McpAssumptions
<1> DEFINE n == Len(s)
           t == Latest(s)
           u == Append(t, e)
           v == Append(s, e)
<1>1. CASE n <= MaxEntries
  BY <1>1, LatestOf
<1>2. CASE n > MaxEntries
  <2>0. n \in Nat /\ MaxEntries \in Nat
    OBVIOUS
  <2>1. /\ t \in Seq(S) /\ Len(t) = MaxEntries
        /\ \A i \in 1 .. MaxEntries : t[i] = s[n - MaxEntries + i]
    <3> HIDE DEF t
    <3> QED BY <1>2, LatestOf DEF t
  <2> HIDE DEF t
  <2>2. /\ u \in Seq(S) /\ Len(u) = MaxEntries + 1
        /\ \A i \in 1 .. MaxEntries + 1 : u[i] = IF i <= MaxEntries THEN t[i] ELSE e
    BY <2>1, AppendProperties
  <2>3. /\ v \in Seq(S) /\ Len(v) = n + 1
        /\ \A i \in 1 .. n + 1 : v[i] = IF i <= n THEN s[i] ELSE e
    BY AppendProperties
  <2> HIDE DEF u, v
  <2>4. /\ Latest(u) \in Seq(S) /\ Len(Latest(u)) = MaxEntries
        /\ \A i \in 1 .. MaxEntries : Latest(u)[i] = u[i + 1]
    <3>1. /\ Latest(u) \in Seq(S) /\ Len(Latest(u)) = MaxEntries
          /\ \A i \in 1 .. MaxEntries : Latest(u)[i] = u[Len(u) - MaxEntries + i]
      BY <2>0, <2>2, LatestOf
    <3>2. \A i \in 1 .. MaxEntries : Len(u) - MaxEntries + i = i + 1
      BY <2>0, <2>2
    <3> QED BY <3>1, <3>2
  <2>5. /\ Latest(v) \in Seq(S) /\ Len(Latest(v)) = MaxEntries
        /\ \A i \in 1 .. MaxEntries : Latest(v)[i] = v[n + 1 - MaxEntries + i]
    BY <1>2, <2>0, <2>3, LatestOf
  <2>6. \A i \in 1 .. MaxEntries : u[i + 1] = v[n + 1 - MaxEntries + i]
    <3> SUFFICES ASSUME NEW i \in 1 .. MaxEntries PROVE u[i + 1] = v[n + 1 - MaxEntries + i]
      OBVIOUS
    <3>1. CASE i = MaxEntries
      BY <1>2, <2>0, <2>2, <2>3, <3>1
    <3>2. CASE i < MaxEntries
      <4>1. u[i + 1] = t[i + 1] /\ t[i + 1] = s[n - MaxEntries + (i + 1)]
        BY <2>0, <2>1, <2>2, <3>2
      <4>2. v[n + 1 - MaxEntries + i] = s[n + 1 - MaxEntries + i]
        BY <1>2, <2>0, <2>3, <3>2
      <4>3. n - MaxEntries + (i + 1) = n + 1 - MaxEntries + i
        BY <2>0
      <4> QED BY <4>1, <4>2, <4>3
    <3> QED BY <2>0, <3>1, <3>2
  <2>7. \A i \in 1 .. Len(Latest(u)) : Latest(u)[i] = Latest(v)[i]
    BY <2>4, <2>5, <2>6
  <2> QED
    BY <2>4, <2>5, <2>7, SeqEqual DEF t, u, v
<1> QED
  BY <1>1, <1>2

LEMMA McpInitInv == McpInit => McpInv
<1> SUFFICES ASSUME McpInit PROVE McpInv
  OBVIOUS
<1> USE McpAssumptions
<1>1. /\ calls = {} /\ audits = <<>> /\ log = <<>> /\ told = <<>> /\ called = 0
      /\ made = [n \in 1 .. MaxCalls |-> 0]
  BY DEF McpInit
<1>2. <<>> \in Seq(Entries) /\ DOMAIN <<>> = {} /\ Len(<<>>) = 0
  OBVIOUS
<1>3. McpTyped
  BY <1>1, <1>2 DEF McpTyped
<1>4. CallsApart /\ TurnKept
  BY <1>1, <1>2 DEF CallsApart, TurnKept
<1>5. EntriesTrue
  BY <1>1, <1>2 DEF EntriesTrue, Facts
<1>6. Latest(<<>>) = <<>>
  <2>1. Len(<<>>) <= MaxEntries
    BY <1>2
  <2> QED BY <1>2, <2>1, LatestOf
<1> QED
  BY <1>1, <1>3, <1>4, <1>5, <1>6 DEF McpInv, LogKept

\* What is true of an entry stays true: its call asks for nothing any more.
LEMMA FactsStay ==
  ASSUME McpTyped, called' \in Int, called <= called',
         \A c \in calls' : c.at = "requesting" =>
           (\E d \in calls : d.call = c.call /\ d.at = "requesting") \/ c.call > called,
         \A n \in 1 .. MaxCalls :
           (\A c \in calls : c.call = n => c.at # "requesting") => made'[n] = made[n]
  PROVE  \A s \in Seq(Entries) : Facts(s) => Facts(s)'
<1> SUFFICES ASSUME NEW s \in Seq(Entries), Facts(s), NEW i \in DOMAIN s
             PROVE  Fact(s[i])'
  BY DEF Facts
<1> DEFINE e == s[i]
<1>1. e \in Entries
  OBVIOUS
<1>2. e.call \in 1 .. MaxCalls
  BY <1>1 DEF Entries, Entry
<1>3. Closed(e.call) /\ Truth(e)
  BY DEF Facts, Fact
<1> HIDE DEF e
<1>4. made'[e.call] = made[e.call]
  BY <1>2, <1>3 DEF Closed
<1>5. e.call <= called' /\ ~ (e.call > called)
  BY <1>2, <1>3 DEF Closed, McpTyped
<1>6. \A c \in calls' : c.call = e.call => c.at # "requesting"
  BY <1>3, <1>5 DEF Closed
<1> QED
  BY <1>3, <1>4, <1>5, <1>6 DEF Fact, Closed, Truth, e

LEMMA AppendFacts ==
  ASSUME NEW s \in Seq(Entries), NEW e \in Entries, Facts(s), Fact(e)
  PROVE  Facts(Append(s, e)) /\ Append(s, e) \in Seq(Entries)
BY DEF Facts

LEMMA LatestFacts ==
  ASSUME NEW s \in Seq(Entries), Facts(s)
  PROVE  Facts(Latest(s)) /\ Latest(s) \in Seq(Entries)
BY LatestOf DEF Facts

\* The entry a call waits for is one of those that wait.
LEMMA PositionOf ==
  ASSUME McpInv, NEW c \in calls, c.at \in {"auditing", "storing"}
  PROVE  Position(c) \in DOMAIN audits /\ audits[Position(c)].call = c.call
BY DEF McpInv, CallsApart, Position

\* A request is answered, refused or given up.
LEMMA RequestEnds ==
  ASSUME McpInv, NEW c \in calls, c.at = "requesting",
         NEW result \in {"succeeded", "failed"}, Requested(c, result),
         Makes(c) \/ (result = "failed" /\ made' = made),
         UNCHANGED <<log, told, forgot, called>>
  PROVE  McpInv'
<1> USE McpAssumptions
<1> DEFINE e == Entry(c.call, result)
           d == [c EXCEPT !.at = "auditing"]
<1>1. /\ McpTyped /\ CallsApart /\ TurnKept /\ EntriesTrue /\ LogKept
  BY DEF McpInv
<1>2. c \in CallType /\ c.call \in 1 .. MaxCalls /\ c.call <= called /\ made[c.call] = 0
      /\ c.entries \in Seq(Entries)
  BY <1>1 DEF McpTyped, CallsApart, EntriesTrue, CallType
<1>3. /\ made' \in [1 .. MaxCalls -> Nat]
      /\ \A n \in 1 .. MaxCalls : n # c.call => made'[n] = made[n]
      /\ made'[c.call] <= 1 /\ (result = "succeeded" /\ Mutates(c.tool) => made'[c.call] = 1)
  <2>1. made \in [1 .. MaxCalls -> Nat]
    BY <1>1 DEF McpTyped
  <2>2. CASE Makes(c)
    <3>1. made' = [made EXCEPT ![c.call] = IF Mutates(c.tool) THEN made[c.call] + 1 ELSE made[c.call]]
      BY <2>2 DEF Makes
    <3>2. CASE Mutates(c.tool)
      <4>1. made' = [made EXCEPT ![c.call] = 1]
        BY <1>2, <3>1, <3>2
      <4> QED BY <1>2, <2>1, <4>1
    <3>3. CASE ~ Mutates(c.tool)
      <4>1. made' = [made EXCEPT ![c.call] = 0]
        BY <1>2, <3>1, <3>3
      <4> QED BY <1>2, <2>1, <3>3, <4>1
    <3> QED BY <3>2, <3>3
  <2>3. CASE made' = made /\ result = "failed"
    BY <1>2, <2>1, <2>3
  <2> QED
    BY <2>2, <2>3
<1>4. e \in Entries /\ e.call = c.call /\ e.result = result
  BY <1>2 DEF Entries, Entry, Results
<1>5. d \in CallType /\ d.call = c.call /\ d.at = "auditing" /\ d.entries = c.entries
  BY <1>2 DEF CallType
<1> HIDE DEF e, d
<1>6. \/ /\ Mutates(c.tool) /\ audits' = Append(audits, e)
         /\ calls' = (calls \ {c}) \cup {d}
      \/ calls' = calls \ {c} /\ audits' = audits
  BY DEF Requested, e, d
<1>7. \A k \in calls' : k = d \/ k \in calls \ {c}
  BY <1>6
<1>8. \A i \in DOMAIN audits : audits[i].call # c.call
  BY <1>1, <1>2 DEF EntriesTrue, Facts, Fact, Closed
<1>9. called' = called /\ called \in 0 .. MaxCalls
  BY <1>1 DEF McpTyped
<1>10. \A k \in calls' : k.call = c.call => k.at # "requesting"
  BY <1>1, <1>5, <1>7 DEF CallsApart
<1>11. \A s \in Seq(Entries) : Facts(s) => Facts(s)'
  BY <1>1, <1>3, <1>5, <1>7, <1>9, FactsStay
<1>12. Fact(e)'  \/ ~ Mutates(c.tool)
  BY <1>2, <1>3, <1>4, <1>9, <1>10 DEF Fact, Closed, Truth
<1>13. McpTyped'
  <2>1. audits \in Seq(Entries)
    BY <1>1 DEF McpTyped
  <2>2. audits' \in Seq(Entries)
    BY <1>4, <1>6, <2>1
  <2> QED
    BY <1>1, <1>3, <1>5, <1>7, <2>2 DEF McpTyped
<1>14. /\ audits \in Seq(Entries)
       /\ DOMAIN audits \subseteq DOMAIN audits'
       /\ \A i \in DOMAIN audits' :
            \/ i \in DOMAIN audits /\ audits'[i] = audits[i]
            \/ i = Len(audits) + 1 /\ audits'[i] = e /\ Mutates(c.tool)
       /\ \A i \in DOMAIN audits : audits'[i] = audits[i] /\ i # Len(audits) + 1
  <2>1. audits \in Seq(Entries)
    BY <1>1 DEF McpTyped
  <2> QED BY <1>4, <1>6, <2>1
<1>15. CallsApart'
  <2>1. \A k \in calls' : k.call <= called'
    BY <1>1, <1>2, <1>5, <1>7, <1>9 DEF CallsApart
  <2>2. \A k, l \in calls' : k.call = l.call => k = l
    BY <1>1, <1>5, <1>7 DEF CallsApart
  <2>3. \A i, j \in DOMAIN audits' : audits'[i].call = audits'[j].call => i = j
    BY <1>1, <1>4, <1>8, <1>14 DEF CallsApart
  <2>4. ASSUME NEW k \in calls', k.at \in {"auditing", "storing"}
        PROVE  \E i \in DOMAIN audits' : audits'[i].call = k.call
    <3>1. CASE k \in calls
      BY <1>1, <1>14, <2>4, <3>1 DEF CallsApart
    <3>2. CASE k \notin calls
      <4>1. k = d /\ audits' = Append(audits, e)
        BY <1>6, <3>2
      <4>2. Len(audits) + 1 \in DOMAIN audits' /\ audits'[Len(audits) + 1] = e
        BY <1>4, <1>14, <4>1
      <4> QED
        BY <1>4, <1>5, <4>1, <4>2
    <3> QED
      BY <3>1, <3>2
  <2> QED
    BY <2>1, <2>2, <2>3, <2>4 DEF CallsApart
<1>16. TurnKept'
  <2> SUFFICES ASSUME NEW k \in calls', k.at = "storing"
               PROVE  audits' # <<>> /\ audits'[1].call = k.call /\ (forgot' \/ k.entries = log')
    BY DEF TurnKept
  <2>1. k \in calls
    BY <1>5, <1>7
  <2>2. audits # <<>> /\ audits[1].call = k.call /\ (forgot \/ k.entries = log)
    BY <1>1, <2>1 DEF TurnKept
  <2>3. 1 \in DOMAIN audits
    BY <1>14, <2>2
  <2> QED
    BY <1>14, <2>2, <2>3
<1>17. EntriesTrue'
  <2>1. Facts(audits)'
    <3>1. \A i \in DOMAIN audits : Fact(audits[i])'
      BY <1>1, <1>11, <1>14 DEF EntriesTrue, Facts
    <3> QED
      BY <1>12, <1>14, <3>1 DEF Facts
  <2>2. Facts(log)' /\ \A k \in calls' : Facts(k.entries)'
    <3>1. \A k \in calls : k.entries \in Seq(Entries) /\ Facts(k.entries)
      BY <1>1 DEF McpTyped, EntriesTrue, CallType
    <3>2. \A k \in calls : Facts(k.entries)'
      BY <1>11, <3>1
    <3>3. log \in Seq(Entries) /\ Facts(log) /\ log' = log
      BY <1>1 DEF McpTyped, EntriesTrue
    <3> QED
      BY <1>5, <1>7, <1>11, <3>2, <3>3
  <2>3. \A n \in 1 .. MaxCalls : made'[n] <= 1 /\ (n > called' => made'[n] = 0)
    <3>1. \A n \in 1 .. MaxCalls : made[n] <= 1 /\ (n > called => made[n] = 0)
      BY <1>1 DEF EntriesTrue
    <3> SUFFICES ASSUME NEW n \in 1 .. MaxCalls
                 PROVE  made'[n] <= 1 /\ (n > called' => made'[n] = 0)
      OBVIOUS
    <3>2. CASE n = c.call
      BY <1>2, <1>3, <1>9, <3>2
    <3>3. CASE n # c.call
      BY <1>3, <1>9, <3>1, <3>3
    <3> QED
      BY <3>2, <3>3
  <2>4. \A k \in calls' : k.at = "requesting" => made'[k.call] = 0
    <3> SUFFICES ASSUME NEW k \in calls', k.at = "requesting" PROVE made'[k.call] = 0
      OBVIOUS
    <3>1. k \in calls /\ k.call # c.call /\ k.call \in 1 .. MaxCalls
      BY <1>1, <1>5, <1>7, <1>10 DEF McpTyped, CallType
    <3> QED
      BY <1>1, <1>3, <3>1 DEF EntriesTrue
  <2> QED
    BY <2>1, <2>2, <2>3, <2>4 DEF EntriesTrue
<1> QED
  BY <1>1, <1>13, <1>15, <1>16, <1>17 DEF McpInv, LogKept

\* It is made once more, or nothing is heard of it again.
LEMMA RequestStays ==
  ASSUME McpInv, NEW c \in calls, c.at = "requesting", NEW d \in CallType,
         calls' = (calls \ {c}) \cup {d},
         d.call = c.call, d.entries = c.entries,
         Makes(c) \/ made' = made,
         d.at = "hung" \/ (d.at = "requesting" /\ ~ Mutates(c.tool)),
         UNCHANGED <<audits, log, told, forgot, called>>
  PROVE  McpInv'
<1>1. /\ McpTyped /\ CallsApart /\ TurnKept /\ EntriesTrue /\ LogKept
  BY DEF McpInv
<1>2. c \in CallType /\ c.call \in 1 .. MaxCalls /\ c.call <= called /\ made[c.call] = 0
      /\ made \in [1 .. MaxCalls -> Nat] /\ called \in 0 .. MaxCalls
  BY <1>1 DEF McpTyped, CallsApart, EntriesTrue, CallType
<1>3. /\ made' \in [1 .. MaxCalls -> Nat]
      /\ \A n \in 1 .. MaxCalls : n # c.call => made'[n] = made[n]
      /\ made'[c.call] <= 1 /\ (d.at = "requesting" => made'[c.call] = 0)
  <2>1. CASE Mutates(c.tool) /\ Makes(c)
    <3>1. made' = [made EXCEPT ![c.call] = 1]
      BY <1>2, <2>1 DEF Makes
    <3>2. d.at # "requesting"
      BY <2>1
    <3> QED BY <1>2, <3>1, <3>2
  <2>2. CASE made' = made \/ ~ Mutates(c.tool)
    <3>1. made' = made
      <4>1. CASE ~ Mutates(c.tool) /\ Makes(c)
        <5>1. made' = [made EXCEPT ![c.call] = made[c.call]]
          BY <4>1 DEF Makes
        <5> QED BY <1>2, <5>1
      <4> QED BY <2>2, <4>1
    <3> QED BY <1>2, <3>1
  <2> QED
    BY <2>1, <2>2
<1>4. \A k \in calls' : k = d \/ (k \in calls /\ k # c)
  OBVIOUS
<1>5. \A k \in calls' : k.at = "requesting" =>
         \E l \in calls : l.call = k.call /\ l.at = "requesting"
  BY <1>4
<1>6. \A s \in Seq(Entries) : Facts(s) => Facts(s)'
  <2>1. called' \in Int /\ called <= called'
    BY <1>2
  <2>2. \A n \in 1 .. MaxCalls :
           (\A k \in calls : k.call = n => k.at # "requesting") => made'[n] = made[n]
    BY <1>3
  <2> QED
    BY <1>1, <1>5, <2>1, <2>2, FactsStay
<1>7. McpTyped'
  BY <1>1, <1>3, <1>4 DEF McpTyped
<1>8. CallsApart'
  BY <1>1, <1>2, <1>4 DEF CallsApart
<1>9. TurnKept'
  BY <1>1, <1>4 DEF TurnKept
<1>10. EntriesTrue'
  <2>1. /\ audits \in Seq(Entries) /\ log \in Seq(Entries) /\ Facts(audits) /\ Facts(log)
        /\ \A k \in calls : k.entries \in Seq(Entries) /\ Facts(k.entries)
    BY <1>1 DEF McpTyped, EntriesTrue, CallType
  <2>2. Facts(audits)' /\ Facts(log)'
    BY <1>6, <2>1
  <2>3. \A k \in calls' : Facts(k.entries)'
    <3>1. \A k \in calls : Facts(k.entries)'
      BY <1>6, <2>1
    <3> QED BY <1>4, <3>1
  <2>4. \A n \in 1 .. MaxCalls : made'[n] <= 1 /\ (n > called' => made'[n] = 0)
    BY <1>1, <1>2, <1>3 DEF EntriesTrue
  <2>5. \A k \in calls' : k.at = "requesting" => made'[k.call] = 0
    <3> SUFFICES ASSUME NEW k \in calls', k.at = "requesting" PROVE made'[k.call] = 0
      OBVIOUS
    <3>1. CASE k = d
      BY <1>3, <3>1
    <3>2. CASE k \in calls /\ k # c
      <4>1. k.call # c.call /\ k.call \in 1 .. MaxCalls
        BY <1>1, <3>2 DEF CallsApart, McpTyped, CallType
      <4> QED BY <1>1, <1>3, <3>2, <4>1 DEF EntriesTrue
    <3> QED BY <1>4, <3>1, <3>2
  <2> QED
    BY <2>2, <2>3, <2>4, <2>5 DEF EntriesTrue
<1> QED
  BY <1>1, <1>7, <1>8, <1>9, <1>10 DEF McpInv, LogKept

\* A new call.
LEMMA CallComes ==
  ASSUME McpInv, NEW client \in Client, CallTool(client)
  PROVE  McpInv'
<1> USE McpAssumptions
<1>1. /\ McpTyped /\ CallsApart /\ TurnKept /\ EntriesTrue /\ LogKept
  BY DEF McpInv
<1>2. PICK n \in 1 .. MaxCalls :
        /\ n = called + 1 /\ called' = n /\ called \in 0 .. MaxCalls
        /\ UNCHANGED <<log, made, told, forgot>>
  <2>1. called + 1 \in 1 .. MaxCalls
    BY <1>1 DEF CallTool, McpTyped
  <2> QED BY <1>1, <2>1 DEF CallTool, McpTyped
<1>3. PICK tool \in Tools, verdict \in Results \cup {"requested"} :
        /\ audits' = IF verdict # "requested" /\ Mutates(tool)
                     THEN Append(audits, Entry(n, verdict)) ELSE audits
        /\ calls' = calls \cup
             (IF verdict = "requested"
              THEN {Ask(n, tool, IF tool = "search" THEN "searching" ELSE "requesting")}
              ELSE IF Mutates(tool) THEN {Ask(n, tool, "auditing")} ELSE {})
        /\ verdict \notin {"succeeded", "failed"}
  <2>1. PICK tool \in Called \cap Offered(client), apply, confirm, over \in BOOLEAN :
          /\ tool \in {"read", "search", "unlisted"} => ~ apply /\ ~ confirm
          /\ tool = "write" => ~ confirm
          /\ tool = "download" => ~ apply
          /\ LET key == <<client, Category(tool)>>
                 count == (IF over THEN 0 ELSE windows[key]) + 1
                 verdict == Verdict(tool, apply, confirm, count)
                 answered == verdict # "requested"
             IN /\ windows' = IF tool = "unlisted" THEN windows
                              ELSE [windows EXCEPT ![key] = count]
                /\ audits' = IF answered /\ Mutates(tool)
                             THEN Append(audits, Entry(called', verdict)) ELSE audits
                /\ calls' = calls \cup
                     (IF ~ answered
                      THEN {Ask(called', tool, IF tool = "search" THEN "searching"
                                              ELSE "requesting")}
                      ELSE IF Mutates(tool) THEN {Ask(called', tool, "auditing")} ELSE {})
    BY Zenon DEF CallTool
  <2> DEFINE verdict == Verdict(tool, apply, confirm,
                          (IF over THEN 0 ELSE windows[<<client, Category(tool)>>]) + 1)
  <2>2. tool \in Tools
    BY DEF Tools
  <2>3. verdict \in Results \cup {"requested"} /\ verdict \notin {"succeeded", "failed"}
    BY DEF Verdict, Results
  <2> HIDE DEF verdict
  <2>4. /\ audits' = IF verdict # "requested" /\ Mutates(tool)
                     THEN Append(audits, Entry(n, verdict)) ELSE audits
        /\ calls' = calls \cup
             (IF verdict = "requested"
              THEN {Ask(n, tool, IF tool = "search" THEN "searching" ELSE "requesting")}
              ELSE IF Mutates(tool) THEN {Ask(n, tool, "auditing")} ELSE {})
    BY <1>2, <2>1 DEF verdict
  <2> QED
    BY <2>2, <2>3, <2>4
<1>e. PICK e : e = Entry(n, verdict)
  OBVIOUS
<1>4. PICK at \in {"searching", "requesting", "auditing"} :
        /\ \/ calls' = calls /\ audits' = audits
           \/ calls' = calls \cup {Ask(n, tool, at)} /\ audits' = audits /\ at # "auditing"
           \/ /\ calls' = calls \cup {Ask(n, tool, at)} /\ at = "auditing"
              /\ audits' = Append(audits, e) /\ verdict # "requested"
  <2>1. CASE verdict = "requested" /\ tool = "search"
    BY <1>3, <2>1
  <2>2. CASE verdict = "requested" /\ tool # "search"
    BY <1>3, <2>2
  <2>3. CASE verdict # "requested" /\ Mutates(tool)
    BY <1>3, <1>e, <2>3
  <2>4. CASE verdict # "requested" /\ ~ Mutates(tool)
    BY <1>3, <2>4
  <2> QED BY <2>1, <2>2, <2>3, <2>4
<1>d. PICK d : d = Ask(n, tool, at)
  OBVIOUS
<1>5. /\ d \in CallType /\ d.call = n /\ d.at = at /\ d.entries = <<>>
      /\ audits \in Seq(Entries)
  <2>1. audits \in Seq(Entries)
    BY <1>1 DEF McpTyped
  <2>2. Range(audits) \in SUBSET Entries
    BY <2>1, RangeOfSeq
  <2>3. <<>> \in Seq(Entries)
    OBVIOUS
  <2> QED
    BY <1>2, <1>d, <2>1, <2>2, <2>3 DEF Ask, CallType
<1>6. verdict # "requested" =>
        e \in Entries /\ e.call = n /\ e.result = verdict /\ verdict \notin {"succeeded", "failed"}
  BY <1>2, <1>3, <1>e DEF Entries, Entry
<1>7. \A k \in calls' : k = d \/ k \in calls
  BY <1>4, <1>d
<1>8. \A k \in calls : k.call <= called /\ k.call \in 1 .. MaxCalls /\ k.call # n
  BY <1>1, <1>2 DEF CallsApart, McpTyped, CallType
<1>9. \A i \in DOMAIN audits : audits[i].call <= called /\ audits[i].call # n
  <2>1. \A x \in Entries : x.call \in 1 .. MaxCalls
    BY DEF Entries, Entry
  <2>2. \A i \in DOMAIN audits : audits[i] \in Entries /\ audits[i].call <= called
    BY <1>1, <1>5 DEF EntriesTrue, Facts, Fact, Closed
  <2> QED BY <1>2, <2>1, <2>2
<1>10. /\ DOMAIN audits \subseteq DOMAIN audits' /\ audits' \in Seq(Entries)
       /\ \A i \in DOMAIN audits' :
            \/ i \in DOMAIN audits /\ audits'[i] = audits[i]
            \/ i = Len(audits) + 1 /\ audits'[i] = e /\ verdict # "requested" /\ at = "auditing"
       /\ \A i \in DOMAIN audits : audits'[i] = audits[i] /\ i # Len(audits) + 1
       /\ d \in calls' \ calls /\ at = "auditing" =>
            Len(audits) + 1 \in DOMAIN audits' /\ audits'[Len(audits) + 1] = e
            /\ verdict # "requested"
  <2>1. CASE audits' = audits /\ (d \in calls' \ calls => at # "auditing")
    BY <1>5, <2>1
  <2>2. CASE audits' = Append(audits, e) /\ verdict # "requested" /\ at = "auditing"
    BY <1>5, <1>6, <2>2
  <2> QED
    BY <1>4, <1>d, <1>e, <2>1, <2>2
<1>11. \A s \in Seq(Entries) : Facts(s) => Facts(s)'
  <2>1. called' \in Int /\ called <= called'
    BY <1>2
  <2>2. \A k \in calls' : k.at = "requesting" =>
           (\E l \in calls : l.call = k.call /\ l.at = "requesting") \/ k.call > called
    BY <1>2, <1>5, <1>7
  <2>3. made' = made
    BY <1>2
  <2> QED
    BY <1>1, <2>1, <2>2, <2>3, FactsStay
<1>12. McpTyped'
  BY <1>1, <1>2, <1>5, <1>7, <1>10 DEF McpTyped
<1>13. CallsApart'
  <2>1. \A k \in calls' : k.call <= called'
    BY <1>2, <1>5, <1>7, <1>8
  <2>2. \A k, l \in calls' : k.call = l.call => k = l
    BY <1>1, <1>5, <1>7, <1>8 DEF CallsApart
  <2>3. \A i, j \in DOMAIN audits' : audits'[i].call = audits'[j].call => i = j
    BY <1>1, <1>6, <1>9, <1>10 DEF CallsApart
  <2>4. ASSUME NEW k \in calls', k.at \in {"auditing", "storing"}
        PROVE  \E i \in DOMAIN audits' : audits'[i].call = k.call
    <3>1. CASE k \in calls
      BY <1>1, <1>10, <2>4, <3>1 DEF CallsApart
    <3>2. CASE k \notin calls
      BY <1>5, <1>6, <1>7, <1>10, <2>4, <3>2
    <3> QED
      BY <3>1, <3>2
  <2> QED
    BY <2>1, <2>2, <2>3, <2>4 DEF CallsApart
<1>14. TurnKept'
  <2> SUFFICES ASSUME NEW k \in calls', k.at = "storing"
               PROVE  audits' # <<>> /\ audits'[1].call = k.call /\ (forgot' \/ k.entries = log')
    BY DEF TurnKept
  <2>1. k \in calls
    BY <1>5, <1>7
  <2>2. audits # <<>> /\ audits[1].call = k.call /\ (forgot \/ k.entries = log)
    BY <1>1, <2>1 DEF TurnKept
  <2>3. 1 \in DOMAIN audits
    BY <1>5, <2>2
  <2> QED
    BY <1>2, <1>10, <2>2, <2>3
<1>15. EntriesTrue'
  <2>0. \A k \in calls : k.entries \in Seq(Entries) /\ Facts(k.entries)
    BY <1>1 DEF McpTyped, EntriesTrue, CallType
  <2>1. Facts(audits)'
    <3>1. \A i \in DOMAIN audits : Fact(audits[i])'
      BY <1>1, <1>5, <1>10, <1>11 DEF EntriesTrue, Facts
    <3>2. ASSUME at = "auditing", verdict # "requested", audits' # audits
          PROVE  Fact(e)'
      <4>1. \A k \in calls' : k.call = n => k.at # "requesting"
        BY <1>5, <1>7, <1>8, <3>2
      <4>2. made'[n] = 0
        BY <1>1, <1>2 DEF EntriesTrue
      <4> QED
        BY <1>2, <1>6, <3>2, <4>1, <4>2 DEF Fact, Closed, Truth
    <3>3. \A i \in DOMAIN audits' : i \notin DOMAIN audits => audits' # audits
      OBVIOUS
    <3>4. ASSUME NEW i \in DOMAIN audits' PROVE Fact(audits[i])'
      <4>1. CASE i \in DOMAIN audits
        BY <1>10, <3>1, <4>1
      <4>2. CASE i \notin DOMAIN audits
        BY <1>10, <3>2, <3>3, <4>2
      <4> QED BY <4>1, <4>2
    <3> QED
      BY <3>4 DEF Facts
  <2>2. Facts(log)'
    BY <1>1, <1>2, <1>11 DEF McpTyped, EntriesTrue
  <2>3. \A k \in calls' : Facts(k.entries)'
    <3> SUFFICES ASSUME NEW k \in calls' PROVE Facts(k.entries)'
      OBVIOUS
    <3>1. CASE k \in calls
      BY <1>11, <2>0, <3>1
    <3>2. CASE k = d
      <4>1. DOMAIN k.entries = {}
        BY <1>5, <3>2
      <4> QED BY <4>1 DEF Facts
    <3> QED
      BY <1>7, <3>1, <3>2
  <2>4. \A x \in 1 .. MaxCalls : made'[x] <= 1 /\ (x > called' => made'[x] = 0)
    BY <1>1, <1>2 DEF EntriesTrue
  <2>5. \A k \in calls' : k.at = "requesting" => made'[k.call] = 0
    BY <1>1, <1>2, <1>5, <1>7 DEF EntriesTrue
  <2> QED
    BY <2>1, <2>2, <2>3, <2>4, <2>5 DEF EntriesTrue
<1> QED
  BY <1>1, <1>2, <1>12, <1>13, <1>14, <1>15 DEF McpInv, LogKept

\* An entry has its turn.
LEMMA EntryRead ==
  ASSUME McpInv, NEW c \in calls, AuditRead(c)
  PROVE  McpInv'
<1>1. /\ McpTyped /\ CallsApart /\ TurnKept /\ EntriesTrue /\ LogKept
  BY DEF McpInv
<1>2. /\ c.at = "auditing" /\ Position(c) = 1
      /\ UNCHANGED <<audits, log, made, told, called>> /\ (forgot => forgot')
  BY DEF AuditRead, Turn
<1>3. PICK d :
        /\ calls' = (calls \ {c}) \cup {d}
        /\ \/ d = [c EXCEPT !.at = "storing", !.entries = log] /\ forgot' = forgot
           \/ d = [c EXCEPT !.at = "storing"] /\ forgot'
  BY DEF AuditRead
<1>4. c \in CallType /\ log \in Seq(Entries) /\ audits \in Seq(Entries)
  BY <1>1 DEF McpTyped
<1>5. /\ d \in CallType /\ d.call = c.call /\ d.at = "storing"
      /\ d.entries = c.entries \/ d.entries = log
      /\ forgot' \/ d.entries = log
  BY <1>3, <1>4 DEF CallType
<1>6. Position(c) \in DOMAIN audits /\ audits[Position(c)].call = c.call
  BY <1>2, PositionOf
<1>7. \A k \in calls' : k = d \/ (k \in calls /\ k # c)
  BY <1>3
<1>8. \A s \in Seq(Entries) : Facts(s) => Facts(s)'
  <2>1. called' \in Int /\ called <= called'
    BY <1>1, <1>2 DEF McpTyped
  <2>2. \A k \in calls' : k.at = "requesting" =>
           (\E l \in calls : l.call = k.call /\ l.at = "requesting") \/ k.call > called
    BY <1>5, <1>7
  <2> QED
    BY <1>1, <1>2, <2>1, <2>2, FactsStay
<1>9. McpTyped'
  BY <1>1, <1>2, <1>5, <1>7 DEF McpTyped
<1>10. CallsApart'
  BY <1>1, <1>2, <1>5, <1>6, <1>7 DEF CallsApart
<1>11. TurnKept'
  BY <1>1, <1>2, <1>4, <1>5, <1>6, <1>7 DEF TurnKept
<1>12. EntriesTrue'
  <2>1. /\ Facts(audits) /\ Facts(log)
        /\ \A k \in calls : k.entries \in Seq(Entries) /\ Facts(k.entries)
    BY <1>1 DEF McpTyped, EntriesTrue, CallType
  <2>2. Facts(audits)' /\ Facts(log)'
    BY <1>2, <1>4, <1>8, <2>1
  <2>3. \A k \in calls' : Facts(k.entries)'
    <3> SUFFICES ASSUME NEW k \in calls' PROVE Facts(k.entries)'
      OBVIOUS
    <3>1. k.entries \in Seq(Entries) /\ Facts(k.entries)
      BY <1>4, <1>5, <1>7, <2>1
    <3> QED BY <1>8, <3>1
  <2>4. /\ \A n \in 1 .. MaxCalls : made'[n] <= 1 /\ (n > called' => made'[n] = 0)
        /\ \A k \in calls' : k.at = "requesting" => made'[k.call] = 0
    BY <1>1, <1>2, <1>5, <1>7 DEF EntriesTrue
  <2> QED
    BY <2>2, <2>3, <2>4 DEF EntriesTrue
<1> QED
  BY <1>1, <1>2, <1>9, <1>10, <1>11, <1>12 DEF McpInv, LogKept

\* The first goes.
LEMMA FirstGoes ==
  ASSUME NEW S, NEW s \in Seq(S), s # <<>>
  PROVE  /\ RemoveAt(s, 1) \in Seq(S)
         /\ DOMAIN RemoveAt(s, 1) = 1 .. Len(s) - 1
         /\ \A i \in 1 .. Len(s) - 1 : RemoveAt(s, 1)[i] = s[i + 1]
<1>1. SubSeq(s, 1, 1 - 1) = <<>>
  BY SubSeqEmpty
<1>2. SubSeq(s, 1 + 1, Len(s)) = Tail(s)
  <2>1. Tail(s) = SubSeq(s, 2, Len(s))
    BY TailIsSubSeq
  <2> QED BY <2>1
<1>3. RemoveAt(s, 1) = Tail(s)
  <2>1. Tail(s) \in Seq(S)
    BY HeadTailProperties
  <2>2. <<>> \o Tail(s) = Tail(s)
    BY <2>1, ConcatEmptySeq
  <2> QED BY <1>1, <1>2, <2>2 DEF RemoveAt
<1>4. /\ Tail(s) \in Seq(S) /\ Len(Tail(s)) = Len(s) - 1
      /\ \A i \in 1 .. Len(Tail(s)) : Tail(s)[i] = s[i + 1]
  BY HeadTailProperties
<1>5. DOMAIN Tail(s) = 1 .. Len(Tail(s))
  BY <1>4, LenProperties
<1> QED
  BY <1>3, <1>4, <1>5

\* It is written, or lost; the next has its turn.
LEMMA EntryStored ==
  ASSUME McpInv, NEW c \in calls, AuditStore(c)
  PROVE  McpInv'
<1>1. /\ McpTyped /\ CallsApart /\ TurnKept /\ EntriesTrue /\ LogKept
  BY DEF McpInv
<1>2. /\ c.at = "storing" /\ calls' = calls \ {c} /\ audits' = RemoveAt(audits, Position(c))
      /\ UNCHANGED <<made, forgot, called>>
  BY DEF AuditStore
<1>3. /\ audits \in Seq(Entries) /\ log \in Seq(Entries) /\ told \in Seq(Entries)
      /\ c \in CallType /\ c.entries \in Seq(Entries)
      /\ audits # <<>> /\ audits[1].call = c.call /\ (forgot \/ c.entries = log)
  BY <1>1, <1>2 DEF McpTyped, TurnKept, CallType
<1>4. Position(c) = 1 /\ EntryOf(c) = audits[1] /\ audits[1] \in Entries /\ 1 \in DOMAIN audits
  <2>1. 1 \in DOMAIN audits
    BY <1>3
  <2>2. Position(c) \in DOMAIN audits /\ audits[Position(c)].call = c.call
    BY <1>2, PositionOf
  <2>3. Position(c) = 1
    BY <1>1, <1>3, <2>1, <2>2 DEF CallsApart
  <2> QED BY <1>3, <2>1, <2>3 DEF EntryOf
<1>5. /\ audits' \in Seq(Entries) /\ DOMAIN audits' = 1 .. Len(audits) - 1
      /\ \A i \in DOMAIN audits' : i + 1 \in DOMAIN audits /\ audits'[i] = audits[i + 1]
  <2>1. audits' = RemoveAt(audits, 1)
    BY <1>2, <1>4
  <2>2. /\ RemoveAt(audits, 1) \in Seq(Entries)
        /\ DOMAIN RemoveAt(audits, 1) = 1 .. Len(audits) - 1
        /\ \A i \in 1 .. Len(audits) - 1 : RemoveAt(audits, 1)[i] = audits[i + 1]
    BY <1>3, FirstGoes
  <2>3. Len(audits) \in Nat /\ DOMAIN audits = 1 .. Len(audits)
    BY <1>3, LenProperties
  <2>4. \A i \in 1 .. Len(audits) - 1 : i + 1 \in DOMAIN audits
    BY <2>3
  <2> QED BY <2>1, <2>2, <2>4
<1>6. \/ log' = Latest(Append(c.entries, audits[1])) /\ told' = Append(told, audits[1])
      \/ UNCHANGED <<log, told>>
  BY <1>4 DEF AuditStore
<1>7. \A s \in Seq(Entries) : Facts(s) => Facts(s)'
  <2>1. called' \in Int /\ called <= called'
    BY <1>1, <1>2 DEF McpTyped
  <2>2. \A k \in calls' : k.at = "requesting" =>
           (\E l \in calls : l.call = k.call /\ l.at = "requesting") \/ k.call > called
    BY <1>2
  <2> QED
    BY <1>1, <1>2, <2>1, <2>2, FactsStay
<1>8. /\ Facts(audits) /\ Facts(log) /\ Fact(audits[1])
      /\ \A k \in calls : k.entries \in Seq(Entries) /\ Facts(k.entries)
  BY <1>1, <1>4 DEF McpTyped, EntriesTrue, CallType, Facts
<1>9. log' \in Seq(Entries) /\ told' \in Seq(Entries) /\ Facts(log')
  <2>1. /\ Append(c.entries, audits[1]) \in Seq(Entries)
        /\ Facts(Append(c.entries, audits[1]))
    BY <1>3, <1>4, <1>8, AppendFacts
  <2>2. /\ Latest(Append(c.entries, audits[1])) \in Seq(Entries)
        /\ Facts(Latest(Append(c.entries, audits[1])))
    BY <2>1, LatestFacts
  <2> QED
    <3>1. Append(told, audits[1]) \in Seq(Entries)
      BY <1>3, <1>4, AppendProperties
    <3>2. CASE UNCHANGED <<log, told>>
      BY <1>3, <1>8, <3>2
    <3>3. CASE /\ log' = Latest(Append(c.entries, audits[1]))
               /\ told' = Append(told, audits[1])
      <4>1. log' \in Seq(Entries) /\ told' \in Seq(Entries)
        BY <2>2, <3>1, <3>3
      <4>2. Facts(log')
        BY ONLY <2>2, <3>3, Zenon
      <4> QED BY <4>1, <4>2
    <3> QED BY <1>6, <3>2, <3>3
<1>10. McpTyped'
  BY <1>1, <1>2, <1>5, <1>9 DEF McpTyped
<1>11. CallsApart'
  <2>1. \A i, j \in DOMAIN audits' : audits'[i].call = audits'[j].call => i = j
    BY <1>1, <1>5 DEF CallsApart
  <2>2. ASSUME NEW k \in calls', k.at \in {"auditing", "storing"}
        PROVE  \E i \in DOMAIN audits' : audits'[i].call = k.call
    <3>1. PICK i \in DOMAIN audits : audits[i].call = k.call
      BY <1>1, <1>2, <2>2 DEF CallsApart
    <3>2. i # 1
      BY <1>1, <1>2, <1>3, <2>2, <3>1 DEF CallsApart
    <3>3. i - 1 \in DOMAIN audits' /\ audits'[i - 1] = audits[i]
      BY <1>3, <1>5, <3>2
    <3> QED BY <3>1, <3>3
  <2> QED
    BY <1>1, <1>2, <2>1, <2>2 DEF CallsApart
<1>12. TurnKept'
  <2>1. \A k \in calls : k.at = "storing" => k = c
    BY <1>1, <1>3 DEF TurnKept, CallsApart
  <2> QED
    BY <1>2, <2>1 DEF TurnKept
<1>13. EntriesTrue'
  <2>1. Facts(audits)'
    <3>1. Facts(audits')
      BY <1>5, <1>8 DEF Facts
    <3> QED BY <1>5, <1>7, <3>1
  <2>2. Facts(log)'
    BY <1>7, <1>9
  <2>3. \A k \in calls' : Facts(k.entries)'
    <3> SUFFICES ASSUME NEW k \in calls' PROVE Facts(k.entries)'
      OBVIOUS
    <3>1. k.entries \in Seq(Entries) /\ Facts(k.entries)
      BY <1>2, <1>8
    <3> QED BY <1>7, <3>1
  <2>4. /\ \A n \in 1 .. MaxCalls : made'[n] <= 1 /\ (n > called' => made'[n] = 0)
        /\ \A k \in calls' : k.at = "requesting" => made'[k.call] = 0
    BY <1>1, <1>2 DEF EntriesTrue
  <2> QED
    BY <2>1, <2>2, <2>3, <2>4 DEF EntriesTrue
<1>14. LogKept'
  <2>1. CASE forgot \/ UNCHANGED <<log, told>>
    BY <1>1, <1>2, <2>1 DEF LogKept
  <2>2. CASE ~ forgot /\ log' = Latest(Append(c.entries, audits[1])) /\ told' = Append(told, audits[1])
    <3>1. c.entries = Latest(told)
      BY <1>1, <1>3, <2>2 DEF LogKept
    <3> QED BY <1>3, <1>4, <2>2, <3>1, LatestAgain DEF LogKept
  <2> QED BY <1>6, <2>1, <2>2
<1> QED
  BY <1>10, <1>11, <1>12, <1>13, <1>14 DEF McpInv

\* Calls go, and with the process what waits.
LEMMA CallsGo ==
  ASSUME McpInv, calls' \subseteq calls, UNCHANGED <<log, made, told, forgot, called>>,
         \/ audits' = audits /\ \A c \in calls \ calls' : c.at = "searching" \/ c.at = "requesting"
         \/ audits' = <<>> /\ calls' = {}
  PROVE  McpInv'
<1>1. /\ McpTyped /\ CallsApart /\ TurnKept /\ EntriesTrue /\ LogKept
  BY DEF McpInv
<1>2. /\ <<>> \in Seq(Entries) /\ DOMAIN <<>> = {}
      /\ audits \in Seq(Entries) /\ log \in Seq(Entries) /\ called \in 0 .. MaxCalls
  BY <1>1 DEF McpTyped
<1>3. \A s \in Seq(Entries) : Facts(s) => Facts(s)'
  <2>1. called' \in Int /\ called <= called'
    BY <1>2
  <2>2. \A k \in calls' : k.at = "requesting" =>
           (\E l \in calls : l.call = k.call /\ l.at = "requesting") \/ k.call > called
    OBVIOUS
  <2> QED
    BY <1>1, <2>1, <2>2, FactsStay
<1>4. McpTyped'
  BY <1>1, <1>2 DEF McpTyped
<1>5. CallsApart'
  BY <1>1, <1>2 DEF CallsApart
<1>6. TurnKept'
  BY <1>1, <1>2 DEF TurnKept
<1>7. EntriesTrue'
  <2>1. /\ Facts(audits) /\ Facts(log)
        /\ \A k \in calls : k.entries \in Seq(Entries) /\ Facts(k.entries)
    BY <1>1 DEF McpTyped, EntriesTrue, CallType
  <2>2. Facts(audits)' /\ Facts(log)'
    <3>1. Facts(audits') /\ audits' \in Seq(Entries)
      BY <1>2, <2>1 DEF Facts
    <3> QED BY <1>2, <1>3, <2>1, <3>1
  <2>3. \A k \in calls' : Facts(k.entries)'
    <3> SUFFICES ASSUME NEW k \in calls' PROVE Facts(k.entries)'
      OBVIOUS
    <3>1. k.entries \in Seq(Entries) /\ Facts(k.entries)
      BY <2>1
    <3> QED BY <1>3, <3>1
  <2>4. /\ \A n \in 1 .. MaxCalls : made'[n] <= 1 /\ (n > called' => made'[n] = 0)
        /\ \A k \in calls' : k.at = "requesting" => made'[k.call] = 0
    BY <1>1 DEF EntriesTrue
  <2> QED
    BY <2>2, <2>3, <2>4 DEF EntriesTrue
<1> QED
  BY <1>1, <1>4, <1>5, <1>6, <1>7 DEF McpInv, LogKept

LEMMA McpStep == McpInv /\ [McpNext]_mcpVars => McpInv'
<1> SUFFICES ASSUME McpInv, [McpNext]_mcpVars PROVE McpInv'
  OBVIOUS
<1>1. ASSUME NEW c \in calls, Answered(c) PROVE McpInv'
  BY <1>1, RequestEnds DEF Answered
<1>2. ASSUME NEW c \in calls, RequestRefused(c) PROVE McpInv'
  BY <1>2, RequestEnds DEF RequestRefused
<1>3. ASSUME NEW c \in calls, UpstreamFails(c) \/ AnswerCut(c) PROVE McpInv'
  <2>1. c \in CallType
    BY DEF McpInv, McpTyped
  <2>2. CASE UpstreamFails(c) /\ c.try < Tries(c.tool)
    <3> DEFINE d == [c EXCEPT !.try = @ + 1]
    <3>1. d \in CallType /\ d.call = c.call /\ d.at = c.at /\ d.entries = c.entries
      BY <2>1 DEF CallType
    <3>2. calls' = (calls \ {c}) \cup {d}
      BY <2>2 DEF UpstreamFails
    <3>3. ~ Mutates(c.tool)
      BY <2>1, <2>2 DEF Tries, CallType
    <3> QED
      BY <2>2, <3>1, <3>2, <3>3, RequestStays DEF UpstreamFails
  <2>3. CASE UpstreamFails(c) /\ ~ (c.try < Tries(c.tool))
    BY <2>3, RequestEnds DEF UpstreamFails
  <2>4. CASE AnswerCut(c)
    <3> DEFINE d == [c EXCEPT !.at = "hung"]
    <3>1. d \in CallType /\ d.call = c.call /\ d.at = "hung" /\ d.entries = c.entries
      BY <2>1 DEF CallType
    <3>2. calls' = (calls \ {c}) \cup {d}
      BY <2>4 DEF AnswerCut
    <3> QED
      BY <2>4, <3>1, <3>2, RequestStays DEF AnswerCut
  <2> QED
    BY <1>3, <2>2, <2>3, <2>4
<1>4. ASSUME NEW c \in calls, Search(c) PROVE McpInv'
  BY <1>4, CallsGo DEF Search
<1>5. CASE ProcessEnds \/ UNCHANGED mcpVars
  BY <1>5, CallsGo DEF ProcessEnds, mcpVars
<1> QED
  BY <1>1, <1>2, <1>3, <1>4, <1>5, CallComes, EntryRead, EntryStored DEF McpNext

LEMMA McpMeans == McpInv => HistoryTrue
<1> SUFFICES ASSUME McpInv PROVE HistoryTrue
  OBVIOUS
<1>1. \A n \in 1 .. MaxCalls : made[n] <= 1
  BY DEF McpInv, EntriesTrue
<1>2. ASSUME NEW e \in Range(log)
      PROVE  /\ e.applied => made[e.call] = 1
             /\ e.result \notin {"succeeded", "failed"} => made[e.call] = 0
  <2>1. PICK i \in DOMAIN log : e = log[i]
    BY DEF Range
  <2>2. e \in Entries /\ Truth(e)
    BY <2>1 DEF McpInv, McpTyped, EntriesTrue, Facts, Fact
  <2>3. e.applied => e.result = "succeeded"
    <3>1. PICK n \in 1 .. MaxCalls, r \in Results : e = Entry(n, r)
      BY <2>2 DEF Entries
    <3> QED BY <3>1 DEF Entry
  <2> QED
    BY <2>2, <2>3 DEF Truth
<1> QED
  BY <1>1, <1>2 DEF McpInv, LogKept, HistoryTrue

-----------------------------------------------------------------------------
(* Drawing: what is there, what is asked for, and whose the focus is. *)

AxesType == [all : BOOLEAN, left : SUBSET Line, right : SUBSET Line, unit : BOOLEAN]
DisplayType == [axes : AxesType, known : SUBSET Line, number : Nat]

LinesTyped ==
  /\ lines \in SUBSET Line /\ axes \in AxesType /\ display \in DisplayType
  /\ saves \in SUBSET DisplayType /\ shownAs \in Nat /\ displays \in Nat

\* No line is on two axes.
Apart(a) == ~ a.all => a.left \cap a.right = {}

Stored == saves \cup {display}

\* Every display that was stored, or is to be, has a number of its own, and the one that
\* the page shows has its axes.
Numbered ==
  /\ Apart(axes)
  /\ shownAs <= displays
  /\ \A d \in Stored :
       /\ d.number <= displays /\ d.axes.left \cap d.axes.right = {}
       /\ shownAs = d.number => SameAxes(axes, MountedWith(d.axes), d.known)
       /\ \A e \in Stored : d.number = e.number => d = e
  /\ display \notin saves

\* The timer asks for the window selected last, and what was asked for comes, unless the
\* page has loaded all anew.
Zooming ==
  /\ asking \in Windows \cup {AllSeries, Idle}
  /\ zoomed \in Windows \cup {0} /\ settling \in {0, zoomed} /\ spoilt \in BOOLEAN
  /\ askedFor # 0 => zoomed # 0 /\ askedFor \in Windows
  /\ asking \in Windows => askedFor \in {0, asking}
  /\ askedFor # 0 => detailOf = askedFor \/ asking \in {askedFor, AllSeries} \/ spoilt
  /\ zoomed # 0 /\ settling = 0 => askedFor = zoomed \/ spoilt

\* The focus is given back in a frame that is still to come, unless the user took it.
Focused ==
  /\ frames \in Nat
  /\ Busy => popup = "none" /\ ~ inspecting /\ ~ navigating
  /\ navigating => focus = "plot"
  /\ owed => focus # "control" /\ (hurried \/ restore)
  /\ ~ Busy /\ restore => frames > 0

DrawingInv == LinesTyped /\ Numbered /\ Zooming /\ Focused

LEMMA DrawingInitInv == DrawingInit => DrawingInv
<1> SUFFICES ASSUME DrawingInit PROVE DrawingInv
  OBVIOUS
<1>1. FirstDisplay.axes \in AxesType /\ FirstDisplay \in DisplayType
  BY DEF FirstDisplay, AxesType, DisplayType
<1>2. LinesTyped
  BY <1>1 DEF DrawingInit, LinesTyped
<1>3. Numbered
  BY DEF DrawingInit, Numbered, Stored, Apart, FirstDisplay, SameAxes, MountedWith, Axis,
         OnLeft, OnRight
<1>4. Zooming /\ Focused
  BY DrawingAssumptions DEF DrawingInit, Zooming, Focused, Busy, AllSeries, Idle
<1> QED
  BY <1>2, <1>3, <1>4 DEF DrawingInv

LEMMA LeftApart ==
  ASSUME LinesTyped, Numbered
  PROVE  LeftOf(axes) \in SUBSET Line /\ LeftOf(axes) \cap axes.right = {}
BY DEF LinesTyped, Numbered, Apart, LeftOf, AxesType

\* What is sent to be saved shows the lines that are there as they are shown.
LEMMA DisplayedSame ==
  ASSUME LinesTyped, NEW a \in AxesType, Apart(a)
  PROVE  /\ Displayed(a) \in AxesType
         /\ Displayed(a).left \cap Displayed(a).right = {}
         /\ SameAxes(a, MountedWith(Displayed(a)), lines)
<1> DEFINE d == Displayed(a)
<1>1. d \in AxesType
  BY DEF Displayed, LinesTyped, AxesType
<1>2. d.left \cap d.right = {}
  BY DEF Displayed, Apart, OnLeft, OnRight
<1>3. MountedWith(d) \in AxesType /\ MountedWith(d).left = d.left /\ MountedWith(d).right = d.right
      /\ MountedWith(d).unit = a.unit /\ MountedWith(d).all = FALSE
  BY <1>1, <1>2 DEF MountedWith, Displayed, AxesType
<1>4. ASSUME NEW line \in lines PROVE Axis(a, line) = Axis(MountedWith(d), line)
  <2>1. line \in d.left <=> OnLeft(a, line)
    BY DEF Displayed
  <2>2. line \in d.right <=> OnRight(a, line)
    BY DEF Displayed
  <2> HIDE DEF d
  <2> QED BY <1>3, <2>1, <2>2 DEF Axis, OnLeft, OnRight
<1> QED
  BY <1>1, <1>2, <1>4 DEF SameAxes

\* A choice is drawn, and saved under a number of its own.
LEMMA ChoiceNumbered ==
  ASSUME LinesTyped, Numbered, NEW a \in AxesType, Apart(a), ViewChanged(a),
         lines' = lines, display' = display
  PROVE  LinesTyped' /\ Numbered'
<1> DEFINE new == [axes |-> Displayed(a), known |-> lines, number |-> displays + 1]
<1>1. axes' = a /\ displays' = displays + 1 /\ shownAs' = displays + 1
      /\ (saves' = saves \/ saves' = saves \cup {new})
  BY DEF ViewChanged
<1>2. new \in DisplayType
  BY DisplayedSame DEF DisplayType, LinesTyped
<1>3. LinesTyped'
  <2> HIDE DEF new
  <2> QED BY <1>1, <1>2 DEF LinesTyped
<1>4. ASSUME NEW d \in Stored PROVE d.number <= displays /\ d.number \in Nat /\ d.number # displays + 1
  BY DEF Numbered, Stored, LinesTyped, DisplayType
<1>5. Stored' \subseteq Stored \cup {new}
  BY <1>1 DEF Stored
<1>6. new.number = displays + 1 /\ new.axes = Displayed(a) /\ new.known = lines
  OBVIOUS
<1>7. ASSUME NEW d \in Stored'
      PROVE  /\ d.number <= displays' /\ d.axes.left \cap d.axes.right = {}
             /\ shownAs' = d.number => SameAxes(a, MountedWith(d.axes), d.known)
             /\ \A e \in Stored' : d.number = e.number => d = e
  <2> HIDE DEF new
  <2>1. CASE d = new
    BY <1>1, <1>4, <1>5, <1>6, <2>1, DisplayedSame DEF LinesTyped
  <2>2. CASE d \in Stored
    BY <1>1, <1>4, <1>5, <1>6, <2>2 DEF LinesTyped, Numbered
  <2> QED BY <1>5, <2>1, <2>2
<1>8. display' \notin saves'
  <2>1. display # new
    BY <1>4, <1>6 DEF Stored
  <2> QED BY <1>1, <2>1 DEF Numbered
<1>9. shownAs' <= displays'
  BY <1>1 DEF LinesTyped
<1> QED
  <2> HIDE DEF new
  <2> QED BY <1>1, <1>3, <1>7, <1>8, <1>9 DEF Numbered

LEMMA ChoicesNumbered ==
  ASSUME LinesTyped, Numbered, NEW line \in lines,
         ChooseLeft(line) \/ ChooseRight(line) \/ ToggleLegend(line)
  PROVE  LinesTyped' /\ Numbered'
<1> DEFINE L == LeftOf(axes)
<1>l. L \in SUBSET Line /\ L \cap axes.right = {} /\ axes \in AxesType /\ line \in Line
      /\ axes.right \in SUBSET Line
  BY LeftApart DEF LinesTyped, AxesType
<1> HIDE DEF L
<1>1. ASSUME NEW a \in AxesType, Apart(a), Drawing(a) PROVE LinesTyped' /\ Numbered'
  BY <1>1, ChoiceNumbered DEF Drawing
<1>a. ASSUME NEW l \in SUBSET Line, NEW r \in SUBSET Line, l \cap r = {}
      PROVE  /\ [axes EXCEPT !.all = FALSE, !.left = l, !.right = r] \in AxesType
             /\ Apart([axes EXCEPT !.all = FALSE, !.left = l, !.right = r])
  BY <1>l, <1>a DEF AxesType, Apart
<1>2. CASE ChooseLeft(line)
  <2> DEFINE left == Toggled(L, line)
  <2>1. left \in SUBSET Line /\ axes.right \ left \in SUBSET Line /\ left \cap (axes.right \ left) = {}
    BY <1>l DEF Toggled
  <2>2. Drawing([axes EXCEPT !.all = FALSE, !.left = left, !.right = axes.right \ left])
    BY <1>2 DEF ChooseLeft, L
  <2> HIDE DEF left
  <2> QED BY <1>1, <1>a, <2>1, <2>2
<1>3. CASE ChooseRight(line)
  <2> DEFINE right == Toggled(axes.right, line)
  <2>1. right \in SUBSET Line /\ L \ right \in SUBSET Line /\ (L \ right) \cap right = {}
    BY <1>l DEF Toggled
  <2>2. Drawing([axes EXCEPT !.all = FALSE, !.left = L \ right, !.right = right])
    BY <1>3 DEF ChooseRight, L
  <2> HIDE DEF right
  <2> QED BY <1>1, <1>a, <2>1, <2>2
<1>4. CASE ToggleLegend(line)
  <2> DEFINE A(l, r) == [axes EXCEPT !.all = FALSE, !.left = l, !.right = r]
  <2>1. \/ Drawing(A(L \ {line}, axes.right \ {line}))
        \/ Drawing(A(L \ {line}, axes.right \cup {line}))
        \/ Drawing(A(L \cup {line}, axes.right \ {line}))
    BY <1>4, Zenon DEF ToggleLegend, L
  <2>2. /\ A(L \ {line}, axes.right \ {line}) \in AxesType /\ Apart(A(L \ {line}, axes.right \ {line}))
        /\ A(L \ {line}, axes.right \cup {line}) \in AxesType /\ Apart(A(L \ {line}, axes.right \cup {line}))
        /\ A(L \cup {line}, axes.right \ {line}) \in AxesType /\ Apart(A(L \cup {line}, axes.right \ {line}))
    <3>1. /\ L \ {line} \in SUBSET Line /\ L \cup {line} \in SUBSET Line
          /\ axes.right \ {line} \in SUBSET Line /\ axes.right \cup {line} \in SUBSET Line
      BY <1>l
    <3>2. /\ (L \ {line}) \cap (axes.right \ {line}) = {} /\ (L \ {line}) \cap (axes.right \cup {line}) = {}
          /\ (L \cup {line}) \cap (axes.right \ {line}) = {}
      BY <1>l
    <3> QED BY <1>a, <3>1, <3>2
  <2> HIDE DEF A
  <2> QED BY <1>1, <2>1, <2>2
<1> QED
  BY <1>2, <1>3, <1>4

LEMMA UnitNumbered ==
  ASSUME LinesTyped, Numbered, ChooseUnit
  PROVE  LinesTyped' /\ Numbered'
<1> DEFINE a == [axes EXCEPT !.unit = ~ @]
<1>1. a \in AxesType /\ Apart(a)
  BY DEF AxesType, Apart, Numbered, LinesTyped
<1>2. Drawing(a)
  BY DEF ChooseUnit
<1> HIDE DEF a
<1> QED BY <1>1, <1>2, ChoiceNumbered DEF Drawing

\* What is stored goes one by one: the rest keeps its numbers.
LEMMA SavesNumbered ==
  ASSUME LinesTyped, Numbered, NEW save \in saves,
         saves' = saves \ {save}, display' = save \/ display' = display,
         axes' = axes, shownAs' = shownAs, displays' = displays, lines' = lines
  PROVE  LinesTyped' /\ Numbered'
<1>1. Stored' \subseteq Stored
  BY DEF Stored
<1>2. LinesTyped'
  BY DEF LinesTyped
<1>3. display' \notin saves'
  BY DEF Numbered
<1>4. \A d \in Stored' :
        /\ d.number <= displays' /\ d.axes.left \cap d.axes.right = {}
        /\ shownAs' = d.number => SameAxes(axes', MountedWith(d.axes), d.known)
        /\ \A e \in Stored' : d.number = e.number => d = e
  BY <1>1 DEF Numbered
<1> QED
  BY <1>2, <1>3, <1>4 DEF Numbered

\* The page opens with what is stored.
LEMMA ReopenNumbered ==
  ASSUME LinesTyped, Numbered, Reopen
  PROVE  LinesTyped' /\ Numbered'
<1>1. /\ lines' = {} /\ axes' = MountedWith(display.axes) /\ shownAs' = display.number
      /\ display' = display /\ saves' = saves /\ displays' = displays
  BY DEF Reopen
<1>2. display \in Stored /\ display.axes \in AxesType /\ display.number \in Nat
  BY DEF Stored, LinesTyped, DisplayType
<1>3. MountedWith(display.axes) = display.axes
  BY <1>2 DEF MountedWith, AxesType, Numbered
<1>4. LinesTyped'
  BY <1>1, <1>2, <1>3 DEF LinesTyped
<1>5. Apart(axes')
  BY <1>1, <1>2, <1>3 DEF Numbered, Apart
<1>6. Stored' = Stored /\ shownAs' <= displays'
  BY <1>1, <1>2 DEF Stored, Numbered
<1>7. ASSUME NEW d \in Stored, display.number = d.number
      PROVE  SameAxes(axes', MountedWith(d.axes), d.known)
  <2>1. d = display
    BY <1>2, <1>7 DEF Numbered
  <2> QED BY <1>1, <1>3, <2>1 DEF SameAxes
<1>8. \A d \in Stored' :
        /\ d.number <= displays' /\ d.axes.left \cap d.axes.right = {}
        /\ shownAs' = d.number => SameAxes(axes', MountedWith(d.axes), d.known)
        /\ \A e \in Stored' : d.number = e.number => d = e
  BY <1>1, <1>6, <1>7 DEF Numbered
<1> QED
  BY <1>1, <1>4, <1>5, <1>6, <1>8 DEF Numbered

LEMMA LinesNext == LinesTyped /\ Numbered /\ [DrawingNext]_drawingVars => LinesTyped' /\ Numbered'
<1> SUFFICES ASSUME LinesTyped, Numbered, [DrawingNext]_drawingVars
             PROVE  LinesTyped' /\ Numbered'
  OBVIOUS
<1>1. ASSUME axes' = axes, display' = display, saves' = saves, shownAs' = shownAs,
             displays' = displays, lines' \in SUBSET Line
      PROVE  LinesTyped' /\ Numbered'
  <2>1. Stored' = Stored
    BY <1>1 DEF Stored
  <2> QED BY <1>1, <2>1 DEF LinesTyped, Numbered
<1>2. lines \in SUBSET Line
  BY DEF LinesTyped
<1>3. ASSUME NEW line \in lines, ChooseLeft(line) \/ ChooseRight(line) \/ ToggleLegend(line)
      PROVE  LinesTyped' /\ Numbered'
  BY <1>3, ChoicesNumbered
<1>4. ASSUME NEW save \in saves, DisplaySaved(save) \/ DisplayLost(save)
      PROVE  LinesTyped' /\ Numbered'
  BY <1>4, SavesNumbered, Zenon DEF DisplaySaved, DisplayLost
<1>a. ASSUME NEW line \in Line, ToggleKrakenSeries(line) PROVE LinesTyped' /\ Numbered'
  <2>1. lines' \in SUBSET Line
    BY <1>2, <1>a DEF ToggleKrakenSeries, Toggled
  <2> QED BY <1>1, <1>a, <2>1, Zenon DEF ToggleKrakenSeries, axesVars
<1>5. CASE SeriesDrawn
  BY <1>1, <1>5, Zenon DEF SeriesDrawn, Answers, axesVars
<1>6. CASE \/ \E window \in Windows : ZoomTo(window)
           \/ LoadAgain \/ DetailDrawn \/ NothingDrawn \/ Frame \/ EnterPlot \/ LeavePlot
  BY <1>1, <1>2, <1>6, Zenon
     DEF ZoomTo, LoadAgain, DetailDrawn, NothingDrawn, Answers, Frame, EnterPlot, LeavePlot,
         axesVars
<1>7. CASE Hover \/ Freeze \/ ClickEvent \/ Release \/ Inspect
  BY <1>1, <1>2, <1>7, Zenon DEF Hover, Freeze, ClickEvent, Release, Inspect, Popping, axesVars
<1>8. CASE ResetZoom \/ ZoomSettled \/ StateChanged \/ UNCHANGED drawingVars
  BY <1>1, <1>2, <1>8, Zenon DEF ResetZoom, ZoomSettled, StateChanged, drawingVars, axesVars
<1> QED
  BY <1>3, <1>4, <1>a, <1>5, <1>6, <1>7, <1>8, UnitNumbered, ReopenNumbered, Zenon DEF DrawingNext

-----------------------------------------------------------------------------

Windowed == Idle \notin Windows /\ AllSeries \notin Windows /\ Idle # AllSeries /\ 0 \notin Windows

LEMMA WindowsApart == Windowed
BY DrawingAssumptions DEF Windowed, Idle, AllSeries

\* The whole is shown again, whatever is asked for meanwhile.
LEMMA WholeZooming ==
  ASSUME Zooming, Whole, asking' \in {asking, AllSeries}
  PROVE  Zooming'
BY WindowsApart DEF Zooming, Whole, Windowed

LEMMA ZoomingNext == Zooming /\ [DrawingNext]_drawingVars => Zooming'
<1> SUFFICES ASSUME Zooming, [DrawingNext]_drawingVars PROVE Zooming'
  OBVIOUS
<1> USE WindowsApart DEF Windowed
<1>1. ASSUME UNCHANGED <<asking, zoomed, settling, askedFor, detailOf, spoilt>> PROVE Zooming'
  BY <1>1 DEF Zooming
<1>2. ASSUME NEW line \in lines, ChooseLeft(line) \/ ChooseRight(line) \/ ToggleLegend(line)
      PROVE  Zooming'
  BY <1>1, <1>2, Zenon DEF ChooseLeft, ChooseRight, ToggleLegend, Drawing, zoomVars
<1>a. ASSUME NEW line \in Line, ToggleKrakenSeries(line) PROVE Zooming'
  BY <1>1, <1>a, Zenon DEF ToggleKrakenSeries, zoomVars
<1>3. ASSUME NEW save \in saves, DisplaySaved(save) \/ DisplayLost(save) PROVE Zooming'
  BY <1>1, <1>3, Zenon DEF DisplaySaved, DisplayLost, zoomVars
<1>4. CASE ChooseUnit \/ Frame \/ EnterPlot \/ LeavePlot
  BY <1>1, <1>4, Zenon DEF ChooseUnit, Drawing, Frame, EnterPlot, LeavePlot, zoomVars
<1>5. CASE Hover \/ Freeze \/ ClickEvent \/ Release \/ Inspect
  BY <1>1, <1>5, Zenon DEF Hover, Freeze, ClickEvent, Release, Inspect, Popping, zoomVars
<1>6. CASE LoadAgain
  BY <1>6 DEF LoadAgain, Zooming, zoomVars
<1>7. CASE SeriesDrawn
  BY <1>7 DEF SeriesDrawn, Answers, Zooming
<1>8. CASE DetailDrawn
  BY <1>8 DEF DetailDrawn, Answers, Zooming
<1>9. CASE NothingDrawn
  BY <1>9 DEF NothingDrawn, Answers, Zooming
<1>10. ASSUME NEW window \in Windows, ZoomTo(window) PROVE Zooming'
  BY <1>10 DEF ZoomTo, Zooming, Busy
<1>11. CASE ResetZoom
  BY <1>11, WholeZooming DEF ResetZoom
<1>12. CASE ZoomSettled
  <2>1. CASE Busy \/ settling = askedFor
    BY <1>12, <2>1 DEF ZoomSettled, Zooming
  <2>2. CASE ~ (Busy \/ settling = askedFor)
    BY <1>12, <2>2 DEF ZoomSettled, Zooming
  <2> QED BY <2>1, <2>2
<1>13. CASE StateChanged
  BY <1>13, WholeZooming DEF StateChanged
<1>14. CASE Reopen
  BY <1>14, WholeZooming DEF Reopen
<1>15. CASE UNCHANGED drawingVars
  BY <1>1, <1>15, Zenon DEF drawingVars, zoomVars
<1> QED
  BY <1>2, <1>a, <1>3, <1>4, <1>5, <1>6, <1>7, <1>8, <1>9, <1>10, <1>11, <1>12, <1>13, <1>14,
     <1>15, Zenon DEF DrawingNext

-----------------------------------------------------------------------------

LEMMA BusyFocused ==
  ASSUME Focused, BusyRises, asking' # Idle
  PROVE  Focused'
BY DEF Focused, BusyRises, Busy, InPlot, focusVars, popupVars

LEMMA FocusedNext == Zooming /\ Focused /\ [DrawingNext]_drawingVars => Focused'
<1> SUFFICES ASSUME Zooming, Focused, [DrawingNext]_drawingVars PROVE Focused'
  OBVIOUS
<1>1. ASSUME UNCHANGED <<asking, focus, navigating, restore, frames, owed, hurried, popup, inspecting>>
      PROVE  Focused'
  BY <1>1 DEF Focused, Busy
<1>2. ASSUME NEW line \in lines, ChooseLeft(line) \/ ChooseRight(line) \/ ToggleLegend(line)
      PROVE  Focused'
  BY <1>1, <1>2, Zenon
     DEF ChooseLeft, ChooseRight, ToggleLegend, Drawing, focusVars, popupVars
<1>a. ASSUME NEW line \in Line, ToggleKrakenSeries(line) PROVE Focused'
  BY <1>1, <1>a, Zenon DEF ToggleKrakenSeries, focusVars, popupVars
<1>3. ASSUME NEW save \in saves, DisplaySaved(save) \/ DisplayLost(save) PROVE Focused'
  BY <1>1, <1>3, Zenon DEF DisplaySaved, DisplayLost, focusVars, popupVars
<1>4. CASE ChooseUnit \/ (\E window \in Windows : ZoomTo(window)) \/ ResetZoom
  BY <1>1, <1>4, Zenon DEF ChooseUnit, Drawing, ZoomTo, ResetZoom, focusVars, popupVars
<1>5. CASE Hover \/ Freeze \/ ClickEvent \/ Release \/ Inspect
  <2>1. ~ Busy /\ UNCHANGED <<asking, focus, navigating, restore, frames, owed, hurried>>
    BY <1>5, Zenon DEF Hover, Freeze, ClickEvent, Release, Inspect, Popping, focusVars
  <2> QED BY <2>1 DEF Focused, Busy
<1>6. CASE LoadAgain
  BY <1>6, BusyFocused DEF LoadAgain, Idle, AllSeries
<1>7. CASE SeriesDrawn \/ DetailDrawn \/ NothingDrawn
  <2>1. Busy /\ asking' = Idle /\ BusyFalls
    BY <1>7, Zenon DEF SeriesDrawn, DetailDrawn, NothingDrawn, Answers
  <2> QED BY <2>1 DEF BusyFalls, Focused, Busy, popupVars
<1>8. CASE Frame
  BY <1>8 DEF Frame, Enters, Focused, Busy, popupVars
<1>9. CASE EnterPlot
  BY <1>9 DEF EnterPlot, Enters, Focused, Busy, popupVars
<1>10. CASE LeavePlot
  BY <1>10 DEF LeavePlot, Focused, Busy, popupVars
<1>11. CASE ZoomSettled
  <2>1. CASE Busy \/ settling = askedFor
    BY <1>1, <1>11, <2>1 DEF ZoomSettled, focusVars, popupVars
  <2>2. CASE ~ (Busy \/ settling = askedFor)
    <3>1. settling # Idle
      BY <1>11, WindowsApart DEF ZoomSettled, Zooming, Windowed
    <3>2. BusyRises /\ asking' = settling
      BY <1>11, <2>2 DEF ZoomSettled
    <3> QED BY <3>1, <3>2, BusyFocused
  <2> QED BY <2>1, <2>2
<1>12. CASE StateChanged
  BY <1>1, <1>12, BusyFocused DEF StateChanged, Idle, AllSeries, focusVars, popupVars
<1>13. CASE Reopen
  BY <1>13 DEF Reopen, Focused, Busy
<1>14. CASE UNCHANGED drawingVars
  BY <1>1, <1>14, Zenon DEF drawingVars, focusVars, popupVars
<1> QED
  BY <1>2, <1>a, <1>3, <1>4, <1>5, <1>6, <1>7, <1>8, <1>9, <1>10, <1>11, <1>12, <1>13, <1>14,
     Zenon DEF DrawingNext

-----------------------------------------------------------------------------

LEMMA DrawingStep == DrawingInv /\ [DrawingNext]_drawingVars => DrawingInv'
BY LinesNext, ZoomingNext, FocusedNext DEF DrawingInv

LEMMA DrawingMeans == DrawingInv => DrawingTrue
<1> SUFFICES ASSUME DrawingInv PROVE DrawingTrue
  OBVIOUS
<1>1. LinesTyped /\ Numbered /\ Zooming /\ Focused
  BY DEF DrawingInv
<1>2. AxesKept
  <2>1. LeftOf(axes) \cap axes.right = {} /\ display.axes.left \cap display.axes.right = {}
    BY <1>1, LeftApart DEF Numbered, Stored
  <2>2. SameAxes(axes, MountedWith(GraphSaved), lines)
    BY <1>1, DisplayedSame DEF GraphSaved, LinesTyped, Numbered
  <2>3. shownAs = display.number =>
          SameAxes(axes, MountedWith(display.axes), lines \cap display.known)
    BY <1>1 DEF Numbered, Stored, SameAxes
  <2> QED BY <2>1, <2>2, <2>3 DEF AxesKept
<1>3. DetailThere
  BY <1>1, WindowsApart DEF Zooming, DetailThere, Busy, Windowed
<1>4. FocusReturns
  BY <1>1 DEF Focused, FocusReturns
<1> QED
  BY <1>2, <1>3, <1>4 DEF DrawingTrue

-----------------------------------------------------------------------------
(* The backup and its restore (Backup). *)

BackupRow == [key : Nat, of : Nat, number : Nat]
OneByKey(S) == \A r, s \in S : r.key = s.key => r = s
OnceByKey(s) == \A i, j \in DOMAIN s : s[i].key = s[j].key => i = j

\* The tables, and what a restore makes of them.
Tabled == [Table -> SUBSET BackupRow]
Result == [db : Tabled, ok : BOOLEAN]

\* The rows that are written of a table.
Written(t) == ToSet(archive[t])

TablesTyped(d) ==
  /\ d \in Tabled
  /\ \A t \in Table : IsFiniteSet(Ids(d[t])) /\ OneByKey(d[t])
  /\ \A r \in d["tracked_addresses"] : r.of = 0 /\ r.key # 0
  /\ \A r \in d["address_sync_state"] : r.key = r.of
  /\ \A t \in References : \A r \in d[t] : r.of \in Tracked(d)

-----------------------------------------------------------------------------

LEMMA ListedAre ==
  /\ Len(Listed) = 4
  /\ Listed[1] = "tracked_addresses" /\ Listed[2] = "address_sync_state"
  /\ Listed[3] = "chain_transactions" /\ Listed[4] = "portfolio_snapshots"
<1>1. /\ InsertOrder("addresses")
           = <<"tracked_addresses", "address_sync_state", "chain_transactions">>
      /\ InsertOrder("portfolio") = <<"portfolio_snapshots">>
  BY DEF InsertOrder
<1>2. Listed = <<"tracked_addresses", "address_sync_state", "chain_transactions">>
                 \o <<"portfolio_snapshots">>
  BY <1>1 DEF Listed
<1> DEFINE A == <<"tracked_addresses", "address_sync_state", "chain_transactions">>
           P == <<"portfolio_snapshots">>
<1>3. /\ A \in Seq({A[1], A[2], A[3]}) /\ Len(A) = 3 /\ A[1] = "tracked_addresses"
      /\ A[2] = "address_sync_state" /\ A[3] = "chain_transactions"
  OBVIOUS
<1>4. P \in Seq({P[1]}) /\ Len(P) = 1 /\ P[1] = "portfolio_snapshots"
  OBVIOUS
<1>5. Listed = A \o P
  BY <1>2
<1> HIDE DEF A, P
<1> DEFINE N == {A[1], A[2], A[3], P[1]}
<1>6. A \in Seq(N) /\ P \in Seq(N)
  BY <1>3, <1>4
<1> HIDE DEF N
<1>7. /\ Len(A \o P) = Len(A) + Len(P)
      /\ \A i \in 1 .. Len(A) + Len(P) :
           (A \o P)[i] = IF i <= Len(A) THEN A[i] ELSE P[i - Len(A)]
  BY <1>6, ConcatProperties
<1> QED
  BY <1>3, <1>4, <1>5, <1>7

LEMMA TableIs ==
  /\ Table = {"tracked_addresses", "address_sync_state", "chain_transactions",
              "portfolio_snapshots"}
  /\ References = {"address_sync_state", "chain_transactions"}
  /\ DOMAIN Listed = 1 .. 4
<1>1. Listed \in Seq(ToSet(Listed))
  <2> DEFINE A == InsertOrder("addresses")
             P == InsertOrder("portfolio")
  <2> QED
    BY DEF Listed, InsertOrder, ToSet
<1>2. DOMAIN Listed = 1 .. 4
  BY <1>1, ListedAre, LenProperties
<1>3. Table = {Listed[i] : i \in 1 .. 4}
  BY <1>2 DEF Table, ToSet
<1>4. Table = {"tracked_addresses", "address_sync_state", "chain_transactions",
               "portfolio_snapshots"}
  <2>1. \A i \in 1 .. 4 : i = 1 \/ i = 2 \/ i = 3 \/ i = 4
    OBVIOUS
  <2> QED
    BY <1>3, <2>1, ListedAre
<1> QED
  BY <1>2, <1>4 DEF References

LEMMA TablesOfAre ==
  ASSUME NEW groups \in Chosen
  PROVE  /\ TablesOf(groups) \subseteq Table
         /\ "addresses" \in groups =>
              "tracked_addresses" \in TablesOf(groups) /\ References \subseteq TablesOf(groups)
         /\ "addresses" \notin groups => TablesOf(groups) = {"portfolio_snapshots"}
<1>1. groups \subseteq {"addresses", "portfolio"} /\ groups # {}
  <2>1. groups \in (SUBSET Group) \ {{}}
    BY DEF Chosen
  <2> QED
    BY <2>1 DEF Group
<1>2. /\ ToSet(InsertOrder("addresses"))
           = {"tracked_addresses", "address_sync_state", "chain_transactions"}
      /\ ToSet(InsertOrder("portfolio")) = {"portfolio_snapshots"}
  BY DEF InsertOrder, ToSet
<1>3. \A t : t \in TablesOf(groups) <=> \E g \in groups : t \in ToSet(InsertOrder(g))
  BY DEF TablesOf
<1>4. CASE "addresses" \in groups
  <2>1. \A t \in ToSet(InsertOrder("addresses")) : t \in TablesOf(groups)
    BY <1>3, <1>4
  <2>2. \A t \in TablesOf(groups) : t \in Table
    BY <1>1, <1>2, <1>3, TableIs
  <2> QED
    BY <1>2, <1>4, <2>1, <2>2, TableIs
<1>5. CASE "addresses" \notin groups
  <2>1. groups = {"portfolio"}
    BY <1>1, <1>5
  <2>2. TablesOf(groups) = ToSet(InsertOrder("portfolio"))
    BY <2>1 DEF TablesOf
  <2> QED
    BY <1>2, <1>5, <2>2, TableIs
<1> QED
  BY <1>4, <1>5

-----------------------------------------------------------------------------
(* The place of an id among those of a table. *)

Rank(K, k) == Cardinality({q \in K : q <= k})

LEMMA RanksApart ==
  ASSUME NEW K \in SUBSET Nat, IsFiniteSet(K)
  PROVE  /\ Cardinality(K) \in Nat
         /\ \A k \in K : Rank(K, k) \in 1 .. Cardinality(K)
         /\ \A k, l \in K : Rank(K, k) = Rank(K, l) => k = l
         /\ \A n \in 1 .. Cardinality(K) : \E k \in K : Rank(K, k) = n
<1> DEFINE Upto(k) == {q \in K : q <= k}
           m == Cardinality(K)
<1>1. m \in Nat
  BY FS_CardinalityType
<1>2. ASSUME NEW k \in K PROVE IsFiniteSet(Upto(k)) /\ Cardinality(Upto(k)) \in 1 .. m
  <2>1. Upto(k) \in SUBSET K /\ k \in Upto(k)
    OBVIOUS
  <2> HIDE DEF Upto
  <2>2. IsFiniteSet(Upto(k)) /\ Cardinality(Upto(k)) <= m
    BY <2>1, FS_Subset
  <2>3. Cardinality(Upto(k)) \in Nat /\ Cardinality(Upto(k)) # 0
    BY <2>1, <2>2, FS_CardinalityType, FS_EmptySet
  <2> QED
    BY <1>1, <2>2, <2>3
<1>3. ASSUME NEW k \in K, NEW l \in K, k < l PROVE Cardinality(Upto(k)) # Cardinality(Upto(l))
  <2>1. k \in Nat /\ l \in Nat /\ \A q \in K : q \in Nat
    OBVIOUS
  <2>3. \A q \in K : q <= k => q <= l
    BY <1>3, <2>1
  <2>5. l <= l /\ ~ (l <= k)
    BY <1>3, <2>1
  <2>4. Upto(k) \in SUBSET Upto(l) /\ l \in Upto(l) /\ l \notin Upto(k)
    BY <2>3, <2>5, Zenon
  <2>2. IsFiniteSet(Upto(l))
    BY <1>2
  <2> HIDE DEF Upto
  <2> QED
    BY <2>2, <2>4, FS_Subset
<1>4. \A k, l \in K : Cardinality(Upto(k)) = Cardinality(Upto(l)) => k = l
  <2> SUFFICES ASSUME NEW k \in K, NEW l \in K, k # l
               PROVE  Cardinality(Upto(k)) # Cardinality(Upto(l))
    OBVIOUS
  <2>1. k \in Nat /\ l \in Nat
    OBVIOUS
  <2>2. k < l \/ l < k
    BY <2>1
  <2> HIDE DEF Upto
  <2> QED
    BY <1>3, <2>2
<1> DEFINE F == [k \in K |-> Cardinality(Upto(k))]
<1>5. F \in [K -> 1 .. m] /\ \A k \in K : F[k] = Cardinality(Upto(k))
  <2> HIDE DEF Upto, m
  <2> QED
    BY <1>2
<1> HIDE DEF F, Upto, m
<1>6. F \in Injection(K, 1 .. m)
  BY <1>4, <1>5 DEF Injection, IsInjective
<1>7. IsFiniteSet(1 .. m) /\ Cardinality(1 .. m) = m
  <2>1. 1 \in Int /\ m \in Int
    BY <1>1
  <2>2. IsFiniteSet(1 .. m) /\ Cardinality(1 .. m) = IF 1 > m THEN 0 ELSE m - 1 + 1
    BY <2>1, FS_Interval
  <2> QED
    BY <1>1, <2>2
<1>8. F \in Surjection(K, 1 .. m)
  <2>1. Cardinality(K) = Cardinality(1 .. m)
    BY <1>7 DEF m
  <2> QED
    BY <1>6, <1>7, <2>1, FS_Injection
<1>9. \A n \in 1 .. m : \E k \in K : F[k] = n
  BY <1>8 DEF Surjection
<1>10. \A k \in K : Rank(K, k) = Cardinality(Upto(k))
  BY DEF Rank, Upto
<1> QED
  BY <1>1, <1>2, <1>4, <1>5, <1>9, <1>10 DEF m

LEMMA RanksGrow ==
  ASSUME NEW K, NEW L, IsFiniteSet(L), K \subseteq L, NEW k
  PROVE  /\ Rank(K, k) \in Nat /\ Rank(L, k) \in Nat
         /\ Rank(K, k) <= Rank(L, k)
<1> DEFINE A == {q \in K : q <= k}
           B == {q \in L : q <= k}
<1>1. B \in SUBSET L /\ A \in SUBSET B
  OBVIOUS
<1>2. Rank(K, k) = Cardinality(A) /\ Rank(L, k) = Cardinality(B)
  BY DEF Rank
<1> HIDE DEF A, B
<1>3. IsFiniteSet(B)
  BY <1>1, FS_Subset
<1>4. IsFiniteSet(A) /\ Cardinality(A) <= Cardinality(B)
  BY <1>1, <1>3, FS_Subset
<1> QED
  BY <1>2, <1>3, <1>4, FS_CardinalityType

-----------------------------------------------------------------------------
(* What a restore makes of the tables. *)

LEMMA NaturalsReached ==
  ASSUME NEW S, 0 \in S, \A n \in Nat : n \in S => n + 1 \in S
  PROVE  Nat \subseteq S
<1> DEFINE T == Nat \ S
<1> SUFFICES ASSUME T # {} PROVE FALSE
  OBVIOUS
<1>1. PICK b \in T : \A x \in T : ~ (<<x, b>> \in OpToRel(<, Nat))
  <2>1. T \subseteq Nat
    OBVIOUS
  <2> HIDE DEF T
  <2> QED
    BY <2>1, NatLessThanWellFounded, WFMin
<1>2. b \in Nat /\ b # 0 /\ \A x \in T : ~ (x < b)
  BY <1>1 DEF OpToRel
<1>3. b - 1 \in Nat /\ b - 1 < b /\ (b - 1) + 1 = b
  BY <1>2
<1> QED
  BY <1>2, <1>3

\* A value at each of 0 .. m, each made from the one before it.
Steps(f, m, V, b, F) ==
  f \in [0 .. m -> V] /\ f[0] = b /\ \A t \in 1 .. m : f[t] = F[<<t, f[t - 1]>>]

LEMMA StepsExist ==
  ASSUME NEW m \in Nat, NEW V, NEW b \in V, NEW F \in [(1 .. m) \X V -> V]
  PROVE  \E f : Steps(f, m, V, b, F)
<1> DEFINE Good(n, f) == f[0] = b /\ \A t \in 1 .. n : f[t] = F[<<t, f[t - 1]>>]
           N == {n \in Nat : n <= m => \E f \in [0 .. m -> V] : Good(n, f)}
<1>1. 0 \in N
  <2> DEFINE f == [t \in 0 .. m |-> b]
  <2>1. f \in [0 .. m -> V] /\ f[0] = b
    OBVIOUS
  <2>2. Good(0, f)
    BY <2>1
  <2> HIDE DEF f
  <2> QED
    BY <2>1, <2>2
<1>2. ASSUME NEW n \in Nat, n \in N PROVE n + 1 \in N
  <2> SUFFICES ASSUME n + 1 <= m PROVE \E f \in [0 .. m -> V] : Good(n + 1, f)
    OBVIOUS
  <2>1. PICK f \in [0 .. m -> V] : Good(n, f)
    BY <1>2
  <2> DEFINE v == F[<<n + 1, f[n]>>]
             g == [f EXCEPT ![n + 1] = v]
  <2>2. n + 1 \in 1 .. m /\ n \in 0 .. m /\ n + 1 \in 0 .. m
    OBVIOUS
  <2>3. f[n] \in V
    BY <2>2
  <2>4. v \in V
    BY <2>2, <2>3
  <2> HIDE DEF v
  <2>5. g \in [0 .. m -> V] /\ g[n + 1] = v /\ \A t \in 0 .. n : g[t] = f[t]
    BY <2>2, <2>4
  <2> HIDE DEF g
  <2>6. g[0] = b
    BY <2>1, <2>5
  <2>7. ASSUME NEW t \in 1 .. n + 1 PROVE g[t] = F[<<t, g[t - 1]>>]
    <3>1. CASE t = n + 1
      <4>1. t - 1 = n /\ n \in 0 .. n
        BY <3>1
      <4>2. g[t - 1] = f[n]
        BY <2>5, <4>1
      <4> QED
        BY <2>5, <3>1, <4>2 DEF v
    <3>2. CASE t # n + 1
      <4>1. t \in 1 .. n /\ t \in 0 .. n /\ t - 1 \in 0 .. n
        BY <3>2
      <4>2. f[t] = F[<<t, f[t - 1]>>]
        BY <2>1, <4>1
      <4> QED
        BY <2>5, <4>1, <4>2
    <3> QED
      BY <3>1, <3>2
  <2> QED
    BY <2>5, <2>6, <2>7
<1> HIDE DEF N
<1>3. m \in N
  BY <1>1, <1>2, NaturalsReached
<1> QED
  BY <1>3 DEF N, Steps

LEMMA RowInserted ==
  ASSUME NEW so \in Result, NEW t \in Table, NEW row \in BackupRow,
         NEW end, end = InsertRow(so, t, row)
  PROVE  /\ end \in Result
         /\ IF so.ok /\ Fits(so.db, t, row)
            THEN end.ok /\ end.db = [so.db EXCEPT ![t] = @ \cup {row}]
            ELSE ~ end.ok /\ end.db = so.db
<1>1. PICK d \in Tabled, ok \in BOOLEAN : so = [db |-> d, ok |-> ok]
  BY DEF Result
<1>2. so.db = d /\ so.ok = ok
  BY <1>1
<1>3. CASE so.ok /\ Fits(so.db, t, row)
  <2>1. end = [so EXCEPT !.db[t] = @ \cup {row}]
    BY <1>3 DEF InsertRow
  <2>2. end = [db |-> [d EXCEPT ![t] = @ \cup {row}], ok |-> ok]
    BY <1>1, <2>1
  <2>3. [d EXCEPT ![t] = @ \cup {row}] \in Tabled
    BY DEF Tabled
  <2>4. end.db = [d EXCEPT ![t] = @ \cup {row}] /\ end.ok = ok
    BY <2>2
  <2> QED
    BY <1>2, <1>3, <2>2, <2>3, <2>4 DEF Result
<1>4. CASE ~ (so.ok /\ Fits(so.db, t, row))
  <2>1. end = [so EXCEPT !.ok = FALSE]
    BY <1>4 DEF InsertRow
  <2>2. end = [db |-> d, ok |-> FALSE]
    BY <1>1, <2>1
  <2>3. end.db = d /\ end.ok = FALSE
    BY <2>2
  <2> QED
    BY <1>2, <1>4, <2>2, <2>3 DEF Result
<1> QED
  BY <1>3, <1>4

\* The results after each row of a table.
Inserting(f, so, t) ==
  /\ f \in [0 .. Len(archive[t]) -> Result] /\ f[0] = so
  /\ InsertTable(so, t) = f[Len(archive[t])]
  /\ \A n \in 1 .. Len(archive[t]) : f[n] = InsertRow(f[n - 1], t, archive[t][n])

LEMMA InsertingExists ==
  ASSUME NEW so \in Result, NEW t \in Table, archive[t] \in Seq(BackupRow)
  PROVE  \E f : Inserting(f, so, t)
<1> DEFINE m == Len(archive[t])
           G == [p \in (1 .. m) \X Result |-> InsertRow(p[2], t, archive[t][p[1]])]
           body(f) == [n \in 0 .. m |-> IF n = 0 THEN so ELSE InsertRow(f[n - 1], t, archive[t][n])]
<1>0. m \in Nat /\ \A n \in 1 .. m : archive[t][n] \in BackupRow
  BY LenProperties, ElementOfSeq
<1>1. G \in [(1 .. m) \X Result -> Result]
  <2> SUFFICES ASSUME NEW n \in 1 .. m, NEW q \in Result
               PROVE  InsertRow(q, t, archive[t][n]) \in Result
    OBVIOUS
  <2> QED
    BY <1>0, RowInserted
<1>2. \A n \in 1 .. m, q \in Result : G[<<n, q>>] = InsertRow(q, t, archive[t][n])
  OBVIOUS
<1> DEFINE C == CHOOSE g : g = body(g)
<1>3. InsertTable(so, t) = C[m]
  BY DEF InsertTable
<1> HIDE DEF G, m
<1>4. PICK f : Steps(f, m, Result, so, G)
  BY <1>0, <1>1, StepsExist
<1>5. /\ f \in [0 .. m -> Result] /\ f[0] = so
      /\ \A n \in 1 .. m : f[n] = G[<<n, f[n - 1]>>]
  BY <1>4 DEF Steps
<1>6. \A n \in 1 .. m : f[n - 1] \in Result /\ f[n] = InsertRow(f[n - 1], t, archive[t][n])
  <2> SUFFICES ASSUME NEW n \in 1 .. m
               PROVE  /\ f[n - 1] \in Result
                      /\ f[n] = InsertRow(f[n - 1], t, archive[t][n])
    OBVIOUS
  <2>1. n - 1 \in 0 .. m
    BY <1>0
  <2>2. f[n - 1] \in Result
    BY <1>5, <2>1
  <2> QED
    BY <1>2, <1>5, <2>2
<1>7. f = body(f)
  <2>1. ASSUME NEW n \in 0 .. m PROVE f[n] = body(f)[n]
    <3>1. CASE n = 0
      BY <1>5, <3>1
    <3>2. CASE n # 0
      <4>1. n \in 1 .. m
        BY <1>0, <3>2
      <4> QED
        BY <1>6, <3>2, <4>1
    <3> QED
      BY <3>1, <3>2
  <2> QED
    BY <1>0, <1>5, <2>1
<1>8. C = body(C)
  <2> HIDE DEF body
  <2> QED
    BY <1>7
<1> HIDE DEF C
<1>9. C[0] = so
  <2>1. 0 \in 0 .. m
    BY <1>0
  <2> QED
    BY <1>8, <2>1
<1>10. \A n \in 1 .. m : C[n] = InsertRow(C[n - 1], t, archive[t][n])
  <2> SUFFICES ASSUME NEW n \in 1 .. m PROVE C[n] = InsertRow(C[n - 1], t, archive[t][n])
    OBVIOUS
  <2>1. n \in 0 .. m /\ n # 0
    BY <1>0
  <2> QED
    BY <1>8, <2>1
<1> DEFINE N == {n \in Nat : n <= m => C[n] = f[n]}
<1>11. 0 \in N
  BY <1>5, <1>9
<1>12. ASSUME NEW n \in Nat, n \in N PROVE n + 1 \in N
  <2> SUFFICES ASSUME n + 1 <= m PROVE C[n + 1] = f[n + 1]
    OBVIOUS
  <2>1. n + 1 \in 1 .. m /\ (n + 1) - 1 = n /\ C[n] = f[n]
    BY <1>0, <1>12
  <2> QED
    BY <1>6, <1>10, <2>1
<1> HIDE DEF N
<1>13. m \in N
  BY <1>0, <1>11, <1>12, NaturalsReached
<1>14. C[m] = f[m]
  BY <1>0, <1>13 DEF N
<1>15. Inserting(f, so, t)
  BY <1>3, <1>5, <1>6, <1>14 DEF Inserting, m
<1> QED
  BY <1>15

\* The rows of a table up to the n-th that is written.
First(t, n) == {archive[t][i] : i \in 1 .. n}

\* What a table gains by the first n of its rows.
Gained(so, end, t, n) ==
  /\ \A u \in Table : u # t => end.db[u] = so.db[u]
  /\ end.ok =>
       /\ so.ok /\ end.db[t] = so.db[t] \cup First(t, n)
       /\ OneByKey(so.db[t]) => OneByKey(end.db[t])
       /\ t \in References => \A r \in First(t, n) : r.of \in Tracked(so.db)
  /\ /\ so.ok /\ so.db[t] = {} /\ OnceByKey(archive[t])
     /\ t \in References => \A r \in Written(t) : r.of \in Tracked(so.db)
     => end.ok

LEMMA GainedNext ==
  ASSUME NEW so \in Result, NEW mid \in Result, NEW end, NEW t \in Table,
         archive[t] \in Seq(BackupRow), NEW n \in Nat, n + 1 \in 1 .. Len(archive[t]),
         Gained(so, mid, t, n), end = InsertRow(mid, t, archive[t][n + 1])
  PROVE  Gained(so, end, t, n + 1)
<1> DEFINE row == archive[t][n + 1]
<1>1. /\ Len(archive[t]) \in Nat /\ DOMAIN archive[t] = 1 .. Len(archive[t])
      /\ \A i \in 1 .. Len(archive[t]) : archive[t][i] \in BackupRow
  BY LenProperties, ElementOfSeq
<1>2. row \in BackupRow /\ row \in Written(t)
  BY <1>1 DEF Written, ToSet
<1>3. First(t, n + 1) = First(t, n) \cup {row}
  <2>1. \A i : i \in 1 .. n + 1 <=> i \in 1 .. n \/ i = n + 1
    OBVIOUS
  <2> QED
    BY <2>1 DEF First
<1>4. \A r \in First(t, n) : \E i \in 1 .. Len(archive[t]) : i # n + 1 /\ archive[t][i] = r
  <2>1. \A i \in 1 .. n : i \in 1 .. Len(archive[t]) /\ i # n + 1
    BY <1>1
  <2> QED
    BY <2>1 DEF First
<1>5. end = InsertRow(mid, t, row)
  OBVIOUS
<1> HIDE DEF row
<1>6. /\ end \in Result
      /\ IF mid.ok /\ Fits(mid.db, t, row)
         THEN end.ok /\ end.db = [mid.db EXCEPT ![t] = @ \cup {row}]
         ELSE ~ end.ok /\ end.db = mid.db
  BY <1>2, <1>5, RowInserted
<1>7. mid.db \in Tabled /\ so.db \in Tabled
  BY DEF Result
<1>8. \A u \in Table : u # t => end.db[u] = mid.db[u]
  BY <1>6, <1>7 DEF Tabled
<1>9. t \in References => t # "tracked_addresses" /\ Tracked(mid.db) = Tracked(so.db)
  BY TableIs DEF Gained, Tracked
<1>10. ASSUME end.ok
       PROVE  /\ mid.ok /\ Fits(mid.db, t, row)
              /\ end.db[t] = mid.db[t] \cup {row}
  BY <1>6, <1>7, <1>10 DEF Tabled
<1>11. ASSUME end.ok, OneByKey(so.db[t]) PROVE OneByKey(end.db[t])
  <2>1. OneByKey(mid.db[t]) /\ end.db[t] = mid.db[t] \cup {row}
    BY <1>10, <1>11 DEF Gained
  <2>2. \A r \in mid.db[t] : r.key # row.key
    BY <1>10, <1>11 DEF Fits
  <2> QED
    BY <2>1, <2>2 DEF OneByKey
<1>12. ASSUME end.ok, t \in References PROVE \A r \in First(t, n + 1) : r.of \in Tracked(so.db)
  BY <1>3, <1>9, <1>10, <1>12 DEF Gained, Fits
<1>13. ASSUME so.ok, so.db[t] = {}, OnceByKey(archive[t]),
              t \in References => \A r \in Written(t) : r.of \in Tracked(so.db)
       PROVE  end.ok
  <2>1. mid.ok /\ mid.db[t] = First(t, n)
    BY <1>13 DEF Gained
  <2>2. \A r \in mid.db[t] : r.key # row.key
    BY <1>1, <1>4, <1>13, <2>1 DEF OnceByKey, row
  <2>3. t \in References => row.of \in Tracked(mid.db)
    BY <1>2, <1>9, <1>13
  <2> QED
    BY <1>6, <2>1, <2>2, <2>3 DEF Fits
<1> QED
  BY <1>3, <1>8, <1>10, <1>11, <1>12, <1>13 DEF Gained

LEMMA TableInserted ==
  ASSUME NEW so \in Result, NEW t \in Table, archive[t] \in Seq(BackupRow),
         NEW end, end = InsertTable(so, t)
  PROVE  end \in Result /\ Gained(so, end, t, Len(archive[t]))
<1> DEFINE m == Len(archive[t])
<1>0. m \in Nat
  BY LenProperties
<1>1. PICK f : Inserting(f, so, t)
  BY InsertingExists
<1>2. /\ f \in [0 .. m -> Result] /\ f[0] = so /\ end = f[m]
      /\ \A n \in 1 .. m : f[n] = InsertRow(f[n - 1], t, archive[t][n])
  BY <1>1 DEF Inserting
<1> HIDE DEF m
<1> DEFINE N == {n \in Nat : n <= m => Gained(so, f[n], t, n)}
<1>3. 0 \in N
  <2>1. First(t, 0) = {}
    BY DEF First
  <2> QED
    BY <1>2, <2>1 DEF Gained
<1>4. ASSUME NEW n \in Nat, n \in N PROVE n + 1 \in N
  <2> SUFFICES ASSUME n + 1 <= m PROVE Gained(so, f[n + 1], t, n + 1)
    OBVIOUS
  <2>1. n \in 0 .. m /\ n + 1 \in 1 .. m /\ (n + 1) - 1 = n /\ Gained(so, f[n], t, n)
    BY <1>0, <1>4
  <2>2. f[n] \in Result /\ f[n + 1] = InsertRow(f[n], t, archive[t][n + 1])
    BY <1>2, <2>1
  <2>3. n + 1 \in 1 .. Len(archive[t])
    BY <2>1 DEF m
  <2> QED
    BY <2>1, <2>2, <2>3, GainedNext
<1> HIDE DEF N
<1>5. m \in N
  BY <1>0, <1>3, <1>4, NaturalsReached
<1>6. Gained(so, f[m], t, m) /\ f[m] \in Result
  BY <1>0, <1>2, <1>5 DEF N
<1> QED
  BY <1>2, <1>6 DEF m

\* Whatever is restored refers to what is restored.
WellWritten(t) ==
  t \in References => \A r \in Written(t) : r.of \in Ids(Written("tracked_addresses"))

\* The tables after the first n of them.
Restoring(groups, so, n) ==
  /\ \A i \in 1 .. 4 : Listed[i] \notin TablesOf(groups) => so.db[Listed[i]] = db[Listed[i]]
  /\ \A i \in 1 .. 4 : Listed[i] \in TablesOf(groups) /\ i > n => so.db[Listed[i]] = {}
  /\ so.ok => \A i \in 1 .. 4 : Listed[i] \in TablesOf(groups) /\ i <= n =>
       /\ so.db[Listed[i]] = Written(Listed[i]) /\ OneByKey(Written(Listed[i]))
       /\ WellWritten(Listed[i])
  /\ (\A t \in TablesOf(groups) : OnceByKey(archive[t]) /\ WellWritten(t)) => so.ok

InsertChosen(groups, so, t) == IF t \in TablesOf(groups) THEN InsertTable(so, t) ELSE so

LEMMA RestoringNext ==
  ASSUME NEW groups \in Chosen, archive \in [Table -> Seq(BackupRow)],
         NEW so \in Result, NEW n \in 0 .. 3, Restoring(groups, so, n),
         NEW end, end = InsertChosen(groups, so, Listed[n + 1])
  PROVE  end \in Result /\ Restoring(groups, end, n + 1)
<1> DEFINE t == Listed[n + 1]
<1>1. n + 1 \in 1 .. 4 /\ t \in Table /\ \A i \in 1 .. 4 : Listed[i] \in Table
  <2>1. n = 0 \/ n = 1 \/ n = 2 \/ n = 3
    OBVIOUS
  <2>2. \A i \in 1 .. 4 : i = 1 \/ i = 2 \/ i = 3 \/ i = 4
    OBVIOUS
  <2> QED
    BY <2>1, <2>2, ListedAre, TableIs
<1>2. \A i, j \in 1 .. 4 : Listed[i] = Listed[j] => i = j
  <2>1. \A i \in 1 .. 4 : i = 1 \/ i = 2 \/ i = 3 \/ i = 4
    OBVIOUS
  <2> QED
    BY <2>1, ListedAre
<1>3. \A i \in 1 .. 4 : (i > n + 1 => i > n /\ i # n + 1) /\ (i <= n + 1 => i <= n \/ i = n + 1)
  OBVIOUS
<1>4. CASE t \notin TablesOf(groups)
  <2>1. end = so
    BY <1>4 DEF InsertChosen
  <2>2. \A i \in 1 .. 4 : Listed[i] \in TablesOf(groups) => i # n + 1
    BY <1>4
  <2> QED
    BY <1>3, <2>1, <2>2 DEF Restoring
<1>5. CASE t \in TablesOf(groups)
  <2>1. end = InsertTable(so, t)
    BY <1>5 DEF InsertChosen
  <2> HIDE DEF t
  <2>2. archive[t] \in Seq(BackupRow) /\ DOMAIN archive[t] = 1 .. Len(archive[t])
    BY <1>1, LenProperties
  <2>3. end \in Result /\ Gained(so, end, t, Len(archive[t]))
    BY <1>1, <2>1, <2>2, TableInserted
  <2>4. First(t, Len(archive[t])) = Written(t)
    BY <2>2 DEF First, Written, ToSet
  <2>5. so.db[t] = {}
    <3>1. n + 1 > n
      OBVIOUS
    <3> QED
      BY <1>1, <1>5, <3>1 DEF Restoring, t
  <2>6. \A i \in 1 .. 4 : i # n + 1 => end.db[Listed[i]] = so.db[Listed[i]]
    BY <1>1, <1>2, <2>3 DEF Gained, t
  <2>7. t \in References => Listed[1] = "tracked_addresses" /\ 1 <= n
                            /\ Listed[1] \in TablesOf(groups)
    <3> SUFFICES ASSUME t \in References PROVE 1 <= n /\ Listed[1] \in TablesOf(groups)
      BY ListedAre
    <3>1. n # 0
      BY ListedAre, TableIs DEF t
    <3>2. "addresses" \in groups
      BY <1>5, TablesOfAre, TableIs
    <3> QED
      BY <3>1, <3>2, TablesOfAre, ListedAre
  <2>8. so.ok /\ t \in References => Tracked(so.db) = Ids(Written("tracked_addresses"))
    BY <2>7 DEF Restoring, Tracked
  <2>9. ASSUME end.ok
        PROVE  so.ok /\ end.db[t] = Written(t) /\ OneByKey(Written(t)) /\ WellWritten(t)
    <3>1. so.ok /\ end.db[t] = Written(t)
      BY <2>3, <2>4, <2>5, <2>9 DEF Gained
    <3>2. OneByKey(Written(t))
      BY <2>3, <2>5, <2>9, <3>1 DEF Gained, OneByKey
    <3>3. WellWritten(t)
      BY <2>3, <2>4, <2>8, <2>9, <3>1 DEF Gained, WellWritten
    <3> QED
      BY <3>1, <3>2, <3>3
  <2>10. ASSUME \A u \in TablesOf(groups) : OnceByKey(archive[u]) /\ WellWritten(u)
         PROVE  end.ok
    <3>1. so.ok
      BY <2>10 DEF Restoring
    <3>2. OnceByKey(archive[t]) /\ WellWritten(t)
      BY <1>5, <2>10
    <3> QED
      BY <2>3, <2>5, <2>8, <3>1, <3>2 DEF Gained, WellWritten
  <2>11. \A i \in 1 .. 4 : Listed[i] \notin TablesOf(groups) => i # n + 1
    BY <1>5 DEF t
  <2>12. Listed[n + 1] = t
    BY DEF t
  <2>13. \A i \in 1 .. 4 : Listed[i] \notin TablesOf(groups) => end.db[Listed[i]] = db[Listed[i]]
    BY <2>6, <2>11 DEF Restoring
  <2>14. \A i \in 1 .. 4 : Listed[i] \in TablesOf(groups) /\ i > n + 1 => end.db[Listed[i]] = {}
    BY <1>3, <2>6 DEF Restoring
  <2>15. end.ok => \A i \in 1 .. 4 : Listed[i] \in TablesOf(groups) /\ i <= n + 1 =>
           /\ end.db[Listed[i]] = Written(Listed[i]) /\ OneByKey(Written(Listed[i]))
           /\ WellWritten(Listed[i])
    <3> SUFFICES ASSUME end.ok, NEW i \in 1 .. 4, Listed[i] \in TablesOf(groups), i <= n + 1
                 PROVE  /\ end.db[Listed[i]] = Written(Listed[i]) /\ OneByKey(Written(Listed[i]))
                        /\ WellWritten(Listed[i])
      OBVIOUS
    <3>1. CASE i = n + 1
      BY <2>9, <2>12, <3>1
    <3>2. CASE i # n + 1
      BY <1>3, <2>6, <2>9, <3>2 DEF Restoring
    <3> QED
      BY <3>1, <3>2
  <2> QED
    BY <2>3, <2>10, <2>13, <2>14, <2>15 DEF Restoring
<1> QED
  BY <1>4, <1>5

LEMMA RestoredIs ==
  ASSUME NEW groups \in Chosen, db \in Tabled, archive \in [Table -> Seq(BackupRow)],
         NEW result, result = Restored(groups)
  PROVE  result \in Result /\ Restoring(groups, result, 4)
<1> DEFINE r0 == [db |-> Emptied(groups), ok |-> TRUE]
           r1 == InsertChosen(groups, r0, Listed[1])
           r2 == InsertChosen(groups, r1, Listed[2])
           r3 == InsertChosen(groups, r2, Listed[3])
           r4 == InsertChosen(groups, r3, Listed[4])
           body(f) == [n \in 0 .. 4 |->
                         IF n = 0 THEN r0
                         ELSE IF Listed[n] \in TablesOf(groups)
                              THEN InsertTable(f[n - 1], Listed[n])
                              ELSE f[n - 1]]
           g == [n \in 0 .. 4 |-> IF n = 0 THEN r0 ELSE IF n = 1 THEN r1
                                  ELSE IF n = 2 THEN r2 ELSE IF n = 3 THEN r3 ELSE r4]
           C == CHOOSE f : f = body(f)
<1>1. \A i \in 1 .. 4 : Listed[i] \in Table
  <2>1. \A i \in 1 .. 4 : i = 1 \/ i = 2 \/ i = 3 \/ i = 4
    OBVIOUS
  <2> QED
    BY <2>1, ListedAre, TableIs
<1>2. r0 \in Result /\ Restoring(groups, r0, 0)
  <2>1. /\ Emptied(groups) \in Tabled
        /\ \A t \in Table : Emptied(groups)[t] = IF t \in TablesOf(groups) THEN {} ELSE db[t]
    BY DEF Emptied, Tabled
  <2>2. r0.db = Emptied(groups) /\ r0.ok = TRUE
    OBVIOUS
  <2>3. \A i \in 1 .. 4 : ~ (i <= 0)
    OBVIOUS
  <2>4. r0 \in Result
    BY <2>1 DEF Result
  <2> HIDE DEF r0
  <2> QED
    BY <1>1, <2>1, <2>2, <2>3, <2>4 DEF Restoring
<1>3. result = C[4]
  BY ListedAre DEF Restored
<1> HIDE DEF r0
<1>4. r1 \in Result /\ Restoring(groups, r1, 1)
  <2>1. 0 \in 0 .. 3 /\ 0 + 1 = 1
    OBVIOUS
  <2> QED
    BY <1>2, <2>1, RestoringNext
<1> HIDE DEF r1
<1>5. r2 \in Result /\ Restoring(groups, r2, 2)
  <2>1. 1 \in 0 .. 3 /\ 1 + 1 = 2
    OBVIOUS
  <2> QED
    BY <1>4, <2>1, RestoringNext
<1> HIDE DEF r2
<1>6. r3 \in Result /\ Restoring(groups, r3, 3)
  <2>1. 2 \in 0 .. 3 /\ 2 + 1 = 3
    OBVIOUS
  <2> QED
    BY <1>5, <2>1, RestoringNext
<1> HIDE DEF r3
<1>7. r4 \in Result /\ Restoring(groups, r4, 4)
  <2>1. 3 \in 0 .. 3 /\ 3 + 1 = 4
    OBVIOUS
  <2> QED
    BY <1>6, <2>1, RestoringNext
<1>8. /\ r1 = InsertChosen(groups, r0, Listed[1]) /\ r2 = InsertChosen(groups, r1, Listed[2])
      /\ r3 = InsertChosen(groups, r2, Listed[3]) /\ r4 = InsertChosen(groups, r3, Listed[4])
  BY DEF r1, r2, r3
<1> HIDE DEF r4
<1>9. g = body(g)
  <2>1. g[0] = r0 /\ g[1] = r1 /\ g[2] = r2 /\ g[3] = r3 /\ g[4] = r4
    OBVIOUS
  <2>2. body(g)[0] = r0
    OBVIOUS
  <2>3. /\ body(g)[1] = InsertChosen(groups, g[0], Listed[1])
        /\ body(g)[2] = InsertChosen(groups, g[1], Listed[2])
        /\ body(g)[3] = InsertChosen(groups, g[2], Listed[3])
        /\ body(g)[4] = InsertChosen(groups, g[3], Listed[4])
    <3> HIDE DEF g
    <3> QED
      BY DEF InsertChosen
  <2>4. \A n \in 0 .. 4 : n = 0 \/ n = 1 \/ n = 2 \/ n = 3 \/ n = 4
    OBVIOUS
  <2>5. \A n \in 0 .. 4 : g[n] = body(g)[n]
    <3> HIDE DEF g, body
    <3> QED
      BY <1>8, <2>1, <2>2, <2>3, <2>4
  <2> QED
    BY <2>5
<1>10. C = body(C)
  <2> HIDE DEF body, g
  <2> QED
    BY <1>9
<1> HIDE DEF C
<1>11. C[0] = r0
  BY <1>10
<1>12. /\ C[1] = InsertChosen(groups, C[0], Listed[1])
       /\ C[2] = InsertChosen(groups, C[1], Listed[2])
       /\ C[3] = InsertChosen(groups, C[2], Listed[3])
       /\ C[4] = InsertChosen(groups, C[3], Listed[4])
  BY <1>10 DEF InsertChosen
<1> HIDE DEF body
<1>13. C[4] = r4
  BY <1>8, <1>11, <1>12
<1> QED
  BY <1>3, <1>7, <1>13

-----------------------------------------------------------------------------
(* The inductive invariant. *)

\* Whatever is said to be imported is there.
Claims(d) == \A c \in d["address_sync_state"] : 1 .. c.number \subseteq HistoryOf(d, c.of)

TablesTrue ==
  /\ TablesTyped(db)
  /\ ~ shrunk /\ ~ crossed => Claims(db)

\* Nothing is known of an address nobody has added yet.
UnusedTrue ==
  /\ unused \subseteq Nat \ {0}
  /\ \A a \in unused :
       /\ a \notin Tracked(db) /\ a \notin Ids(Written("tracked_addresses"))
       /\ \A s \in syncs : s.address # a

SyncsTrue ==
  /\ \A s \in syncs : s.address \in Nat /\ s.cursor \in Nat
  /\ \A s, z \in syncs : s.address = z.address => s = z
  /\ ~ crossed => \A s \in syncs : s.address \in Tracked(db) => s.cursor = Cursor(db, s.address)

StagesTrue ==
  /\ place \in [table : 0 .. 5, offset : Nat]
  /\ file \in {"none", "partial", "whole"}
  /\ Reading => place.table # 0 /\ file = "partial"
  /\ file = "none" => ~ shrunk
  /\ status = "completed" => file = "whole"
  /\ downloaded => file = "whole"
  /\ ~ downloaded => ~ crossed
  /\ quiet \in BOOLEAN /\ shrunk \in BOOLEAN /\ crossed \in BOOLEAN

\* The tables an archive is through with, and the one it is at.
ReadYet(t) == file = "whole" \/ \E n \in 1 .. 4 : n < place.table /\ Listed[n] = t
AtTable(t) == place.table \in 1 .. 4 /\ Listed[place.table] = t

ArchiveTyped ==
  /\ archive \in [Table -> Seq(BackupRow)]
  /\ \A r \in Written("tracked_addresses") : r.of = 0 /\ r.key # 0
  /\ \A r \in Written("address_sync_state") : r.key = r.of
  /\ Reading => \A t \in Table : ~ ReadYet(t) /\ ~ AtTable(t) => archive[t] = <<>>

\* The attempt that writes the file, or has written it.
Begun == Reading \/ file = "whole"

\* Of rows that stay, an id is written or still ahead.
Ahead(t, k) == AtTable(t) => k \in Ids(Written(t)) \/ place.offset < PlaceOf(t, k)
IdsKept ==
  Begun /\ ~ shrunk => \A t \in Table :
    /\ Reading => \A k \in Ids(before[t]) : k \in Ids(db[t]) /\ Ahead(t, k)
    /\ ReadYet(t) => Ids(before[t]) \subseteq Ids(Written(t))

\* What a written cursor speaks for is written, or still ahead.
Imported(rows, of, number) == \E r \in rows : r.of = of /\ r.number = number
RowAhead(t, r) == AtTable(t) => r \in Written(t) \/ place.offset < PlaceOf(t, r.key)
ClaimsKept ==
  Begun /\ ~ shrunk => \A c \in Written("address_sync_state") : \A i \in 1 .. c.number :
    /\ Reading => Imported({r \in db["chain_transactions"] : RowAhead("chain_transactions", r)},
                           c.of, i)
    /\ ReadYet("chain_transactions") => Imported(Written("chain_transactions"), c.of, i)

QuietKept ==
  Begun /\ quiet =>
    /\ TablesTyped(before) /\ (Reading => db = before)
    /\ \A t \in Table :
         /\ OnceByKey(archive[t])
         /\ ReadYet(t) => Written(t) = before[t]
         /\ Reading /\ AtTable(t) =>
              Written(t) = {r \in before[t] : PlaceOf(t, r.key) <= place.offset}

BackupInv ==
  /\ TablesTrue /\ UnusedTrue /\ SyncsTrue /\ StagesTrue /\ ArchiveTyped
  /\ IdsKept /\ ClaimsKept /\ QuietKept

LEMMA BackupInitInv == BackupInit => BackupInv
<1> SUFFICES ASSUME BackupInit PROVE BackupInv
  OBVIOUS
<1>1. PICK first \in Address, k \in Key, synced \in BOOLEAN :
        /\ db = [Empty EXCEPT
                   !["tracked_addresses"] = {Row(first, 0, 0)},
                   !["address_sync_state"] = IF synced THEN {Row(first, first, 1)} ELSE {},
                   !["chain_transactions"] = IF synced THEN {Row(k, first, 1)} ELSE {}]
        /\ unused = Address \ {first}
  BY DEF BackupInit
<1>2. first \in Nat \ {0} /\ k \in Nat /\ Address \subseteq Nat \ {0}
  BY BackupAssumptions
<1>3. /\ syncs = {} /\ place = Nowhere /\ archive = [t \in Table |-> <<>>] /\ file = "none"
      /\ status = "none" /\ downloaded = FALSE /\ quiet = TRUE /\ shrunk = FALSE
      /\ crossed = FALSE
  BY DEF BackupInit
<1>4. Row(first, 0, 0) \in BackupRow /\ Row(first, first, 1) \in BackupRow
      /\ Row(k, first, 1) \in BackupRow
  BY <1>2 DEF Row, BackupRow
<1>5. /\ Row(first, 0, 0).key = first /\ Row(first, 0, 0).of = 0
      /\ Row(first, first, 1).key = first /\ Row(first, first, 1).of = first
      /\ Row(first, first, 1).number = 1
      /\ Row(k, first, 1).of = first /\ Row(k, first, 1).number = 1
  BY DEF Row
<1> DEFINE T == {Row(first, 0, 0)}
           C == IF synced THEN {Row(first, first, 1)} ELSE {}
           H == IF synced THEN {Row(k, first, 1)} ELSE {}
<1>6. /\ db \in [Table -> {T, C, H, {}}]
      /\ db["tracked_addresses"] = T /\ db["address_sync_state"] = C
      /\ db["chain_transactions"] = H /\ db["portfolio_snapshots"] = {}
  <2>1. Empty \in [Table -> {{}}]
    BY DEF Empty
  <2> QED
    BY <1>1, <2>1, TableIs
<1>7. /\ T \in SUBSET BackupRow /\ C \in SUBSET BackupRow /\ H \in SUBSET BackupRow
      /\ OneByKey(T) /\ OneByKey(C) /\ OneByKey(H) /\ OneByKey({})
  BY <1>4 DEF OneByKey
<1>8. IsFiniteSet(Ids(T)) /\ IsFiniteSet(Ids(C)) /\ IsFiniteSet(Ids(H)) /\ IsFiniteSet(Ids({}))
  <2>1. \A x : IsFiniteSet({x})
    BY FS_Singleton
  <2>2. IsFiniteSet({})
    BY FS_EmptySet
  <2>3. Ids({}) = {} /\ Ids(T) = {Row(first, 0, 0).key}
    BY DEF Ids
  <2>4. Ids(C) = IF synced THEN {Row(first, first, 1).key} ELSE {}
    BY DEF Ids
  <2>5. Ids(H) = IF synced THEN {Row(k, first, 1).key} ELSE {}
    BY DEF Ids
  <2> QED
    BY <2>1, <2>2, <2>3, <2>4, <2>5
<1>9. Tracked(db) = {first}
  BY <1>5, <1>6 DEF Tracked, Ids
<1>10. \A c \in C : synced /\ c = Row(first, first, 1)
  OBVIOUS
<1>11. \A h \in H : h.of = first
  BY <1>5
<1>12. synced => Row(k, first, 1) \in H
  OBVIOUS
<1>13. \A r \in T : r = Row(first, 0, 0)
  OBVIOUS
<1> HIDE DEF T, C, H
<1>14. TablesTyped(db)
  <2>1. db \in Tabled /\ \A t \in Table : IsFiniteSet(Ids(db[t])) /\ OneByKey(db[t])
    BY <1>6, <1>7, <1>8 DEF Tabled
  <2>2. \A r \in db["tracked_addresses"] : r.of = 0 /\ r.key # 0
    BY <1>2, <1>5, <1>6, <1>13
  <2>3. \A r \in db["address_sync_state"] : r.key = r.of /\ r.of \in Tracked(db)
    BY <1>5, <1>6, <1>9, <1>10
  <2>4. \A r \in db["chain_transactions"] : r.of \in Tracked(db)
    BY <1>6, <1>9, <1>11
  <2> QED
    BY <2>1, <2>2, <2>3, <2>4, TableIs DEF TablesTyped
<1>15. Claims(db)
  <2> SUFFICES ASSUME NEW c \in C PROVE 1 .. c.number \subseteq HistoryOf(db, c.of)
    BY <1>6 DEF Claims
  <2>1. c.number = 1 /\ c.of = first /\ Row(k, first, 1) \in db["chain_transactions"]
    BY <1>5, <1>6, <1>10, <1>12
  <2>2. 1 \in HistoryOf(db, first)
    BY <1>5, <2>1 DEF HistoryOf
  <2> QED
    BY <2>1, <2>2
<1>16. \A t \in Table : archive[t] = <<>> /\ Written(t) = {}
  BY <1>3 DEF Written, ToSet
<1>17. ~ Reading /\ ~ Begun /\ place.table = 0 /\ place.offset = 0
  BY <1>3 DEF Reading, Begun, Nowhere
<1>18. TablesTrue
  BY <1>14, <1>15 DEF TablesTrue
<1>19. UnusedTrue
  BY <1>1, <1>2, <1>3, <1>9, <1>16, TableIs DEF UnusedTrue, Ids
<1>20. SyncsTrue
  BY <1>3 DEF SyncsTrue
<1>21. StagesTrue
  <2>1. place \in [table : 0 .. 5, offset : Nat]
    BY <1>3 DEF Nowhere
  <2> QED
    BY <1>3, <1>17, <2>1, Zenon DEF StagesTrue
<1>22. ArchiveTyped
  <2>1. archive \in [Table -> Seq(BackupRow)]
    BY <1>3
  <2> QED
    BY <1>16, <1>17, <2>1, TableIs DEF ArchiveTyped
<1> QED
  BY <1>17, <1>18, <1>19, <1>20, <1>21, <1>22 DEF BackupInv, IdsKept, ClaimsKept, QuietKept

-----------------------------------------------------------------------------
(* What keeps it. *)

\* Whatever leaves the tables and the file as they are, and goes on or stops reading.
LEMMA AsideStep ==
  ASSUME BackupInv,
         UNCHANGED <<db, unused, file, archive, before, quiet, shrunk, crossed>>,
         place' = place \/ place' = Nowhere, syncs' \subseteq syncs,
         status' = "completed" => file = "whole",
         downloaded' => file = "whole", downloaded => downloaded'
  PROVE  BackupInv'
<1>1. TablesTrue'
  BY DEF BackupInv, TablesTrue
<1>2. /\ Written("tracked_addresses")' = Written("tracked_addresses")
      /\ \A t : Written(t)' = Written(t) /\ \A k : PlaceOf(t, k)' = PlaceOf(t, k)
  BY DEF Written, PlaceOf
<1>3. UnusedTrue'
  BY <1>2 DEF BackupInv, UnusedTrue
<1>4. SyncsTrue'
  BY DEF BackupInv, SyncsTrue
<1>5. Reading' => Reading /\ place' = place
  BY DEF Reading, Nowhere
<1>6. StagesTrue'
  BY <1>5 DEF BackupInv, StagesTrue, Nowhere
<1>7. Reading' => \A t : ReadYet(t)' = ReadYet(t) /\ AtTable(t)' = AtTable(t)
  BY <1>5 DEF ReadYet, AtTable
<1>8. Begun' => Begun /\ \A t : ReadYet(t)' => ReadYet(t)
  BY <1>5 DEF Begun, ReadYet
<1>9. ArchiveTyped'
  BY <1>2, <1>5, <1>7 DEF BackupInv, ArchiveTyped
<1>10. IdsKept'
  <2>1. Reading' => \A t, k : Ahead(t, k) => Ahead(t, k)'
    BY <1>2, <1>5, <1>7 DEF Ahead
  <2> QED
    BY <1>2, <1>5, <1>8, <2>1 DEF BackupInv, IdsKept
<1>11. ClaimsKept'
  <2>1. Reading' => \A t, r : RowAhead(t, r) => RowAhead(t, r)'
    BY <1>2, <1>5, <1>7 DEF RowAhead
  <2> QED
    BY <1>2, <1>5, <1>8, <2>1 DEF BackupInv, ClaimsKept, Imported
<1>12. QuietKept'
  BY <1>2, <1>5, <1>7, <1>8 DEF BackupInv, QuietKept
<1> QED
  BY <1>1, <1>3, <1>4, <1>6, <1>9, <1>10, <1>11, <1>12 DEF BackupInv

\* A change of the tables that is noted, and takes no id away unless that is noted too.
LEMMA ChangesKeep ==
  ASSUME BackupInv, UNCHANGED <<place, file, archive, before, crossed, downloaded, status>>,
         quiet' = (quiet /\ ~ Reading),
         \/ shrunk' = (shrunk \/ Reading)
         \/ /\ shrunk' = shrunk /\ \A t \in Table : IsFiniteSet(Ids(db'[t]))
            /\ \A t \in Table : Ids(db[t]) \subseteq Ids(db'[t])
            /\ db["chain_transactions"] \subseteq db'["chain_transactions"]
  PROVE  StagesTrue' /\ ArchiveTyped' /\ IdsKept' /\ ClaimsKept' /\ QuietKept'
<1>1. /\ Reading' = Reading /\ Begun' = Begun
      /\ \A t : Written(t)' = Written(t)
      /\ \A t : ReadYet(t)' = ReadYet(t) /\ AtTable(t)' = AtTable(t)
  BY DEF Reading, Begun, Written, ReadYet, AtTable
<1>2. StagesTrue'
  <2>1. StagesTrue
    BY DEF BackupInv
  <2>2. shrunk' \in BOOLEAN /\ quiet' \in BOOLEAN
    <3>1. shrunk \in BOOLEAN /\ quiet \in BOOLEAN /\ Reading \in BOOLEAN
      BY <2>1 DEF StagesTrue, Reading
    <3> QED
      BY <3>1
  <2>3. file = "none" => ~ shrunk'
    BY <2>1 DEF StagesTrue
  <2> QED
    BY <1>1, <2>1, <2>2, <2>3 DEF StagesTrue
<1>3. ArchiveTyped'
  <2>1. ArchiveTyped /\ Written("tracked_addresses")' = Written("tracked_addresses")
        /\ Written("address_sync_state")' = Written("address_sync_state")
    BY <1>1 DEF BackupInv
  <2> QED
    BY <1>1, <2>1 DEF ArchiveTyped
<1>4. QuietKept'
  BY <1>1 DEF BackupInv, QuietKept
<1>5. ~ shrunk' => ~ shrunk
  OBVIOUS
<1>6. ASSUME Reading, ~ shrunk', NEW t \in Table, NEW k \in Ids(db[t])
      PROVE  k \in Ids(db'[t]) /\ PlaceOf(t, k) <= PlaceOf(t, k)'
             /\ PlaceOf(t, k) \in Nat /\ PlaceOf(t, k)' \in Nat
  <2>1. Ids(db[t]) \subseteq Ids(db'[t]) /\ IsFiniteSet(Ids(db'[t]))
    BY <1>6
  <2>2. PlaceOf(t, k) = Rank(Ids(db[t]), k) /\ PlaceOf(t, k)' = Rank(Ids(db'[t]), k)
    BY DEF PlaceOf, Rank
  <2> QED
    BY <1>6, <2>1, <2>2, RanksGrow
<1>7. place.offset \in Nat
  BY DEF BackupInv, StagesTrue
<1>8. IdsKept'
  <2> SUFFICES ASSUME Begun, ~ shrunk', NEW t \in Table
               PROVE  /\ Reading => \A k \in Ids(before[t]) : k \in Ids(db'[t]) /\ Ahead(t, k)'
                      /\ ReadYet(t) => Ids(before[t]) \subseteq Ids(Written(t))
    BY <1>1 DEF IdsKept
  <2>1. /\ Reading => \A k \in Ids(before[t]) : k \in Ids(db[t]) /\ Ahead(t, k)
        /\ ReadYet(t) => Ids(before[t]) \subseteq Ids(Written(t))
    BY <1>5 DEF BackupInv, IdsKept
  <2>2. ASSUME Reading, NEW k \in Ids(before[t]) PROVE k \in Ids(db'[t]) /\ Ahead(t, k)'
    <3>1. k \in Ids(db[t]) /\ Ahead(t, k)
      BY <2>1, <2>2
    <3>2. k \in Ids(db'[t]) /\ (place.offset < PlaceOf(t, k) => place.offset < PlaceOf(t, k)')
      BY <1>6, <1>7, <2>2, <3>1
    <3>3. Written(t)' = Written(t) /\ AtTable(t)' = AtTable(t) /\ place' = place
      BY <1>1
    <3> QED
      BY <3>1, <3>2, <3>3 DEF Ahead
  <2> QED
    BY <2>1, <2>2
<1>9. ClaimsKept'
  <2> DEFINE ct == "chain_transactions"
  <2> SUFFICES ASSUME Begun, ~ shrunk', NEW c \in Written("address_sync_state"),
                      NEW i \in 1 .. c.number
               PROVE  /\ Reading => Imported({r \in db'[ct] : RowAhead(ct, r)'}, c.of, i)
                      /\ ReadYet(ct) => Imported(Written(ct), c.of, i)
    BY <1>1 DEF ClaimsKept
  <2>1. /\ Reading => Imported({r \in db[ct] : RowAhead(ct, r)}, c.of, i)
        /\ ReadYet(ct) => Imported(Written(ct), c.of, i)
    BY <1>5 DEF BackupInv, ClaimsKept
  <2>2. ASSUME Reading, NEW r \in db[ct], RowAhead(ct, r) PROVE r \in db'[ct] /\ RowAhead(ct, r)'
    <3>1. ct \in Table /\ r.key \in Ids(db[ct])
      BY TableIs DEF Ids
    <3>2. place.offset < PlaceOf(ct, r.key) => place.offset < PlaceOf(ct, r.key)'
      BY <1>6, <1>7, <2>2, <3>1
    <3>3. r \in db'[ct]
      BY <2>2
    <3>4. Written(ct)' = Written(ct) /\ AtTable(ct)' = AtTable(ct) /\ place' = place
      BY <1>1
    <3> QED
      BY <2>2, <3>2, <3>3, <3>4 DEF RowAhead
  <2>3. ASSUME Reading PROVE Imported({r \in db'[ct] : RowAhead(ct, r)'}, c.of, i)
    BY <2>1, <2>2, <2>3 DEF Imported
  <2> QED
    BY <2>1, <2>3
<1> QED
  BY <1>2, <1>3, <1>4, <1>8, <1>9

\* A new row of a table, other than a cursor.
Joining(d, t, row, e) ==
  /\ e = [d EXCEPT ![t] = @ \cup {row}]
  /\ row \in BackupRow /\ t # "address_sync_state"
  /\ \A r \in d[t] : r.key # row.key
  /\ t = "tracked_addresses" => row.of = 0 /\ row.key # 0
  /\ t \in References => row.of \in Tracked(d)

LEMMA RowAdded ==
  ASSUME NEW d, TablesTyped(d), NEW t \in Table, NEW row, NEW e, Joining(d, t, row, e)
  PROVE  /\ TablesTyped(e)
         /\ \A u \in Table : d[u] \subseteq e[u] /\ Ids(d[u]) \subseteq Ids(e[u])
         /\ \A u \in Table : u # t => e[u] = d[u]
         /\ e[t] = d[t] \cup {row}
<1>0. /\ e = [d EXCEPT ![t] = @ \cup {row}]
      /\ row \in BackupRow /\ t # "address_sync_state"
      /\ \A r \in d[t] : r.key # row.key
      /\ t = "tracked_addresses" => row.of = 0 /\ row.key # 0
      /\ t \in References => row.of \in Tracked(d)
  BY DEF Joining
<1>1. d \in Tabled
  BY DEF TablesTyped
<1>2. e \in Tabled /\ e[t] = d[t] \cup {row} /\ \A u \in Table : u # t => e[u] = d[u]
  BY <1>0, <1>1 DEF Tabled
<1>3. Ids(e[t]) = Ids(d[t]) \cup {row.key}
  BY <1>2 DEF Ids
<1>4. \A u \in Table : d[u] \subseteq e[u] /\ Ids(d[u]) \subseteq Ids(e[u])
  BY <1>2, <1>3
<1>5. \A u \in Table : IsFiniteSet(Ids(e[u]))
  <2>1. \A u \in Table : IsFiniteSet(Ids(d[u]))
    BY DEF TablesTyped
  <2>2. IsFiniteSet(Ids(d[t]) \cup {row.key})
    BY <2>1, FS_AddElement
  <2> QED
    BY <1>2, <1>3, <2>1, <2>2
<1>6. OneByKey(e[t])
  BY <1>0, <1>2 DEF TablesTyped, OneByKey
<1>7. \A u \in Table : OneByKey(e[u])
  BY <1>2, <1>6 DEF TablesTyped
<1>8. Tracked(d) \subseteq Tracked(e)
  BY <1>4, TableIs DEF Tracked
<1>9. \A r \in e["tracked_addresses"] : r.of = 0 /\ r.key # 0
  BY <1>0, <1>2, TableIs DEF TablesTyped
<1>10. \A r \in e["address_sync_state"] : r.key = r.of
  BY <1>0, <1>2, TableIs DEF TablesTyped
<1>11. \A u \in References : \A r \in e[u] : r.of \in Tracked(e)
  <2>1. References \subseteq Table
    BY DEF References
  <2> QED
    BY <1>0, <1>2, <1>8, <2>1 DEF TablesTyped
<1> QED
  BY <1>2, <1>4, <1>5, <1>7, <1>9, <1>10, <1>11 DEF TablesTyped

LEMMA CursorIs ==
  ASSUME NEW d, TablesTyped(d)
  PROVE  /\ \A c \in d["address_sync_state"] : Cursor(d, c.of) = c.number
         /\ \A a : (\A c \in d["address_sync_state"] : c.of # a) => Cursor(d, a) = 0
<1>1. \A c, r \in d["address_sync_state"] : c.of = r.of => c = r
  BY TableIs DEF TablesTyped, OneByKey
<1>2. ASSUME NEW c \in d["address_sync_state"] PROVE Cursor(d, c.of) = c.number
  <2> DEFINE x == CHOOSE r \in d["address_sync_state"] : r.of = c.of
  <2>1. x \in d["address_sync_state"] /\ x.of = c.of
    OBVIOUS
  <2>2. x = c
    BY <1>1, <2>1
  <2>3. Cursor(d, c.of) = x.number
    BY DEF Cursor
  <2> QED
    BY <2>2, <2>3
<1> QED
  BY <1>2 DEF Cursor

\* A cursor that takes the place of the last one.
Putting(d, a, n, e) ==
  /\ a \in Tracked(d) /\ n \in Nat
  /\ e = [d EXCEPT !["address_sync_state"] = Put(@, Row(a, a, n))]

LEMMA CursorPut ==
  ASSUME NEW d, TablesTyped(d), NEW a, NEW n, NEW e, Putting(d, a, n, e)
  PROVE  /\ TablesTyped(e)
         /\ \A u \in Table : Ids(d[u]) \subseteq Ids(e[u])
         /\ \A u \in Table : u # "address_sync_state" => e[u] = d[u]
         /\ \A c \in e["address_sync_state"] :
              IF c.of = a THEN c.number = n ELSE c \in d["address_sync_state"]
         /\ Cursor(e, a) = n
         /\ \A b : b # a => Cursor(e, b) = Cursor(d, b)
<1> DEFINE s == "address_sync_state"
           row == Row(a, a, n)
           kept == {r \in d[s] : r.of # a}
<1>0. /\ a \in Tracked(d) /\ n \in Nat
      /\ e = [d EXCEPT !["address_sync_state"] = Put(@, Row(a, a, n))]
  BY DEF Putting
<1>a. a \in Nat
  BY <1>0, TableIs DEF TablesTyped, Tabled, BackupRow, Tracked, Ids
<1>1. d \in Tabled /\ s \in Table
  BY TableIs DEF TablesTyped
<1>2. row \in BackupRow /\ row.key = a /\ row.of = a /\ row.number = n
  BY <1>0, <1>a DEF BackupRow, Row
<1>3. e \in Tabled /\ e[s] = kept \cup {row} /\ \A u \in Table : u # s => e[u] = d[u]
  BY <1>0, <1>1, <1>2 DEF Tabled, Put
<1>4. \A r \in d[s] : r.key = r.of
  BY DEF TablesTyped
<1>5. Ids(e[s]) = Ids(kept) \cup {a} /\ Ids(kept) \subseteq Ids(d[s])
  BY <1>2, <1>3 DEF Ids
<1>6. Ids(d[s]) \subseteq Ids(e[s])
  BY <1>4, <1>5 DEF Ids
<1>7. IsFiniteSet(Ids(e[s]))
  <2>1. IsFiniteSet(Ids(d[s]))
    BY <1>1 DEF TablesTyped
  <2>2. IsFiniteSet(Ids(kept))
    BY <1>5, <2>1, FS_Subset
  <2>3. IsFiniteSet(Ids(kept) \cup {a})
    BY <2>2, FS_AddElement
  <2> QED
    BY <1>5, <2>3
<1>8. OneByKey(e[s])
  <2>1. OneByKey(d[s])
    BY <1>1 DEF TablesTyped
  <2> QED
    BY <1>2, <1>3, <1>4, <2>1 DEF OneByKey
<1>9. Tracked(e) = Tracked(d)
  BY <1>3, TableIs DEF Tracked
<1>10. \A r \in e[s] : r.key = r.of /\ r.of \in Tracked(e)
  <2>1. \A r \in d[s] : r.of \in Tracked(d)
    BY TableIs DEF TablesTyped
  <2> QED
    BY <1>0, <1>2, <1>3, <1>4, <1>9, <2>1
<1>11. TablesTyped(e)
  <2>1. \A t \in Table : IsFiniteSet(Ids(e[t])) /\ OneByKey(e[t])
    BY <1>3, <1>7, <1>8 DEF TablesTyped
  <2>2. \A r \in e["tracked_addresses"] : r.of = 0 /\ r.key # 0
    BY <1>3, TableIs DEF TablesTyped
  <2>3. \A t \in References : \A r \in e[t] : r.of \in Tracked(e)
    BY <1>3, <1>9, <1>10, TableIs DEF TablesTyped
  <2> QED
    BY <1>3, <1>10, <2>1, <2>2, <2>3 DEF TablesTyped
<1>12. row \in e[s]
  BY <1>3
<1>13. Cursor(e, a) = n
  BY <1>2, <1>11, <1>12, CursorIs
<1>14. ASSUME NEW b, b # a PROVE Cursor(e, b) = Cursor(d, b)
  <2>1. CASE \E c \in d[s] : c.of = b
    <3>1. PICK c \in d[s] : c.of = b
      BY <2>1
    <3>2. c \in e[s]
      BY <1>3, <1>14, <3>1
    <3> QED
      BY <1>11, <3>1, <3>2, CursorIs
  <2>2. CASE \A c \in d[s] : c.of # b
    <3>1. \A c \in e[s] : c.of # b
      BY <1>2, <1>3, <1>14, <2>2
    <3> QED
      BY <1>11, <2>2, <3>1, CursorIs
  <2> QED
    BY <2>1, <2>2
<1>15. \A c \in e[s] : IF c.of = a THEN c.number = n ELSE c \in d[s]
  BY <1>2, <1>3
<1>16. \A u \in Table : Ids(d[u]) \subseteq Ids(e[u])
  BY <1>3, <1>6
<1> QED
  BY <1>3, <1>11, <1>13, <1>14, <1>15, <1>16

LEMMA ClaimsGrow ==
  ASSUME NEW d, NEW e, Claims(d), e["address_sync_state"] = d["address_sync_state"],
         d["chain_transactions"] \subseteq e["chain_transactions"]
  PROVE  Claims(e)
<1>1. \A a : HistoryOf(d, a) \subseteq HistoryOf(e, a)
  BY DEF HistoryOf
<1> QED
  BY <1>1 DEF Claims

LEMMA AddAddressStep == BackupInv /\ AddAddress => BackupInv'
<1> SUFFICES ASSUME BackupInv, AddAddress PROVE BackupInv'
  OBVIOUS
<1>1. PICK a \in unused :
        /\ Changes([db EXCEPT !["tracked_addresses"] = @ \cup {Row(a, 0, 0)}], FALSE)
        /\ unused' = unused \ {a} /\ Around /\ UNCHANGED syncs
  BY DEF AddAddress
<1>2. TablesTyped(db) /\ a \in Nat \ {0} /\ a \notin Tracked(db)
      /\ quiet \in BOOLEAN /\ shrunk \in BOOLEAN
  BY DEF BackupInv, TablesTrue, UnusedTrue, StagesTrue
<1> DEFINE row == Row(a, 0, 0)
<1>3. row \in BackupRow /\ row.key = a /\ row.of = 0
  BY <1>2 DEF Row, BackupRow
<1>4. /\ db' = [db EXCEPT !["tracked_addresses"] = @ \cup {row}]
      /\ quiet' = (quiet /\ ~ Reading) /\ shrunk' = shrunk
  BY <1>1, <1>2 DEF Changes
<1>5. UNCHANGED <<syncs, place, file, archive, before, crossed, downloaded, status>>
  BY <1>1 DEF Around, exporting
<1> HIDE DEF row
<1>6. \A r \in db["tracked_addresses"] : r.key # row.key
  BY <1>2, <1>3 DEF Tracked, Ids
<1>7. /\ TablesTyped(db')
      /\ \A u \in Table : db[u] \subseteq db'[u] /\ Ids(db[u]) \subseteq Ids(db'[u])
      /\ \A u \in Table : u # "tracked_addresses" => db'[u] = db[u]
      /\ db'["tracked_addresses"] = db["tracked_addresses"] \cup {row}
  <2> DEFINE t == "tracked_addresses"
  <2>1. t \in Table /\ t # "address_sync_state" /\ t \notin References
    BY TableIs
  <2>3. db' = [db EXCEPT ![t] = @ \cup {row}]
    BY <1>4
  <2>2. Joining(db, t, row, db')
    BY <1>2, <1>3, <1>6, <2>1, <2>3 DEF Joining
  <2> HIDE DEF t
  <2>4. /\ TablesTyped(db')
        /\ \A u \in Table : db[u] \subseteq db'[u] /\ Ids(db[u]) \subseteq Ids(db'[u])
        /\ \A u \in Table : u # t => db'[u] = db[u]
        /\ db'[t] = db[t] \cup {row}
    <3>1. TablesTyped(db) /\ t \in Table /\ Joining(db, t, row, db')
      BY <1>2, <2>1, <2>2
    <3> QED
      BY <3>1, RowAdded
  <2> QED
    BY <2>4 DEF t
<1>8. Tracked(db') = Tracked(db) \cup {a}
  BY <1>3, <1>7 DEF Tracked, Ids
<1>9. StagesTrue' /\ ArchiveTyped' /\ IdsKept' /\ ClaimsKept' /\ QuietKept'
  <2>1. \A t \in Table : IsFiniteSet(Ids(db'[t]))
    BY <1>7 DEF TablesTyped
  <2>2. db["chain_transactions"] \subseteq db'["chain_transactions"]
    BY <1>7, TableIs
  <2> QED
    BY <1>4, <1>5, <1>7, <2>1, <2>2, ChangesKeep
<1>10. TablesTrue'
  <2>1. ~ shrunk' /\ ~ crossed' => Claims(db)
    BY <1>4, <1>5 DEF BackupInv, TablesTrue
  <2>2. Claims(db) => Claims(db')
    BY <1>7, ClaimsGrow, TableIs
  <2> QED
    BY <1>7, <2>1, <2>2 DEF TablesTrue
<1>11. UnusedTrue'
  <2>1. Written("tracked_addresses")' = Written("tracked_addresses")
    BY <1>5 DEF Written
  <2> QED
    BY <1>1, <1>5, <1>8, <2>1 DEF BackupInv, UnusedTrue
<1>12. SyncsTrue'
  <2>1. \A s \in syncs : s.address # a
    BY DEF BackupInv, UnusedTrue
  <2>2. \A b : Cursor(db', b) = Cursor(db, b)
    BY <1>7, TableIs DEF Cursor
  <2> QED
    BY <1>5, <1>8, <2>1, <2>2 DEF BackupInv, SyncsTrue
<1> QED
  BY <1>9, <1>10, <1>11, <1>12 DEF BackupInv

LEMMA CaptureStep == BackupInv /\ Capture => BackupInv'
<1> SUFFICES ASSUME BackupInv, Capture PROVE BackupInv'
  OBVIOUS
<1> DEFINE p == "portfolio_snapshots"
<1>1. PICK k \in FreeKey(p) : Changes([db EXCEPT ![p] = @ \cup {Row(k, 0, 0)}], FALSE)
  BY DEF Capture
<1>2. TablesTyped(db) /\ k \in Nat /\ (\A r \in db[p] : r.key # k)
      /\ quiet \in BOOLEAN /\ shrunk \in BOOLEAN
  BY BackupAssumptions DEF BackupInv, TablesTrue, StagesTrue, FreeKey
<1> DEFINE row == Row(k, 0, 0)
<1>3. row \in BackupRow /\ row.key = k
  BY <1>2 DEF Row, BackupRow
<1>4. /\ db' = [db EXCEPT ![p] = @ \cup {row}]
      /\ quiet' = (quiet /\ ~ Reading) /\ shrunk' = shrunk
  BY <1>1, <1>2 DEF Changes
<1>5. UNCHANGED <<unused, syncs, place, file, archive, before, crossed, downloaded, status>>
  BY DEF Capture, Around, exporting
<1> HIDE DEF row
<1>6. p \in Table /\ p # "tracked_addresses" /\ p # "address_sync_state"
      /\ p # "chain_transactions" /\ p \notin References
  BY TableIs
<1>7. /\ TablesTyped(db')
      /\ \A u \in Table : db[u] \subseteq db'[u] /\ Ids(db[u]) \subseteq Ids(db'[u])
      /\ \A u \in Table : u # p => db'[u] = db[u]
  <2>1. Joining(db, p, row, db')
    BY <1>2, <1>3, <1>4, <1>6 DEF Joining
  <2> HIDE DEF p
  <2> QED
    <3>1. TablesTyped(db) /\ p \in Table /\ Joining(db, p, row, db')
      BY <1>2, <1>6, <2>1
    <3> QED
      BY <3>1, RowAdded
<1>8. /\ db'["tracked_addresses"] = db["tracked_addresses"]
      /\ db'["address_sync_state"] = db["address_sync_state"]
      /\ db'["chain_transactions"] = db["chain_transactions"]
  BY <1>6, <1>7, TableIs
<1>9. StagesTrue' /\ ArchiveTyped' /\ IdsKept' /\ ClaimsKept' /\ QuietKept'
  <2>1. \A t \in Table : IsFiniteSet(Ids(db'[t]))
    BY <1>7 DEF TablesTyped
  <2> QED
    BY <1>4, <1>5, <1>7, <1>8, <2>1, ChangesKeep
<1>10. TablesTrue'
  <2>1. ~ shrunk' /\ ~ crossed' => Claims(db)
    BY <1>4, <1>5 DEF BackupInv, TablesTrue
  <2>2. Claims(db) => Claims(db')
    BY <1>8, ClaimsGrow
  <2> QED
    BY <1>7, <2>1, <2>2 DEF TablesTrue
<1>11. UnusedTrue'
  <2>1. Written("tracked_addresses")' = Written("tracked_addresses")
    BY <1>5 DEF Written
  <2> QED
    BY <1>5, <1>8, <2>1 DEF BackupInv, UnusedTrue, Tracked
<1>12. SyncsTrue'
  BY <1>5, <1>8 DEF BackupInv, SyncsTrue, Cursor, Tracked
<1> QED
  BY <1>9, <1>10, <1>11, <1>12 DEF BackupInv

\* Fewer rows are of one key each, and finitely many.
LEMMA FewerTyped ==
  ASSUME NEW d, TablesTyped(d), NEW e \in [Table -> SUBSET BackupRow],
         \A t \in Table : e[t] \subseteq d[t]
  PROVE  \A t \in Table : IsFiniteSet(Ids(e[t])) /\ OneByKey(e[t])
<1> SUFFICES ASSUME NEW t \in Table PROVE IsFiniteSet(Ids(e[t])) /\ OneByKey(e[t])
  OBVIOUS
<1>1. IsFiniteSet(Ids(d[t])) /\ OneByKey(d[t]) /\ e[t] \subseteq d[t]
  BY DEF TablesTyped
<1>2. Ids(e[t]) \in SUBSET Ids(d[t])
  BY <1>1 DEF Ids
<1>3. IsFiniteSet(Ids(e[t]))
  BY <1>1, <1>2, FS_Subset
<1> QED
  BY <1>1, <1>3 DEF OneByKey

LEMMA RetireStep == BackupInv /\ Retire => BackupInv'
<1> SUFFICES ASSUME BackupInv, Retire PROVE BackupInv'
  OBVIOUS
<1> DEFINE p == "portfolio_snapshots"
<1>1. PICK x \in db[p] : Changes([db EXCEPT ![p] = @ \ {x}], TRUE)
  BY DEF Retire
<1>2. TablesTyped(db) /\ db \in Tabled /\ quiet \in BOOLEAN /\ shrunk \in BOOLEAN
  BY DEF BackupInv, TablesTrue, TablesTyped, StagesTrue
<1>4. /\ db' = [db EXCEPT ![p] = @ \ {x}]
      /\ quiet' = (quiet /\ ~ Reading) /\ shrunk' = (shrunk \/ Reading)
  BY <1>1, <1>2 DEF Changes
<1>5. UNCHANGED <<unused, syncs, place, file, archive, before, crossed, downloaded, status>>
  BY DEF Retire, Around, exporting
<1>6. p \in Table /\ p # "tracked_addresses" /\ p # "address_sync_state"
      /\ p # "chain_transactions" /\ p \notin References
  BY TableIs
<1>7. db' \in Tabled /\ \A t \in Table : db'[t] \subseteq db[t]
      /\ \A u \in Table : u # p => db'[u] = db[u]
  BY <1>2, <1>4, <1>6 DEF Tabled
<1>8. /\ db'["tracked_addresses"] = db["tracked_addresses"]
      /\ db'["address_sync_state"] = db["address_sync_state"]
      /\ db'["chain_transactions"] = db["chain_transactions"]
      /\ \A t \in References : db'[t] = db[t]
  BY <1>6, <1>7, TableIs
<1>9. TablesTyped(db')
  <2>1. \A t \in Table : IsFiniteSet(Ids(db'[t])) /\ OneByKey(db'[t])
    BY <1>2, <1>7, FewerTyped DEF Tabled
  <2> QED
    BY <1>2, <1>7, <1>8, <2>1 DEF TablesTyped, Tracked
<1>10. StagesTrue' /\ ArchiveTyped' /\ IdsKept' /\ ClaimsKept' /\ QuietKept'
  BY <1>4, <1>5, ChangesKeep
<1>11. TablesTrue'
  <2>1. ~ shrunk' /\ ~ crossed' => Claims(db)
    BY <1>4, <1>5 DEF BackupInv, TablesTrue
  <2>2. Claims(db) => Claims(db')
    BY <1>8, ClaimsGrow
  <2> QED
    BY <1>9, <2>1, <2>2 DEF TablesTrue
<1>12. UnusedTrue'
  <2>1. Written("tracked_addresses")' = Written("tracked_addresses")
    BY <1>5 DEF Written
  <2> QED
    BY <1>5, <1>8, <2>1 DEF BackupInv, UnusedTrue, Tracked
<1>13. SyncsTrue'
  BY <1>5, <1>8 DEF BackupInv, SyncsTrue, Cursor, Tracked
<1> QED
  BY <1>10, <1>11, <1>12, <1>13 DEF BackupInv

LEMMA DeleteAddressStep == BackupInv /\ DeleteAddress => BackupInv'
<1> SUFFICES ASSUME BackupInv, DeleteAddress PROVE BackupInv'
  OBVIOUS
<1>1. PICK a \in Tracked(db) :
        Changes([t \in Table |-> {r \in db[t] :
                  r.of # a /\ (t = "tracked_addresses" => r.key # a)}], TRUE)
  BY DEF DeleteAddress
<1>2. TablesTyped(db) /\ db \in Tabled /\ quiet \in BOOLEAN /\ shrunk \in BOOLEAN
  BY DEF BackupInv, TablesTrue, TablesTyped, StagesTrue
<1>3. a # 0
  BY <1>2 DEF TablesTyped, Tracked, Ids
<1>4. /\ db' = [t \in Table |-> {r \in db[t] :
                  r.of # a /\ (t = "tracked_addresses" => r.key # a)}]
      /\ quiet' = (quiet /\ ~ Reading) /\ shrunk' = (shrunk \/ Reading)
  BY <1>1, <1>2 DEF Changes
<1>5. UNCHANGED <<unused, syncs, place, file, archive, before, crossed, downloaded, status>>
  BY DEF DeleteAddress, Around, exporting
<1>6. db' \in Tabled /\ \A t \in Table : db'[t] \subseteq db[t]
  BY <1>2, <1>4 DEF Tabled
<1>7. /\ \A r \in db["tracked_addresses"] : r.key # a => r \in db'["tracked_addresses"]
      /\ \A r \in db'["tracked_addresses"] : r.key # a /\ r \in db["tracked_addresses"]
      /\ \A t \in References : \A r : r \in db'[t] <=> r \in db[t] /\ r.of # a
  <2>1. \A r \in db["tracked_addresses"] : r.of = 0
    BY <1>2 DEF TablesTyped
  <2>2. /\ \A t \in References : t \in Table /\ t # "tracked_addresses"
        /\ "tracked_addresses" \in Table
    BY TableIs
  <2>3. \A r \in db["tracked_addresses"] : r.of # a
    BY <1>3, <2>1
  <2>4. \A t \in Table : db'[t] = {r \in db[t] :
                  r.of # a /\ (t = "tracked_addresses" => r.key # a)}
    BY <1>4
  <2> QED
    BY <2>2, <2>3, <2>4, Zenon
<1>8. \A b : b \in Tracked(db') <=> b \in Tracked(db) /\ b # a
  BY <1>7 DEF Tracked, Ids
<1>9. TablesTyped(db')
  <2>1. \A t \in Table : IsFiniteSet(Ids(db'[t])) /\ OneByKey(db'[t])
    BY <1>2, <1>6, FewerTyped DEF Tabled
  <2>2. \A t \in References : \A r \in db'[t] : r.of \in Tracked(db')
    BY <1>2, <1>7, <1>8 DEF TablesTyped
  <2>3. /\ \A r \in db'["tracked_addresses"] : r.of = 0 /\ r.key # 0
        /\ \A r \in db'["address_sync_state"] : r.key = r.of
    BY <1>2, <1>6, TableIs DEF TablesTyped
  <2> QED
    BY <1>6, <2>1, <2>2, <2>3 DEF TablesTyped
<1>10. StagesTrue' /\ ArchiveTyped' /\ IdsKept' /\ ClaimsKept' /\ QuietKept'
  BY <1>4, <1>5, ChangesKeep
<1>11. TablesTrue'
  <2>1. ~ shrunk' /\ ~ crossed' => Claims(db)
    BY <1>4, <1>5 DEF BackupInv, TablesTrue
  <2>2. ASSUME Claims(db) PROVE Claims(db')
    <3> SUFFICES ASSUME NEW c \in db'["address_sync_state"]
                 PROVE  1 .. c.number \subseteq HistoryOf(db', c.of)
      BY DEF Claims
    <3>1. c \in db["address_sync_state"] /\ c.of # a
      BY <1>7, TableIs
    <3>2. 1 .. c.number \subseteq HistoryOf(db, c.of)
      BY <2>2, <3>1 DEF Claims
    <3>3. HistoryOf(db, c.of) \subseteq HistoryOf(db', c.of)
      BY <1>7, <3>1, TableIs DEF HistoryOf
    <3> QED
      BY <3>2, <3>3
  <2> QED
    BY <1>9, <2>1, <2>2 DEF TablesTrue
<1>12. UnusedTrue'
  <2>1. Written("tracked_addresses")' = Written("tracked_addresses")
    BY <1>5 DEF Written
  <2> QED
    BY <1>5, <1>8, <2>1 DEF BackupInv, UnusedTrue
<1>13. SyncsTrue'
  <2>1. ASSUME NEW b \in Tracked(db') PROVE Cursor(db', b) = Cursor(db, b)
    <3>1. \A r : r.of = b => (r \in db'["address_sync_state"] <=> r \in db["address_sync_state"])
      BY <1>7, <1>8, <2>1, TableIs
    <3>2. CASE \E c \in db["address_sync_state"] : c.of = b
      BY <1>2, <1>9, <3>1, <3>2, CursorIs
    <3>3. CASE \A c \in db["address_sync_state"] : c.of # b
      BY <1>2, <1>9, <3>1, <3>3, CursorIs
    <3> QED
      BY <3>2, <3>3
  <2> QED
    BY <1>5, <1>8, <2>1 DEF BackupInv, SyncsTrue
<1> QED
  BY <1>10, <1>11, <1>12, <1>13 DEF BackupInv

LEMMA BeginSyncStep == BackupInv /\ BeginSync => BackupInv'
<1> SUFFICES ASSUME BackupInv, BeginSync PROVE BackupInv'
  OBVIOUS
<1>1. PICK a \in Tracked(db) :
        /\ \A s \in syncs : s.address # a
        /\ syncs' = syncs \cup {[address |-> a, cursor |-> Cursor(db, a)]}
  BY DEF BeginSync
<1>2. UNCHANGED <<db, unused, place, file, archive, before, quiet, shrunk, crossed,
                  downloaded, status>>
  BY DEF BeginSync, Around, exporting
<1> DEFINE new == [address |-> a, cursor |-> Cursor(db, a)]
<1>3. new.address = a /\ new.cursor = Cursor(db, a) /\ syncs' = syncs \cup {new}
  BY <1>1
<1>4. TablesTyped(db) /\ db \in Tabled
  BY DEF BackupInv, TablesTrue, TablesTyped
<1>5. a \in Nat /\ Cursor(db, a) \in Nat
  <2>1. a \in Nat
    BY <1>4, TableIs DEF Tabled, BackupRow, Tracked, Ids
  <2>2. \A c \in db["address_sync_state"] : c.number \in Nat
    BY <1>4, TableIs DEF Tabled, BackupRow
  <2>3. CASE \E c \in db["address_sync_state"] : c.of = a
    BY <1>4, <2>1, <2>2, <2>3, CursorIs
  <2>4. CASE \A c \in db["address_sync_state"] : c.of # a
    BY <1>4, <2>1, <2>4, CursorIs
  <2> QED
    BY <2>1, <2>3, <2>4
<1> HIDE DEF new
<1>6. TablesTrue' /\ StagesTrue'
  BY <1>2 DEF BackupInv, TablesTrue, StagesTrue, Reading
<1>7. UnusedTrue'
  <2>1. Written("tracked_addresses")' = Written("tracked_addresses")
    BY <1>2 DEF Written
  <2> QED
    BY <1>1, <1>2, <1>3, <2>1 DEF BackupInv, UnusedTrue
<1>8. SyncsTrue'
  BY <1>1, <1>2, <1>3, <1>5 DEF BackupInv, SyncsTrue
<1>9. /\ Reading' = Reading /\ Begun' = Begun
      /\ \A t : Written(t)' = Written(t) /\ ReadYet(t)' = ReadYet(t) /\ AtTable(t)' = AtTable(t)
      /\ \A t, k : PlaceOf(t, k)' = PlaceOf(t, k)
  BY <1>2 DEF Reading, Begun, Written, ReadYet, AtTable, PlaceOf
<1>10. ArchiveTyped'
  <2>1. /\ Written("tracked_addresses")' = Written("tracked_addresses")
        /\ Written("address_sync_state")' = Written("address_sync_state")
    BY <1>9
  <2> QED
    BY <1>2, <1>9, <2>1 DEF BackupInv, ArchiveTyped
<1>11. IdsKept'
  BY <1>2, <1>9 DEF BackupInv, IdsKept, Ahead
<1>12. ClaimsKept'
  BY <1>2, <1>9 DEF BackupInv, ClaimsKept, RowAhead
<1>13. QuietKept'
  BY <1>2, <1>9 DEF BackupInv, QuietKept
<1> QED
  BY <1>6, <1>7, <1>8, <1>10, <1>11, <1>12, <1>13 DEF BackupInv

LEMMA StoreSyncStep == BackupInv /\ StoreSync => BackupInv'
<1> SUFFICES ASSUME BackupInv, StoreSync PROVE BackupInv'
  OBVIOUS
<1> DEFINE ct == "chain_transactions"
           cs == "address_sync_state"
<1>1. PICK s \in syncs :
        /\ syncs' = syncs \ {s}
        /\ IF s.address \in Tracked(db)
           THEN \E k \in FreeKey(ct) :
                  LET next == s.cursor + 1
                      new == IF next \in HistoryOf(db, s.address) THEN {}
                             ELSE {Row(k, s.address, next)}
                  IN Changes([db EXCEPT ![ct] = @ \cup new,
                                        ![cs] = Put(@, Row(s.address, s.address, next))], FALSE)
           ELSE UNCHANGED <<db, changes, quiet, shrunk>>
  BY DEF StoreSync
<1>2. UNCHANGED <<unused, place, file, archive, before, crossed, downloaded, status>>
  BY DEF StoreSync, Around, exporting
<1>3. CASE s.address \notin Tracked(db)
  <2>1. UNCHANGED <<db, quiet, shrunk>>
    BY <1>1, <1>3
  <2>2. (status = "completed" => file = "whole") /\ (downloaded => file = "whole")
    BY DEF BackupInv, StagesTrue
  <2> QED
    BY <1>1, <1>2, <2>1, <2>2, AsideStep
<1>4. CASE s.address \in Tracked(db)
  <2> DEFINE a == s.address
             next == s.cursor + 1
  <2>1. PICK k \in FreeKey(ct) :
          LET new == IF next \in HistoryOf(db, a) THEN {} ELSE {Row(k, a, next)}
          IN Changes([db EXCEPT ![ct] = @ \cup new, ![cs] = Put(@, Row(a, a, next))], FALSE)
    BY <1>1, <1>4
  <2> DEFINE new == IF next \in HistoryOf(db, a) THEN {} ELSE {Row(k, a, next)}
             mid == [db EXCEPT ![ct] = @ \cup new]
  <2>2. /\ TablesTyped(db) /\ db \in Tabled /\ quiet \in BOOLEAN /\ shrunk \in BOOLEAN
        /\ s.address \in Nat /\ s.cursor \in Nat /\ k \in Nat /\ (\A r \in db[ct] : r.key # k)
        /\ ~ crossed => s.cursor = Cursor(db, a)
    BY <1>4, BackupAssumptions
      DEF BackupInv, TablesTrue, TablesTyped, StagesTrue, SyncsTrue, FreeKey
  <2>3. a \in Nat /\ next \in Nat /\ a \in Tracked(db)
    BY <1>4, <2>2
  <2>4. ct \in Table /\ cs \in Table /\ ct # cs /\ ct # "tracked_addresses"
        /\ cs # "tracked_addresses" /\ "tracked_addresses" \in Table
    BY TableIs
  <2>5. /\ db' = [db EXCEPT ![ct] = @ \cup new, ![cs] = Put(@, Row(a, a, next))]
        /\ quiet' = (quiet /\ ~ Reading) /\ shrunk' = shrunk
    BY <2>1, <2>2 DEF Changes
  <2>6. db' = [mid EXCEPT ![cs] = Put(@, Row(a, a, next))]
    BY <2>2, <2>4, <2>5 DEF Tabled
  <2> HIDE DEF ct, cs
  <2>7. /\ TablesTyped(mid)
        /\ \A u \in Table : db[u] \subseteq mid[u] /\ Ids(db[u]) \subseteq Ids(mid[u])
        /\ \A u \in Table : u # ct => mid[u] = db[u]
        /\ mid[ct] = db[ct] \cup new
    <3>1. CASE next \in HistoryOf(db, a)
      <4>1. new = {}
        BY <3>1
      <4>2. mid = db
        BY <2>2, <4>1 DEF Tabled
      <4> QED
        BY <2>2, <4>1, <4>2
    <3>2. CASE next \notin HistoryOf(db, a)
      <4> DEFINE row == Row(k, a, next)
      <4>1. row \in BackupRow /\ row.key = k /\ row.of = a
        BY <2>2, <2>3 DEF Row, BackupRow
      <4>2. new = {row} /\ mid = [db EXCEPT ![ct] = @ \cup {row}]
        BY <3>2
      <4>3. ct # "address_sync_state"
        BY DEF ct
      <4> HIDE DEF row, new, mid
      <4>4. Joining(db, ct, row, mid)
        BY <2>2, <2>3, <2>4, <4>1, <4>2, <4>3 DEF Joining
      <4>5. TablesTyped(db) /\ ct \in Table
        BY <2>2, <2>4
      <4>6. /\ TablesTyped(mid)
            /\ \A u \in Table : db[u] \subseteq mid[u] /\ Ids(db[u]) \subseteq Ids(mid[u])
            /\ \A u \in Table : u # ct => mid[u] = db[u]
            /\ mid[ct] = db[ct] \cup {row}
        BY <4>4, <4>5, RowAdded
      <4> QED
        BY <4>2, <4>6
    <3> QED
      BY <3>1, <3>2
  <2>8. 1 .. s.cursor \subseteq HistoryOf(db, a) => 1 .. next \subseteq HistoryOf(mid, a)
    <3>1. \A r \in db[ct] : r \in mid[ct]
      BY <2>7
    <3>2. \A i \in 1 .. next : i \in 1 .. s.cursor \/ i = next
      BY <2>2
    <3>3. HistoryOf(db, a) \subseteq HistoryOf(mid, a)
      BY <3>1 DEF HistoryOf, ct
    <3>4. next \in HistoryOf(mid, a)
      <4>1. CASE next \in HistoryOf(db, a)
        BY <3>3, <4>1
      <4>2. CASE next \notin HistoryOf(db, a)
        <5>1. Row(k, a, next) \in mid[ct]
          BY <2>7, <4>2
        <5>2. Row(k, a, next).of = a /\ Row(k, a, next).number = next
          BY DEF Row
        <5> HIDE DEF next, mid
        <5> QED
          BY <5>1, <5>2 DEF HistoryOf, ct
      <4> QED
        BY <4>1, <4>2
    <3> HIDE DEF next, mid
    <3> QED
      BY <3>2, <3>3, <3>4
  <2>9. \A b : HistoryOf(db, b) \subseteq HistoryOf(mid, b)
    <3>1. \A r \in db[ct] : r \in mid[ct]
      BY <2>7
    <3> HIDE DEF mid
    <3> QED
      BY <3>1 DEF HistoryOf, ct
  <2>10. a \in Tracked(mid) /\ Tracked(mid) = Tracked(db)
    BY <2>3, <2>4, <2>7 DEF Tracked
  <2>11. \A b : Cursor(mid, b) = Cursor(db, b)
    <3>1. mid["address_sync_state"] = db["address_sync_state"]
      BY <2>4, <2>7 DEF cs
    <3> HIDE DEF mid
    <3> QED
      BY <3>1 DEF Cursor
  <2> HIDE DEF a, next, new, mid
  <2>12. /\ TablesTyped(db')
         /\ \A u \in Table : Ids(mid[u]) \subseteq Ids(db'[u])
         /\ \A u \in Table : u # cs => db'[u] = mid[u]
         /\ \A c \in db'[cs] : IF c.of = a THEN c.number = next ELSE c \in mid[cs]
         /\ Cursor(db', a) = next
         /\ \A b : b # a => Cursor(db', b) = Cursor(mid, b)
    <3>1. TablesTyped(mid)
      BY <2>7
    <3>2. Putting(mid, a, next, db')
      BY <2>3, <2>6, <2>10 DEF Putting, cs
    <3>3. /\ TablesTyped(db')
          /\ \A u \in Table : Ids(mid[u]) \subseteq Ids(db'[u])
          /\ \A u \in Table : u # "address_sync_state" => db'[u] = mid[u]
          /\ \A c \in db'["address_sync_state"] :
               IF c.of = a THEN c.number = next ELSE c \in mid["address_sync_state"]
          /\ Cursor(db', a) = next
          /\ \A b : b # a => Cursor(db', b) = Cursor(mid, b)
      BY <3>1, <3>2, CursorPut
    <3> QED
      BY <3>3 DEF cs
  <2>13. \A b : HistoryOf(db', b) = HistoryOf(mid, b)
    <3>1. db'["chain_transactions"] = mid["chain_transactions"]
      BY <2>4, <2>12 DEF ct
    <3> QED
      BY <3>1 DEF HistoryOf
  <2>14. StagesTrue' /\ ArchiveTyped' /\ IdsKept' /\ ClaimsKept' /\ QuietKept'
    <3>1. \A t \in Table : IsFiniteSet(Ids(db'[t])) /\ Ids(db[t]) \subseteq Ids(db'[t])
      BY <2>7, <2>12 DEF TablesTyped
    <3>2. db["chain_transactions"] \subseteq db'["chain_transactions"]
      BY <2>4, <2>7, <2>12 DEF ct
    <3> QED
      BY <1>2, <2>5, <3>1, <3>2, ChangesKeep
  <2>15. TablesTrue'
    <3>1. ~ shrunk' /\ ~ crossed' => Claims(db) /\ s.cursor = Cursor(db, a)
      BY <1>2, <2>2, <2>5 DEF BackupInv, TablesTrue
    <3>2. ASSUME Claims(db), s.cursor = Cursor(db, a) PROVE Claims(db')
      <4> SUFFICES ASSUME NEW c \in db'[cs]
                   PROVE  1 .. c.number \subseteq HistoryOf(db', c.of)
        BY DEF Claims, cs
      <4>1. CASE c.of = a
        <5>1. c.number = next
          BY <2>12, <4>1
        <5>2. 1 .. s.cursor \subseteq HistoryOf(db, a)
          <6>1. CASE \E r \in db[cs] : r.of = a
            <7>1. PICK r \in db[cs] : r.of = a
              BY <6>1
            <7>2. r.number = s.cursor
              BY <2>2, <3>2, <7>1, CursorIs DEF cs
            <7> QED
              BY <3>2, <7>1, <7>2 DEF Claims, cs
          <6>2. CASE \A r \in db[cs] : r.of # a
            <7>1. s.cursor = 0
              BY <2>2, <3>2, <6>2, CursorIs DEF cs
            <7> QED
              BY <7>1
          <6> QED
            BY <6>1, <6>2
        <5> QED
          BY <2>8, <2>13, <4>1, <5>1, <5>2
      <4>2. CASE c.of # a
        <5>1. c \in db[cs]
          BY <2>4, <2>7, <2>12, <4>2
        <5>2. 1 .. c.number \subseteq HistoryOf(db, c.of)
          BY <3>2, <5>1 DEF Claims, cs
        <5>3. HistoryOf(db, c.of) \subseteq HistoryOf(db', c.of)
          BY <2>9, <2>13
        <5> QED
          BY <5>2, <5>3
      <4> QED
        BY <4>1, <4>2
    <3> QED
      BY <2>12, <3>1, <3>2 DEF TablesTrue
  <2>16. Tracked(db') = Tracked(db)
    BY <2>4, <2>10, <2>12 DEF Tracked
  <2>17. UnusedTrue'
    <3>1. Written("tracked_addresses")' = Written("tracked_addresses")
      BY <1>2 DEF Written
    <3> QED
      BY <1>1, <1>2, <2>16, <3>1 DEF BackupInv, UnusedTrue
  <2>18. SyncsTrue'
    <3>1. \A z \in syncs' : z \in syncs /\ z.address # a
      BY <1>1 DEF BackupInv, SyncsTrue, a
    <3>2. \A b : b # a => Cursor(db', b) = Cursor(db, b)
      BY <2>11, <2>12
    <3> QED
      BY <1>2, <2>16, <3>1, <3>2 DEF BackupInv, SyncsTrue
  <2> QED
    BY <2>14, <2>15, <2>17, <2>18 DEF BackupInv
<1> QED
  BY <1>3, <1>4

LEMMA PlacesApart ==
  ASSUME TablesTyped(db), NEW t \in Table
  PROVE  /\ Cardinality(Ids(db[t])) \in Nat
         /\ \A k \in Ids(db[t]) : PlaceOf(t, k) \in 1 .. Cardinality(Ids(db[t]))
         /\ \A k, l \in Ids(db[t]) : PlaceOf(t, k) = PlaceOf(t, l) => k = l
         /\ \A n \in 1 .. Cardinality(Ids(db[t])) : \E k \in Ids(db[t]) : PlaceOf(t, k) = n
<1> DEFINE K == Ids(db[t])
<1>1. K \in SUBSET Nat /\ IsFiniteSet(K)
  BY DEF TablesTyped, Tabled, BackupRow, Ids
<1>2. \A k : PlaceOf(t, k) = Rank(K, k)
  BY DEF PlaceOf, Rank
<1> HIDE DEF K
<1>3. /\ Cardinality(K) \in Nat
      /\ \A k \in K : Rank(K, k) \in 1 .. Cardinality(K)
      /\ \A k, l \in K : Rank(K, k) = Rank(K, l) => k = l
      /\ \A n \in 1 .. Cardinality(K) : \E k \in K : Rank(K, k) = n
  BY <1>1, RanksApart
<1> QED
  BY <1>2, <1>3 DEF K

\* A page holds the rows from the offset on, and is empty beyond the last one.
PageTrue(t, offset, rows) ==
  /\ rows \in Seq(BackupRow) /\ ToSet(rows) \subseteq db[t] /\ DOMAIN rows = 1 .. Len(rows)
  /\ Len(rows) \in Nat /\ (rows # <<>> => Len(rows) > 0)
  /\ \A i \in 1 .. Len(rows) : rows[i] \in db[t] /\ PlaceOf(t, rows[i].key) = offset + i
  /\ \A r \in db[t] : offset < PlaceOf(t, r.key) /\ PlaceOf(t, r.key) <= offset + Len(rows)
                      => r \in ToSet(rows)
  /\ rows = <<>> => \A k \in Ids(db[t]) : PlaceOf(t, k) <= offset

LEMMA PageIs ==
  ASSUME TablesTyped(db), NEW t \in Table, NEW offset \in Nat
  PROVE  PageTrue(t, offset, PageOf(t, offset))
<1> DEFINE m == Cardinality(Ids(db[t]))
           l == Least(PageRows, m - offset)
           n == IF l > 0 THEN l ELSE 0
           rows == PageOf(t, offset)
<1>1. /\ m \in Nat
      /\ \A k \in Ids(db[t]) : PlaceOf(t, k) \in 1 .. m
      /\ \A k, q \in Ids(db[t]) : PlaceOf(t, k) = PlaceOf(t, q) => k = q
      /\ \A i \in 1 .. m : \E k \in Ids(db[t]) : PlaceOf(t, k) = i
  BY PlacesApart
<1> HIDE DEF m
<1>2. PageRows \in Nat \ {0}
  BY BackupAssumptions
<1>3. /\ n \in Nat /\ 1 .. l = 1 .. n /\ n <= PageRows
      /\ n > 0 => n <= m - offset
      /\ n = 0 => m <= offset
  BY <1>1, <1>2 DEF Least
<1>4. rows = [i \in 1 .. n |-> RowAt(t, offset + i)]
  BY <1>3 DEF PageOf, m
<1> HIDE DEF l, n, rows
<1>5. ASSUME NEW i \in 1 .. n
      PROVE  RowAt(t, offset + i) \in db[t] /\ PlaceOf(t, RowAt(t, offset + i).key) = offset + i
  <2>1. offset + i \in 1 .. m
    BY <1>1, <1>3
  <2>2. PICK k \in Ids(db[t]) : PlaceOf(t, k) = offset + i
    BY <1>1, <2>1
  <2>3. PICK r \in db[t] : r.key = k
    BY DEF Ids
  <2>4. PlaceOf(t, r.key) = offset + i
    BY <2>2, <2>3
  <2> QED
    BY <2>4 DEF RowAt
<1>6. db[t] \subseteq BackupRow
  BY DEF TablesTyped, Tabled
<1>7. rows \in [1 .. n -> BackupRow] /\ \A i \in 1 .. n : rows[i] = RowAt(t, offset + i)
  BY <1>4, <1>5, <1>6
<1>8. rows \in Seq(BackupRow) /\ Len(rows) = n /\ DOMAIN rows = 1 .. n
  BY <1>3, <1>7, IsASeq, LenProperties
<1>9. \A i \in 1 .. n : rows[i] \in db[t] /\ PlaceOf(t, rows[i].key) = offset + i
  BY <1>5, <1>7
<1>10. ToSet(rows) \subseteq db[t]
  BY <1>8, <1>9 DEF ToSet
<1>11. rows # <<>> => n > 0
  BY <1>3, <1>8, EmptySeq
<1>12. ASSUME NEW r \in db[t], offset < PlaceOf(t, r.key), PlaceOf(t, r.key) <= offset + n
       PROVE  r \in ToSet(rows)
  <2>1. r.key \in Ids(db[t])
    BY DEF Ids
  <2> DEFINE i == PlaceOf(t, r.key) - offset
  <2>2. i \in 1 .. n /\ offset + i = PlaceOf(t, r.key)
    BY <1>1, <1>3, <1>12, <2>1
  <2> HIDE DEF i
  <2>3. rows[i] \in db[t] /\ PlaceOf(t, rows[i].key) = PlaceOf(t, r.key)
    BY <1>9, <2>2
  <2>4. rows[i].key \in Ids(db[t])
    BY <2>3 DEF Ids
  <2>5. rows[i].key = r.key
    BY <1>1, <2>1, <2>3, <2>4
  <2>6. rows[i] = r
    BY <2>3, <2>5 DEF TablesTyped, OneByKey
  <2> QED
    BY <1>8, <2>2, <2>6 DEF ToSet
<1>13. ASSUME rows = <<>>, NEW k \in Ids(db[t]) PROVE PlaceOf(t, k) <= offset
  <2>1. n = 0
    BY <1>8, <1>13
  <2> QED
    BY <1>1, <1>3, <2>1
<1>14. Len(rows) \in Nat /\ DOMAIN rows = 1 .. Len(rows) /\ (rows # <<>> => Len(rows) > 0)
  BY <1>3, <1>8, <1>11
<1>15. /\ \A i \in 1 .. Len(rows) : rows[i] \in db[t] /\ PlaceOf(t, rows[i].key) = offset + i
       /\ \A r \in db[t] : offset < PlaceOf(t, r.key) /\ PlaceOf(t, r.key) <= offset + Len(rows)
                           => r \in ToSet(rows)
  BY <1>8, <1>9, <1>12
<1>16. PageTrue(t, offset, rows)
  BY <1>8, <1>10, <1>13, <1>14, <1>15 DEF PageTrue
<1> QED
  BY <1>16 DEF rows

LEMMA OpenStep == BackupInv /\ Open => BackupInv'
<1> SUFFICES ASSUME BackupInv, Open PROVE BackupInv'
  OBVIOUS
<1>1. /\ file = "none" /\ status' = "running" /\ file' = "partial"
      /\ place' = [table |-> 1, offset |-> 0] /\ archive' = [t \in Table |-> <<>>]
      /\ before' = db /\ quiet' = TRUE /\ shrunk' = FALSE
      /\ UNCHANGED <<db, unused, syncs, downloaded, crossed>>
  BY DEF Open, tables
<1>2. ~ shrunk /\ ~ downloaded /\ ~ crossed
  BY <1>1 DEF BackupInv, StagesTrue
<1>3. TablesTyped(db) /\ Claims(db)
  BY <1>2 DEF BackupInv, TablesTrue
<1>4. \A t \in Table : archive'[t] = <<>> /\ Written(t)' = {}
  BY <1>1 DEF Written, ToSet
<1>5. place'.table = 1 /\ place'.offset = 0
  BY <1>1
<1>6. \A t : ~ ReadYet(t)'
  BY <1>1, <1>5 DEF ReadYet
<1>7. \A t \in Table : \A k \in Ids(db[t]) : 0 < PlaceOf(t, k)'
  <2>1. \A t, k : PlaceOf(t, k)' = PlaceOf(t, k)
    BY <1>1 DEF PlaceOf
  <2>2. ASSUME NEW t \in Table, NEW k \in Ids(db[t]) PROVE 0 < PlaceOf(t, k)
    <3>1. PlaceOf(t, k) \in 1 .. Cardinality(Ids(db[t])) /\ Cardinality(Ids(db[t])) \in Nat
      BY <1>3, PlacesApart
    <3> QED
      BY <3>1
  <2> QED
    BY <2>1, <2>2
<1>8. TablesTrue'
  BY <1>1, <1>3 DEF TablesTrue
<1>9. UnusedTrue'
  <2>1. Ids(Written("tracked_addresses"))' = {}
    BY <1>4, TableIs DEF Ids
  <2> QED
    BY <1>1, <2>1 DEF BackupInv, UnusedTrue
<1>10. SyncsTrue'
  BY <1>1 DEF BackupInv, SyncsTrue
<1>11. StagesTrue'
  <2>1. crossed \in BOOLEAN
    BY DEF BackupInv, StagesTrue
  <2>2. place'.table \in 0 .. 5 /\ place'.offset \in Nat /\ place'.table # 0
    BY <1>5
  <2> QED
    BY <1>1, <1>2, <2>1, <2>2, Zenon DEF StagesTrue
<1>12. ArchiveTyped'
  <2>1. archive' \in [Table -> Seq(BackupRow)]
    BY <1>1
  <2> QED
    BY <1>4, <2>1, TableIs DEF ArchiveTyped
<1>13. IdsKept'
  <2> SUFFICES ASSUME NEW t \in Table, NEW k \in Ids(db[t]) PROVE Ahead(t, k)'
    BY <1>1, <1>6 DEF IdsKept
  <2> QED
    BY <1>5, <1>7 DEF Ahead
<1>14. ClaimsKept'
  BY <1>4, TableIs DEF ClaimsKept
<1>15. QuietKept'
  <2> SUFFICES ASSUME NEW t \in Table
               PROVE  /\ OnceByKey(archive'[t])
                      /\ Written(t)' = {r \in db[t] : PlaceOf(t, r.key)' <= place'.offset}
    BY <1>1, <1>3, <1>6 DEF QuietKept
  <2>1. OnceByKey(archive'[t])
    BY <1>4 DEF OnceByKey
  <2>2. \A r \in db[t] : ~ (PlaceOf(t, r.key)' <= 0)
    <3> SUFFICES ASSUME NEW r \in db[t] PROVE ~ (PlaceOf(t, r.key) <= 0)
      BY <1>1 DEF PlaceOf
    <3>1. r.key \in Ids(db[t])
      BY DEF Ids
    <3>2. PlaceOf(t, r.key) \in 1 .. Cardinality(Ids(db[t])) /\ Cardinality(Ids(db[t])) \in Nat
      BY <1>3, <3>1, PlacesApart
    <3> QED
      BY <3>2
  <2> QED
    BY <1>4, <1>5, <2>1, <2>2
<1> QED
  BY <1>8, <1>9, <1>10, <1>11, <1>12, <1>13, <1>14, <1>15 DEF BackupInv

LEMMA FinishStep == BackupInv /\ Finish => BackupInv'
<1> SUFFICES ASSUME BackupInv, Finish PROVE BackupInv'
  OBVIOUS
<1>1. /\ place.table = 5 /\ file' = "whole" /\ status' = "completed" /\ place' = Nowhere
      /\ UNCHANGED <<db, unused, syncs, archive, downloaded, before, quiet, shrunk, crossed>>
  BY ListedAre DEF Finish, tables
<1>2. Reading /\ Begun
  BY <1>1 DEF Reading, Begun, Nowhere
<1>3. \A t \in Table : ReadYet(t)
  <2>1. \A n \in 1 .. 4 : n < place.table
    BY <1>1
  <2>2. \A t \in Table : \E n \in 1 .. 4 : Listed[n] = t
    <3>1. 1 \in 1 .. 4 /\ 2 \in 1 .. 4 /\ 3 \in 1 .. 4 /\ 4 \in 1 .. 4
      OBVIOUS
    <3> QED
      BY <3>1, ListedAre, TableIs
  <2> QED
    BY <2>1, <2>2 DEF ReadYet
<1>4. ~ Reading' /\ place'.table = 0 /\ place'.offset = 0
  BY <1>1 DEF Reading, Nowhere
<1>5. \A t : Written(t)' = Written(t)
  BY <1>1 DEF Written
<1>6. TablesTrue' /\ SyncsTrue'
  BY <1>1 DEF BackupInv, TablesTrue, SyncsTrue
<1>7. UnusedTrue'
  <2>1. Written("tracked_addresses")' = Written("tracked_addresses")
    BY <1>5
  <2> QED
    BY <1>1, <2>1 DEF BackupInv, UnusedTrue
<1>8. StagesTrue'
  <2>1. place' \in [table : 0 .. 5, offset : Nat]
    BY <1>1 DEF Nowhere
  <2> QED
    BY <1>1, <1>4, <2>1 DEF BackupInv, StagesTrue
<1>9. ArchiveTyped'
  <2>1. /\ Written("tracked_addresses")' = Written("tracked_addresses")
        /\ Written("address_sync_state")' = Written("address_sync_state")
    BY <1>5
  <2> QED
    BY <1>1, <1>4, <2>1 DEF BackupInv, ArchiveTyped
<1>10. IdsKept'
  BY <1>1, <1>2, <1>3, <1>4, <1>5 DEF BackupInv, IdsKept
<1>11. ClaimsKept'
  BY <1>1, <1>2, <1>3, <1>4, <1>5, TableIs DEF BackupInv, ClaimsKept
<1>12. QuietKept'
  BY <1>1, <1>2, <1>3, <1>4, <1>5 DEF BackupInv, QuietKept
<1> QED
  BY <1>6, <1>7, <1>8, <1>9, <1>10, <1>11, <1>12 DEF BackupInv

\* An archive comes to a table that it has written nothing of.
LEMMA AtApart ==
  ASSUME StagesTrue, NEW t \in Table, AtTable(t)
  PROVE  /\ Reading /\ file = "partial" /\ place.table \in 1 .. 4 /\ ~ ReadYet(t)
         /\ \A u \in Table : AtTable(u) => u = t
<1>1. place.table \in 1 .. 4 /\ Listed[place.table] = t
  BY DEF AtTable
<1>2. Reading
  <2>1. place.table # 0
    BY <1>1
  <2> QED
    BY <2>1 DEF Reading, Nowhere
<1>3. file = "partial"
  BY <1>2 DEF StagesTrue
<1>4. \A i, j \in 1 .. 4 : Listed[i] = Listed[j] => i = j
  <2>1. \A i \in 1 .. 4 : i = 1 \/ i = 2 \/ i = 3 \/ i = 4
    OBVIOUS
  <2> QED
    BY <2>1, ListedAre
<1>5. ~ ReadYet(t)
  <2>1. \A n \in 1 .. 4 : n < place.table => n # place.table
    BY <1>1
  <2> QED
    BY <1>1, <1>3, <1>4, <2>1 DEF ReadYet
<1> QED
  BY <1>1, <1>2, <1>3, <1>5 DEF AtTable

LEMMA TurnPageStep ==
  ASSUME BackupInv, NEW t \in Table, AtTable(t),
         PageOf(t, place.offset) = <<>>,
         place' = [table |-> place.table + 1, offset |-> 0],
         UNCHANGED <<db, unused, syncs, file, archive, downloaded, before, quiet, shrunk,
                     crossed, status>>
  PROVE  BackupInv'
<1>1. TablesTyped(db) /\ StagesTrue
  BY DEF BackupInv, TablesTrue
<1>2. /\ Reading /\ file = "partial" /\ place.table \in 1 .. 4 /\ ~ ReadYet(t)
      /\ \A u \in Table : AtTable(u) => u = t
  BY <1>1, AtApart
<1>3. \A k \in Ids(db[t]) : PlaceOf(t, k) <= place.offset
  <2>1. place.offset \in Nat
    BY <1>1 DEF StagesTrue
  <2>2. PageTrue(t, place.offset, PageOf(t, place.offset))
    BY <1>1, <2>1, PageIs
  <2> QED
    BY <2>2 DEF PageTrue
<1>4. place'.table = place.table + 1 /\ place'.offset = 0
  OBVIOUS
<1>5. Reading'
  <2>1. place'.table # 0
    BY <1>2, <1>4
  <2> QED
    BY <2>1 DEF Reading, Nowhere
<1>6. /\ \A u : Written(u)' = Written(u)
      /\ \A u, k : PlaceOf(u, k)' = PlaceOf(u, k)
  BY DEF Written, PlaceOf
<1>7. \A u \in Table : ReadYet(u)' <=> ReadYet(u) \/ u = t
  <2>1. \A n \in 1 .. 4 : n < place'.table <=> n < place.table \/ n = place.table
    BY <1>2, <1>4
  <2> QED
    BY <1>2, <2>1 DEF ReadYet, AtTable
<1>8. \A u \in Table : AtTable(u)' => ~ ReadYet(u) /\ ~ AtTable(u)
  <2> SUFFICES ASSUME NEW u \in Table, AtTable(u)' PROVE ~ ReadYet(u) /\ ~ AtTable(u)
    OBVIOUS
  <2>1. place.table + 1 \in 1 .. 4 /\ Listed[place.table + 1] = u
    BY <1>4 DEF AtTable
  <2>2. \A i, j \in 1 .. 4 : Listed[i] = Listed[j] => i = j
    <3>1. \A i \in 1 .. 4 : i = 1 \/ i = 2 \/ i = 3 \/ i = 4
      OBVIOUS
    <3> QED
      BY <3>1, ListedAre
  <2>3. \A n \in 1 .. 4 : n < place.table \/ n = place.table => n # place.table + 1
    BY <1>2
  <2>4. ~ ReadYet(u)
    BY <1>2, <2>1, <2>2, <2>3 DEF ReadYet
  <2>5. place.table # place.table + 1
    BY <1>2
  <2> QED
    BY <1>2, <2>1, <2>2, <2>4, <2>5 DEF AtTable
<1>9. \A u \in Table : AtTable(u)' => Written(u) = {}
  <2> SUFFICES ASSUME NEW u \in Table, AtTable(u)' PROVE Written(u) = {}
    OBVIOUS
  <2>1. archive[u] = <<>>
    BY <1>2, <1>8 DEF BackupInv, ArchiveTyped
  <2> QED
    BY <2>1 DEF Written, ToSet
<1>10. \A u \in Table : \A k \in Ids(db[u]) : 0 < PlaceOf(u, k)
  <2> SUFFICES ASSUME NEW u \in Table, NEW k \in Ids(db[u]) PROVE 0 < PlaceOf(u, k)
    OBVIOUS
  <2>1. PlaceOf(u, k) \in 1 .. Cardinality(Ids(db[u])) /\ Cardinality(Ids(db[u])) \in Nat
    BY <1>1, PlacesApart
  <2> QED
    BY <2>1
<1>11. TablesTrue' /\ SyncsTrue'
  BY DEF BackupInv, TablesTrue, SyncsTrue
<1>12. UnusedTrue'
  <2>1. Written("tracked_addresses")' = Written("tracked_addresses")
    BY <1>6
  <2> QED
    BY <2>1 DEF BackupInv, UnusedTrue
<1>13. StagesTrue'
  <2>1. place'.table \in 0 .. 5 /\ place'.table # 0 /\ place'.offset \in Nat
    BY <1>2, <1>4
  <2> QED
    BY <1>1, <1>2, <2>1 DEF StagesTrue
<1>14. ArchiveTyped'
  <2>1. /\ Written("tracked_addresses")' = Written("tracked_addresses")
        /\ Written("address_sync_state")' = Written("address_sync_state")
    BY <1>6
  <2>2. \A u \in Table : ~ ReadYet(u)' => ~ ReadYet(u) /\ ~ AtTable(u)
    BY <1>2, <1>7
  <2> QED
    BY <1>2, <2>1, <2>2 DEF BackupInv, ArchiveTyped
<1>a. place.offset \in Nat
  BY <1>1 DEF StagesTrue
<1>15. IdsKept'
  <2> SUFFICES ASSUME ~ shrunk, NEW u \in Table
               PROVE  /\ \A k \in Ids(before[u]) : k \in Ids(db[u]) /\ Ahead(u, k)'
                      /\ ReadYet(u)' => Ids(before[u]) \subseteq Ids(Written(u))
    BY <1>5, <1>6 DEF IdsKept
  <2>1. /\ \A k \in Ids(before[u]) : k \in Ids(db[u]) /\ Ahead(u, k)
        /\ ReadYet(u) => Ids(before[u]) \subseteq Ids(Written(u))
    BY <1>2 DEF BackupInv, IdsKept, Begun
  <2>2. \A k \in Ids(before[u]) : Ahead(u, k)'
    BY <1>4, <1>6, <1>10, <2>1 DEF Ahead
  <2>3. ASSUME u = t PROVE Ids(before[u]) \subseteq Ids(Written(u))
    <3> SUFFICES ASSUME NEW k \in Ids(before[u]) PROVE k \in Ids(Written(u))
      OBVIOUS
    <3>1. k \in Ids(db[t]) /\ Ahead(t, k)
      BY <2>1, <2>3
    <3>2. PlaceOf(t, k) <= place.offset /\ PlaceOf(t, k) \in Nat
      <4>1. PlaceOf(t, k) \in 1 .. Cardinality(Ids(db[t])) /\ Cardinality(Ids(db[t])) \in Nat
        BY <1>1, <3>1, PlacesApart
      <4> QED
        BY <1>3, <3>1, <4>1
    <3>3. ~ (place.offset < PlaceOf(t, k))
      BY <1>a, <3>2
    <3> QED
      BY <2>3, <3>1, <3>3 DEF Ahead
  <2> QED
    BY <1>7, <2>1, <2>2, <2>3
<1>16. ClaimsKept'
  <2> DEFINE ct == "chain_transactions"
  <2>0. ct \in Table
    BY TableIs
  <2> SUFFICES ASSUME ~ shrunk, NEW c \in Written("address_sync_state"),
                      NEW i \in 1 .. c.number
               PROVE  /\ Imported({r \in db[ct] : RowAhead(ct, r)'}, c.of, i)
                      /\ ReadYet(ct)' => Imported(Written(ct), c.of, i)
    BY <1>5, <1>6 DEF ClaimsKept
  <2>1. /\ Imported({r \in db[ct] : RowAhead(ct, r)}, c.of, i)
        /\ ReadYet(ct) => Imported(Written(ct), c.of, i)
    BY <1>2 DEF BackupInv, ClaimsKept, Begun
  <2> HIDE DEF ct
  <2>2. PICK r \in db[ct] : RowAhead(ct, r) /\ r.of = c.of /\ r.number = i
    BY <2>1 DEF Imported
  <2>3. r.key \in Ids(db[ct])
    BY DEF Ids
  <2>4. RowAhead(ct, r)'
    BY <1>4, <1>6, <1>10, <2>0, <2>3 DEF RowAhead
  <2>5. ASSUME ct = t PROVE r \in Written(ct)
    <3>1. PlaceOf(t, r.key) <= place.offset /\ PlaceOf(t, r.key) \in Nat
      <4>1. PlaceOf(t, r.key) \in 1 .. Cardinality(Ids(db[t])) /\ Cardinality(Ids(db[t])) \in Nat
        BY <1>1, <2>3, <2>5, PlacesApart
      <4> QED
        BY <1>3, <2>3, <2>5, <4>1
    <3>2. ~ (place.offset < PlaceOf(ct, r.key))
      BY <1>a, <2>5, <3>1
    <3> QED
      BY <2>2, <2>5, <3>2 DEF RowAhead
  <2> QED
    BY <1>7, <2>0, <2>1, <2>2, <2>4, <2>5 DEF Imported
<1>17. QuietKept'
  <2> SUFFICES ASSUME quiet, NEW u \in Table
               PROVE  /\ ReadYet(u)' => Written(u) = before[u]
                      /\ AtTable(u)' => Written(u) = {r \in before[u] : PlaceOf(u, r.key) <= 0}
    <3>2. quiet => TablesTyped(before) /\ db = before /\ \A v \in Table : OnceByKey(archive[v])
      BY <1>2 DEF BackupInv, QuietKept, Begun
    <3> QED
      BY <1>4, <1>5, <1>6, <3>2 DEF QuietKept
  <2>1. /\ db = before /\ (ReadYet(u) => Written(u) = before[u])
        /\ AtTable(u) => Written(u) = {r \in before[u] : PlaceOf(u, r.key) <= place.offset}
    BY <1>2 DEF BackupInv, QuietKept, Begun
  <2>2. u = t => Written(u) = before[u]
    <3>1. \A r \in db[t] : PlaceOf(t, r.key) <= place.offset
      BY <1>3 DEF Ids
    <3> QED
      BY <2>1, <3>1
  <2>3. \A r \in before[u] : ~ (PlaceOf(u, r.key) <= 0)
    <3> SUFFICES ASSUME NEW r \in db[u] PROVE ~ (PlaceOf(u, r.key) <= 0)
      BY <2>1
    <3>1. r.key \in Ids(db[u])
      BY DEF Ids
    <3>2. PlaceOf(u, r.key) \in 1 .. Cardinality(Ids(db[u])) /\ Cardinality(Ids(db[u])) \in Nat
      BY <1>1, <3>1, PlacesApart
    <3> QED
      BY <3>2
  <2>4. {r \in before[u] : PlaceOf(u, r.key) <= 0} = {}
    BY <2>3
  <2> QED
    BY <1>7, <1>9, <2>1, <2>2, <2>4
<1> QED
  BY <1>11, <1>12, <1>13, <1>14, <1>15, <1>16, <1>17 DEF BackupInv

LEMMA ReadRowsStep ==
  ASSUME BackupInv, NEW t \in Table, AtTable(t),
         NEW rows, PageTrue(t, place.offset, rows), rows # <<>>,
         place' = [place EXCEPT !.offset = @ + Len(rows)],
         place'.table = place.table, place'.offset = place.offset + Len(rows),
         archive' = [archive EXCEPT ![t] = @ \o rows],
         UNCHANGED <<db, unused, syncs, file, downloaded, before, quiet, shrunk,
                     crossed, status>>
  PROVE  BackupInv'
<1>1. TablesTyped(db) /\ StagesTrue /\ place.offset \in Nat
  BY DEF BackupInv, TablesTrue, StagesTrue
<1>2. /\ Reading /\ Begun /\ file = "partial" /\ place.table \in 1 .. 4 /\ ~ ReadYet(t)
      /\ \A u \in Table : AtTable(u) => u = t
  BY <1>1, AtApart DEF Begun
<1>3. /\ rows \in Seq(BackupRow) /\ ToSet(rows) \subseteq db[t] /\ DOMAIN rows = 1 .. Len(rows)
      /\ Len(rows) \in Nat /\ Len(rows) > 0
      /\ \A i \in 1 .. Len(rows) : rows[i] \in db[t] /\ PlaceOf(t, rows[i].key) = place.offset + i
      /\ \A r \in db[t] : place.offset < PlaceOf(t, r.key)
                          /\ PlaceOf(t, r.key) <= place.offset + Len(rows) => r \in ToSet(rows)
  BY DEF PageTrue
<1>4. archive \in [Table -> Seq(BackupRow)]
  BY DEF BackupInv, ArchiveTyped
<1>5. /\ archive' \in [Table -> Seq(BackupRow)] /\ archive'[t] = archive[t] \o rows
      /\ \A u \in Table : u # t => archive'[u] = archive[u]
  <2>1. archive[t] \o rows \in Seq(BackupRow)
    BY <1>3, <1>4, ConcatProperties
  <2> QED
    BY <1>4, <2>1
<1>6. /\ Written(t)' = Written(t) \cup ToSet(rows)
      /\ \A u \in Table : u # t => Written(u)' = Written(u)
  <2> DEFINE s == archive[t]
             m == Len(s)
             n == Len(rows)
  <2>1. s \in Seq(BackupRow) /\ m \in Nat /\ DOMAIN s = 1 .. m /\ n \in Nat
    BY <1>3, <1>4, LenProperties
  <2>2. /\ s \o rows \in Seq(BackupRow) /\ Len(s \o rows) = m + n
        /\ \A i \in 1 .. m + n : (s \o rows)[i] = IF i <= m THEN s[i] ELSE rows[i - m]
    BY <1>3, <2>1, ConcatProperties
  <2>3. DOMAIN (s \o rows) = 1 .. m + n
    BY <2>2, LenProperties
  <2> HIDE DEF s, m, n
  <2>4. ASSUME NEW x \in ToSet(s \o rows) PROVE x \in ToSet(s) \cup ToSet(rows)
    <3>1. PICK i \in 1 .. m + n : x = (s \o rows)[i]
      BY <2>3, <2>4 DEF ToSet
    <3>2. CASE i <= m
      <4>1. i \in 1 .. m /\ x = s[i]
        BY <2>1, <2>2, <3>1, <3>2
      <4> QED
        BY <2>1, <4>1 DEF ToSet
    <3>3. CASE ~ (i <= m)
      <4>1. i - m \in 1 .. n /\ x = rows[i - m]
        BY <2>1, <2>2, <3>1, <3>3
      <4>2. i - m \in DOMAIN rows
        BY <1>3, <4>1 DEF n
      <4> QED
        BY <4>1, <4>2 DEF ToSet
    <3> QED
      BY <3>2, <3>3
  <2>5. ASSUME NEW i \in 1 .. m PROVE s[i] \in ToSet(s \o rows)
    <3>1. i \in 1 .. m + n /\ i <= m
      BY <2>1
    <3>2. (s \o rows)[i] = s[i]
      BY <2>2, <3>1
    <3> QED
      BY <2>3, <3>1, <3>2 DEF ToSet
  <2>6. ASSUME NEW i \in 1 .. n PROVE rows[i] \in ToSet(s \o rows)
    <3>1. i + m \in 1 .. m + n /\ ~ (i + m <= m) /\ (i + m) - m = i
      BY <2>1
    <3>2. (s \o rows)[i + m] = rows[i]
      BY <2>2, <3>1
    <3> QED
      BY <2>3, <3>1, <3>2 DEF ToSet
  <2>7. ToSet(s) \subseteq ToSet(s \o rows) /\ ToSet(rows) \subseteq ToSet(s \o rows)
    BY <1>3, <2>1, <2>5, <2>6 DEF ToSet, n
  <2>8. ToSet(s \o rows) = ToSet(s) \cup ToSet(rows)
    BY <2>4, <2>7
  <2> QED
    BY <1>5, <2>8 DEF Written, s
<1>7. /\ Reading' /\ Begun'
      /\ \A u : ReadYet(u)' = ReadYet(u) /\ AtTable(u)' = AtTable(u)
      /\ \A u, k : PlaceOf(u, k)' = PlaceOf(u, k)
  <2>1. place'.table # 0
    BY <1>2
  <2>2. Reading'
    BY <2>1 DEF Reading, Nowhere
  <2> QED
    BY <2>2 DEF Begun, ReadYet, AtTable, PlaceOf
<1>8. \A u \in Table : Written(u) \subseteq Written(u)' /\ Ids(Written(u)) \subseteq Ids(Written(u)')
  <2>1. \A u \in Table : Written(u) \subseteq Written(u)'
    BY <1>6
  <2> QED
    BY <2>1 DEF Ids
<1>9. ToSet(rows) \subseteq Written(t)'
  BY <1>6
<1>10. \A k \in Ids(db[t]) : PlaceOf(t, k) \in Nat
  <2> SUFFICES ASSUME NEW k \in Ids(db[t]) PROVE PlaceOf(t, k) \in Nat
    OBVIOUS
  <2>1. PlaceOf(t, k) \in 1 .. Cardinality(Ids(db[t])) /\ Cardinality(Ids(db[t])) \in Nat
    BY <1>1, PlacesApart
  <2> QED
    BY <2>1
<1>11. \A r \in db[t] : place.offset < PlaceOf(t, r.key) =>
         r \in Written(t)' \/ place'.offset < PlaceOf(t, r.key)
  <2> SUFFICES ASSUME NEW r \in db[t], place.offset < PlaceOf(t, r.key),
                      ~ (place'.offset < PlaceOf(t, r.key))
               PROVE  r \in Written(t)'
    OBVIOUS
  <2>1. PlaceOf(t, r.key) \in Nat
    BY <1>10 DEF Ids
  <2>2. PlaceOf(t, r.key) <= place.offset + Len(rows)
    BY <1>1, <1>3, <2>1
  <2> QED
    BY <1>3, <1>9, <2>2
<1>12. TablesTrue' /\ SyncsTrue'
  BY DEF BackupInv, TablesTrue, SyncsTrue
<1>13. UnusedTrue'
  <2>1. \A k \in Ids(Written("tracked_addresses")') :
          k \in Ids(Written("tracked_addresses")) \/ k \in Tracked(db)
    <3> SUFFICES ASSUME NEW r \in Written("tracked_addresses")'
                 PROVE  r \in Written("tracked_addresses") \/ r \in db["tracked_addresses"]
      BY DEF Ids, Tracked
    <3> QED
      BY <1>3, <1>6, TableIs
  <2> QED
    BY <2>1 DEF BackupInv, UnusedTrue
<1>14. StagesTrue'
  <2>1. place'.table \in 0 .. 5 /\ place'.table # 0 /\ place'.offset \in Nat
    BY <1>1, <1>2, <1>3
  <2> QED
    BY <1>1, <1>2, <2>1 DEF StagesTrue
<1>15. ArchiveTyped'
  <2>1. \A r \in Written("tracked_addresses")' : r.of = 0 /\ r.key # 0
    <3>1. \A r \in Written("tracked_addresses")' :
            r \in Written("tracked_addresses") \/ r \in db["tracked_addresses"]
      BY <1>3, <1>6, TableIs
    <3> QED
      BY <1>1, <3>1 DEF BackupInv, ArchiveTyped, TablesTyped
  <2>2. \A r \in Written("address_sync_state")' : r.key = r.of
    <3>1. \A r \in Written("address_sync_state")' :
            r \in Written("address_sync_state") \/ r \in db["address_sync_state"]
      BY <1>3, <1>6, TableIs
    <3> QED
      BY <1>1, <3>1 DEF BackupInv, ArchiveTyped, TablesTyped
  <2>3. \A u \in Table : ~ ReadYet(u)' /\ ~ AtTable(u)' => archive'[u] = <<>>
    <3>1. \A u \in Table : ~ ReadYet(u) /\ ~ AtTable(u) => archive[u] = <<>> /\ u # t
      BY <1>2 DEF BackupInv, ArchiveTyped
    <3> QED
      BY <1>5, <1>7, <3>1
  <2> QED
    BY <1>5, <2>1, <2>2, <2>3 DEF ArchiveTyped
<1>16. IdsKept'
  <2> SUFFICES ASSUME ~ shrunk, NEW u \in Table
               PROVE  /\ \A k \in Ids(before[u]) : k \in Ids(db[u]) /\ Ahead(u, k)'
                      /\ ReadYet(u) => Ids(before[u]) \subseteq Ids(Written(u)')
    BY <1>7 DEF IdsKept
  <2>1. /\ \A k \in Ids(before[u]) : k \in Ids(db[u]) /\ Ahead(u, k)
        /\ ReadYet(u) => Ids(before[u]) \subseteq Ids(Written(u))
    BY <1>2 DEF BackupInv, IdsKept
  <2>2. ASSUME NEW k \in Ids(before[u]) PROVE Ahead(u, k)'
    <3> SUFFICES ASSUME AtTable(u)
                 PROVE  k \in Ids(Written(u)') \/ place'.offset < PlaceOf(u, k)
      BY <1>7 DEF Ahead
    <3>1. u = t /\ k \in Ids(db[t])
      BY <1>2, <2>1, <2>2
    <3>2. k \in Ids(Written(t)) \/ place.offset < PlaceOf(t, k)
      BY <2>1, <2>2, <3>1 DEF Ahead
    <3>3. PICK r \in db[t] : r.key = k
      BY <3>1 DEF Ids
    <3>4. r \in Written(t)' => k \in Ids(Written(t)')
      BY <3>3 DEF Ids
    <3> QED
      BY <1>8, <1>11, <3>1, <3>2, <3>3, <3>4
  <2> QED
    BY <1>8, <2>1, <2>2
<1>17. ClaimsKept'
  <2> DEFINE ct == "chain_transactions"
             cs == "address_sync_state"
  <2>0. ct \in Table /\ cs \in Table /\ ct # cs
    BY TableIs
  <2> SUFFICES ASSUME ~ shrunk, NEW c \in Written(cs)', NEW i \in 1 .. c.number
               PROVE  /\ Imported({r \in db[ct] : RowAhead(ct, r)'}, c.of, i)
                      /\ ReadYet(ct) => Imported(Written(ct)', c.of, i)
    BY <1>7 DEF ClaimsKept
  <2>1. ASSUME NEW r \in db[ct], RowAhead(ct, r) PROVE RowAhead(ct, r)'
    <3> SUFFICES ASSUME AtTable(ct)
                 PROVE  r \in Written(ct)' \/ place'.offset < PlaceOf(ct, r.key)
      BY <1>7 DEF RowAhead
    <3>1. ct = t
      BY <1>2, <2>0
    <3>2. r \in Written(ct) \/ place.offset < PlaceOf(ct, r.key)
      BY <2>1 DEF RowAhead
    <3> QED
      BY <1>8, <1>11, <2>0, <3>1, <3>2
  <2>2. CASE c \in Written(cs)
    <3>1. /\ Imported({r \in db[ct] : RowAhead(ct, r)}, c.of, i)
          /\ ReadYet(ct) => Imported(Written(ct), c.of, i)
      BY <1>2, <2>2 DEF BackupInv, ClaimsKept
    <3> HIDE DEF ct, cs
    <3> QED
      BY <1>8, <2>0, <2>1, <3>1 DEF Imported
  <2>3. CASE c \notin Written(cs)
    <3>1. cs = t /\ c \in db[cs]
      BY <1>3, <1>6, <2>0, <2>3
    <3>2. Claims(db)
      BY <1>2 DEF BackupInv, TablesTrue, StagesTrue
    <3>3. i \in HistoryOf(db, c.of)
      BY <3>1, <3>2 DEF Claims
    <3>4. \E r \in db[ct] : r.of = c.of /\ r.number = i
      BY <3>3 DEF HistoryOf
    <3>5. ~ AtTable(ct)
      BY <1>2, <2>0, <3>1
    <3>6. ~ ReadYet(ct)
      <4>1. Listed[2] = cs /\ 2 \in 1 .. 4
        BY ListedAre
      <4>2. \A n \in 1 .. 4 : n < place.table => n < 3
        <5>1. Listed[place.table] = cs
          BY <3>1 DEF AtTable
        <5>2. place.table = 1 \/ place.table = 2 \/ place.table = 3 \/ place.table = 4
          BY <1>2
        <5>3. place.table = 2
          BY <5>1, <5>2, ListedAre
        <5> QED
          BY <5>3
      <4>3. \A n \in 1 .. 4 : n < 3 => n = 1 \/ n = 2
        OBVIOUS
      <4> QED
        BY <1>2, <4>2, <4>3, ListedAre DEF ReadYet
    <3>7. \A r : RowAhead(ct, r)'
      BY <1>7, <3>5 DEF RowAhead
    <3> QED
      BY <3>4, <3>6, <3>7 DEF Imported
  <2> QED
    BY <2>2, <2>3
<1>18. QuietKept'
  <2> SUFFICES ASSUME quiet
               PROVE  /\ TablesTyped(before) /\ db = before
                      /\ \A u \in Table :
                           /\ OnceByKey(archive'[u])
                           /\ ReadYet(u) => Written(u)' = before[u]
                           /\ AtTable(u) =>
                                Written(u)' = {r \in before[u] : PlaceOf(u, r.key) <= place'.offset}
    BY <1>7 DEF QuietKept
  <2>1. /\ TablesTyped(before) /\ db = before
        /\ \A u \in Table :
             /\ OnceByKey(archive[u])
             /\ ReadYet(u) => Written(u) = before[u]
             /\ AtTable(u) =>
                  Written(u) = {r \in before[u] : PlaceOf(u, r.key) <= place.offset}
    BY <1>2 DEF BackupInv, QuietKept
  <2>2. \A r \in db[t] : PlaceOf(t, r.key) \in Nat
    BY <1>10 DEF Ids
  <2>3. Written(t)' = {r \in before[t] : PlaceOf(t, r.key) <= place'.offset}
    <3>1. \A r \in Written(t)' : r \in db[t] /\ PlaceOf(t, r.key) <= place'.offset
      <4> SUFFICES ASSUME NEW r \in Written(t)'
                   PROVE  r \in db[t] /\ PlaceOf(t, r.key) <= place'.offset
        OBVIOUS
      <4>1. CASE r \in Written(t)
        <5>1. r \in db[t] /\ PlaceOf(t, r.key) <= place.offset
          BY <2>1, <4>1
        <5> QED
          BY <1>1, <1>3, <2>2, <5>1
      <4>2. CASE r \in ToSet(rows)
        <5>1. PICK i \in 1 .. Len(rows) : rows[i] = r
          BY <1>3, <4>2 DEF ToSet
        <5>2. r \in db[t] /\ PlaceOf(t, r.key) = place.offset + i
          BY <1>3, <5>1
        <5> QED
          BY <1>1, <1>3, <5>1, <5>2
      <4> QED
        BY <1>6, <4>1, <4>2
    <3>2. \A r \in db[t] : PlaceOf(t, r.key) <= place'.offset => r \in Written(t)'
      <4> SUFFICES ASSUME NEW r \in db[t], PlaceOf(t, r.key) <= place'.offset
                   PROVE  r \in Written(t)'
        OBVIOUS
      <4>1. CASE PlaceOf(t, r.key) <= place.offset
        BY <1>6, <2>1, <4>1
      <4>2. CASE ~ (PlaceOf(t, r.key) <= place.offset)
        <5>1. place.offset < PlaceOf(t, r.key) /\ ~ (place'.offset < PlaceOf(t, r.key))
          BY <1>1, <1>3, <2>2, <4>2
        <5> QED
          BY <1>11, <5>1
      <4> QED
        BY <4>1, <4>2
    <3> QED
      BY <2>1, <3>1, <3>2
  <2>4. OnceByKey(archive'[t])
    <3> DEFINE s == archive[t]
               m == Len(s)
               n == Len(rows)
    <3>1. s \in Seq(BackupRow) /\ m \in Nat /\ DOMAIN s = 1 .. m /\ n \in Nat
      BY <1>3, <1>4, LenProperties
    <3>2. /\ s \o rows \in Seq(BackupRow) /\ Len(s \o rows) = m + n
          /\ \A i \in 1 .. m + n : (s \o rows)[i] = IF i <= m THEN s[i] ELSE rows[i - m]
      BY <1>3, <3>1, ConcatProperties
    <3>3. DOMAIN (s \o rows) = 1 .. m + n
      BY <3>2, LenProperties
    <3>4. \A i \in 1 .. m : s[i] \in db[t] /\ PlaceOf(t, s[i].key) <= place.offset
      <4>1. \A i \in 1 .. m : s[i] \in Written(t)
        BY <3>1 DEF Written, ToSet
      <4> QED
        BY <2>1, <4>1
    <3>5. \A i \in 1 .. n : PlaceOf(t, rows[i].key) = place.offset + i
      BY <1>3
    <3>6. OnceByKey(s)
      BY <2>1
    <3>7. archive'[t] = s \o rows
      BY <1>5
    <3> HIDE DEF s, m, n
    <3>8. ASSUME NEW i \in 1 .. m, NEW j \in 1 .. n PROVE s[i].key # rows[j].key
      <4>1. PlaceOf(t, s[i].key) <= place.offset /\ PlaceOf(t, rows[j].key) = place.offset + j
        BY <3>4, <3>5
      <4> QED
        BY <1>1, <3>1, <4>1
    <3>9. ASSUME NEW i \in 1 .. n, NEW j \in 1 .. n, rows[i].key = rows[j].key PROVE i = j
      <4>1. place.offset + i = place.offset + j
        BY <3>5, <3>9
      <4> QED
        BY <1>1, <4>1
    <3>10. ASSUME NEW i \in 1 .. m + n, NEW j \in 1 .. m + n,
                  (s \o rows)[i].key = (s \o rows)[j].key
           PROVE  i = j
      <4>1. /\ (s \o rows)[i] = IF i <= m THEN s[i] ELSE rows[i - m]
            /\ (s \o rows)[j] = IF j <= m THEN s[j] ELSE rows[j - m]
        BY <3>2
      <4>2. /\ i <= m => i \in 1 .. m
            /\ j <= m => j \in 1 .. m
            /\ ~ (i <= m) => i - m \in 1 .. n
            /\ ~ (j <= m) => j - m \in 1 .. n
        BY <3>1
      <4>3. CASE i <= m /\ j <= m
        BY <3>1, <3>6, <3>10, <4>1, <4>2, <4>3 DEF OnceByKey
      <4>4. CASE i <= m /\ ~ (j <= m)
        BY <3>8, <3>10, <4>1, <4>2, <4>4
      <4>5. CASE ~ (i <= m) /\ j <= m
        BY <3>8, <3>10, <4>1, <4>2, <4>5
      <4>6. CASE ~ (i <= m) /\ ~ (j <= m)
        <5>1. i - m = j - m
          BY <3>9, <3>10, <4>1, <4>2, <4>6
        <5> QED
          BY <3>1, <5>1
      <4> QED
        BY <4>3, <4>4, <4>5, <4>6
    <3> QED
      BY <3>3, <3>7, <3>10 DEF OnceByKey
  <2> QED
    BY <1>2, <1>5, <1>6, <2>1, <2>3, <2>4
<1> QED
  BY <1>12, <1>13, <1>14, <1>15, <1>16, <1>17, <1>18 DEF BackupInv

LEMMA ReadPageStep == BackupInv /\ ReadPage => BackupInv'
<1> SUFFICES ASSUME BackupInv, ReadPage PROVE BackupInv'
  OBVIOUS
<1> DEFINE t == Listed[place.table]
           page == PageOf(t, place.offset)
<1>1. place.table \in 1 .. 4 /\ t \in Table /\ AtTable(t)
  <2>1. place.table \in 1 .. 4
    BY ListedAre DEF ReadPage
  <2>2. place.table = 1 \/ place.table = 2 \/ place.table = 3 \/ place.table = 4
    BY <2>1
  <2> QED
    BY <2>1, <2>2, ListedAre, TableIs DEF AtTable
<1>2. UNCHANGED <<db, unused, syncs, file, downloaded, before, quiet, shrunk, crossed, status>>
  BY DEF ReadPage, tables
<1>3. IF page = <<>>
      THEN place' = [table |-> place.table + 1, offset |-> 0] /\ UNCHANGED archive
      ELSE /\ place' = [place EXCEPT !.offset = @ + Len(page)]
           /\ archive' = [archive EXCEPT ![t] = @ \o page]
  BY DEF ReadPage
<1> HIDE DEF t
<1>4. CASE page = <<>>
  <2>1. place' = [table |-> place.table + 1, offset |-> 0] /\ UNCHANGED archive
    BY <1>3, <1>4
  <2> QED
    BY <1>1, <1>2, <1>4, <2>1, TurnPageStep
<1>5. CASE page # <<>>
  <2>1. /\ place' = [place EXCEPT !.offset = @ + Len(page)]
        /\ archive' = [archive EXCEPT ![t] = @ \o page]
    BY <1>3, <1>5
  <2>2. PageTrue(t, place.offset, page)
    <3>1. TablesTyped(db) /\ place.offset \in Nat
      BY DEF BackupInv, TablesTrue, StagesTrue
    <3> QED
      BY <1>1, <3>1, PageIs
  <2>3. place'.table = place.table /\ place'.offset = place.offset + Len(page)
    <3>1. place \in [table : 0 .. 5, offset : Nat]
      BY DEF BackupInv, StagesTrue
    <3> QED
      BY <2>1, <3>1
  <2> HIDE DEF page
  <2> QED
    BY <1>1, <1>2, <1>5, <2>1, <2>2, <2>3, ReadRowsStep
<1> QED
  BY <1>4, <1>5

LEMMA RestoreStep == BackupInv /\ Restore => BackupInv'
<1> SUFFICES ASSUME BackupInv, Restore PROVE BackupInv'
  OBVIOUS
<1> DEFINE ta == "tracked_addresses"
           cs == "address_sync_state"
           ct == "chain_transactions"
<1>1. PICK groups \in Chosen :
        /\ Restored(groups).ok /\ db' = Restored(groups).db
        /\ crossed' = (crossed \/ (syncs # {} /\ "addresses" \in groups))
  BY DEF Restore
<1>2. /\ downloaded
      /\ UNCHANGED <<unused, syncs, place, file, archive, downloaded, before, quiet, shrunk,
                     status>>
  BY DEF Restore, exporting
<1>3. /\ TablesTyped(db) /\ db \in Tabled /\ archive \in [Table -> Seq(BackupRow)]
      /\ file = "whole" /\ ~ Reading /\ crossed \in BOOLEAN
  BY <1>2 DEF BackupInv, TablesTrue, TablesTyped, ArchiveTyped, StagesTrue
<1> DEFINE result == Restored(groups)
<1>4. result \in Result /\ Restoring(groups, result, 4)
  BY <1>3, RestoredIs
<1>5. result.ok /\ db' = result.db
  BY <1>1
<1> HIDE DEF result
<1>6. db' \in Tabled
  BY <1>4, <1>5 DEF Result
<1>7. \A t \in Table : IF t \in TablesOf(groups)
                       THEN db'[t] = Written(t) /\ OneByKey(Written(t)) /\ WellWritten(t)
                       ELSE db'[t] = db[t]
  <2>1. \A t \in Table : \E i \in 1 .. 4 : Listed[i] = t
    <3>1. 1 \in 1 .. 4 /\ 2 \in 1 .. 4 /\ 3 \in 1 .. 4 /\ 4 \in 1 .. 4
      OBVIOUS
    <3> QED
      BY <3>1, ListedAre, TableIs
  <2>2. \A i \in 1 .. 4 : i <= 4
    OBVIOUS
  <2> QED
    BY <1>4, <1>5, <2>1, <2>2 DEF Restoring
<1>8. ta \in Table /\ cs \in Table /\ ct \in Table /\ ta # cs /\ ta # ct
      /\ References = {cs, ct}
  BY TableIs
<1>9. /\ "addresses" \in groups =>
           ta \in TablesOf(groups) /\ cs \in TablesOf(groups) /\ ct \in TablesOf(groups)
      /\ "addresses" \notin groups =>
           ta \notin TablesOf(groups) /\ cs \notin TablesOf(groups) /\ ct \notin TablesOf(groups)
  BY <1>8, TablesOfAre, TableIs
<1> HIDE DEF ta, cs, ct
<1>10. \/ /\ "addresses" \in groups
          /\ db'[ta] = Written(ta) /\ db'[cs] = Written(cs) /\ db'[ct] = Written(ct)
          /\ WellWritten(cs) /\ WellWritten(ct)
       \/ /\ "addresses" \notin groups
          /\ db'[ta] = db[ta] /\ db'[cs] = db[cs] /\ db'[ct] = db[ct]
  BY <1>7, <1>8, <1>9
<1>11. /\ \A r \in Written(ta) : r.of = 0 /\ r.key # 0
       /\ \A r \in Written(cs) : r.key = r.of
  BY DEF BackupInv, ArchiveTyped, ta, cs
<1>12. Tracked(db') = Ids(db'[ta]) /\ Tracked(db) = Ids(db[ta])
  BY DEF Tracked, ta
<1>13. TablesTyped(db')
  <2>1. ASSUME NEW t \in Table PROVE IsFiniteSet(Ids(db'[t])) /\ OneByKey(db'[t])
    <3>1. CASE t \in TablesOf(groups)
      <4> DEFINE s == archive[t]
                 F == [i \in 1 .. Len(s) |-> s[i].key]
      <4>1. s \in Seq(BackupRow) /\ DOMAIN s = 1 .. Len(s) /\ Len(s) \in Nat
        BY <1>3, LenProperties
      <4> HIDE DEF s
      <4>2. Ids(Written(t)) = {F[i] : i \in 1 .. Len(s)}
        BY <4>1 DEF Ids, Written, ToSet, s
      <4> DEFINE I == Ids(Written(t))
      <4>3. F \in Surjection(1 .. Len(s), I)
        BY <4>2 DEF Surjection
      <4>4. IsFiniteSet(1 .. Len(s))
        <5>1. 1 \in Int /\ Len(s) \in Int
          BY <4>1
        <5> QED
          BY <5>1, FS_Interval
      <4> HIDE DEF F, I
      <4>5. IsFiniteSet(I)
        BY <4>3, <4>4, FS_Surjection
      <4> QED
        BY <1>7, <3>1, <4>5 DEF I
    <3>2. CASE t \notin TablesOf(groups)
      BY <1>3, <1>7, <3>2 DEF TablesTyped
    <3> QED
      BY <3>1, <3>2
  <2>2. \A r \in db'[ta] : r.of = 0 /\ r.key # 0
    BY <1>3, <1>10, <1>11 DEF TablesTyped, ta
  <2>3. \A r \in db'[cs] : r.key = r.of
    BY <1>3, <1>10, <1>11 DEF TablesTyped, cs
  <2>4. \A t \in References : \A r \in db'[t] : r.of \in Tracked(db')
    <3>1. CASE "addresses" \in groups
      <4>1. \A t \in References : WellWritten(t) /\ db'[t] = Written(t)
        BY <1>8, <1>10, <3>1
      <4>2. Tracked(db') = Ids(Written("tracked_addresses"))
        BY <1>10, <1>12, <3>1 DEF ta
      <4> QED
        BY <4>1, <4>2 DEF WellWritten
    <3>2. CASE "addresses" \notin groups
      <4>1. \A t \in References : db'[t] = db[t]
        BY <1>8, <1>10, <3>2
      <4>2. Tracked(db') = Tracked(db)
        BY <1>10, <1>12, <3>2
      <4> QED
        BY <1>3, <4>1, <4>2 DEF TablesTyped
    <3> QED
      BY <3>1, <3>2
  <2> QED
    BY <1>6, <2>1, <2>2, <2>3, <2>4 DEF TablesTyped, ta, cs
<1>14. TablesTrue'
  <2> SUFFICES ASSUME ~ shrunk, ~ crossed' PROVE Claims(db')
    BY <1>2, <1>13 DEF TablesTrue
  <2>1. ~ crossed
    BY <1>1, <1>3
  <2>2. CASE "addresses" \in groups
    <3> SUFFICES ASSUME NEW c \in Written(cs), NEW i \in 1 .. c.number
                 PROVE  i \in HistoryOf(db', c.of)
      BY <1>10, <2>2 DEF Claims, cs
    <3>1. Imported(Written(ct), c.of, i)
      BY <1>3 DEF BackupInv, ClaimsKept, Begun, ReadYet, ct, cs
    <3>2. Imported(db'[ct], c.of, i)
      BY <1>10, <2>2, <3>1
    <3> QED
      BY <3>2 DEF Imported, HistoryOf, ct
  <2>3. CASE "addresses" \notin groups
    <3>1. Claims(db)
      BY <2>1 DEF BackupInv, TablesTrue
    <3> QED
      BY <1>10, <2>3, <3>1, ClaimsGrow DEF cs, ct
  <2> QED
    BY <2>2, <2>3
<1>15. /\ \A t : Written(t)' = Written(t) /\ ReadYet(t)' = ReadYet(t)
       /\ Reading' = Reading
  BY <1>2 DEF Written, ReadYet, Reading
<1>16. UnusedTrue'
  <2>1. Tracked(db') \subseteq Tracked(db) \cup Ids(Written(ta))
    BY <1>10, <1>12
  <2>2. Written(ta)' = Written(ta)
    BY <1>2 DEF Written, ta
  <2> QED
    BY <1>2, <2>1, <2>2 DEF BackupInv, UnusedTrue, ta
<1>17. SyncsTrue'
  <2>1. ASSUME ~ crossed', NEW s \in syncs PROVE s.address \in Tracked(db') => s.cursor = Cursor(db', s.address)
    <3>1. "addresses" \notin groups /\ ~ crossed
      BY <1>1, <1>3, <2>1
    <3>2. Tracked(db') = Tracked(db) /\ db'["address_sync_state"] = db["address_sync_state"]
      BY <1>10, <1>12, <3>1 DEF cs
    <3>3. Cursor(db', s.address) = Cursor(db, s.address)
      BY <3>2 DEF Cursor
    <3> QED
      BY <3>1, <3>2, <3>3 DEF BackupInv, SyncsTrue
  <2> QED
    BY <1>2, <2>1 DEF BackupInv, SyncsTrue
<1>18. StagesTrue'
  <2>1. crossed' \in BOOLEAN
    BY <1>1, <1>3
  <2> QED
    BY <1>2, <1>15, <2>1 DEF BackupInv, StagesTrue
<1>19. ArchiveTyped'
  <2>1. /\ Written("tracked_addresses")' = Written("tracked_addresses")
        /\ Written("address_sync_state")' = Written("address_sync_state")
    BY <1>15
  <2> QED
    BY <1>2, <1>3, <1>15, <2>1 DEF BackupInv, ArchiveTyped
<1>20. IdsKept' /\ ClaimsKept' /\ QuietKept'
  <2>1. Begun' = Begun
    BY <1>2, <1>15 DEF Begun
  <2>2. IdsKept'
    BY <1>2, <1>3, <1>15, <2>1 DEF BackupInv, IdsKept
  <2>3. ClaimsKept'
    BY <1>2, <1>3, <1>15, <2>1 DEF BackupInv, ClaimsKept
  <2>4. QuietKept'
    BY <1>2, <1>3, <1>15, <2>1 DEF BackupInv, QuietKept
  <2> QED
    BY <2>2, <2>3, <2>4
<1> QED
  BY <1>14, <1>16, <1>17, <1>18, <1>19, <1>20 DEF BackupInv

LEMMA BackupStep == BackupInv /\ [BackupNext]_backupVars => BackupInv'
<1> SUFFICES ASSUME BackupInv, [BackupNext]_backupVars PROVE BackupInv'
  OBVIOUS
<1>0. (status = "completed" => file = "whole") /\ (downloaded => file = "whole")
  BY DEF BackupInv, StagesTrue
<1>1. CASE UNCHANGED backupVars
  BY <1>0, <1>1, AsideStep DEF backupVars, tables, exporting
<1>2. CASE Create
  BY <1>0, <1>2, AsideStep DEF Create, tables
<1>3. CASE Enqueue
  BY <1>0, <1>3, AsideStep DEF Enqueue, tables
<1>4. CASE JobDone
  BY <1>0, <1>4, AsideStep DEF JobDone, tables
<1>5. CASE Fail
  BY <1>0, <1>5, AsideStep DEF Fail, Failed, tables
<1>6. CASE Refused
  BY <1>0, <1>6, AsideStep DEF Refused, Failed, tables
<1>7. CASE RefusedFatally
  BY <1>0, <1>7, AsideStep DEF RefusedFatally, Down
<1>8. CASE Die
  BY <1>0, <1>8, AsideStep DEF Die, Down
<1>9. CASE Boot
  BY <1>0, <1>9, AsideStep DEF Boot, tables
<1>10. CASE Download
  BY <1>0, <1>10, AsideStep DEF Download, tables, exporting
<1> QED
  BY <1>1, <1>2, <1>3, <1>4, <1>5, <1>6, <1>7, <1>8, <1>9, <1>10, AddAddressStep,
     DeleteAddressStep, BeginSyncStep, StoreSyncStep, CaptureStep, RetireStep, OpenStep,
     ReadPageStep, FinishStep, RestoreStep, Zenon DEF BackupNext

LEMMA BackupMeans == BackupInv => BackupTrue
<1> SUFFICES ASSUME BackupInv PROVE BackupTrue
  OBVIOUS
<1>1. TablesTyped(db) /\ db \in Tabled /\ archive \in [Table -> Seq(BackupRow)]
  BY DEF BackupInv, TablesTrue, TablesTyped, ArchiveTyped
<1>2. RestoresWhole
  <2> SUFFICES ASSUME downloaded, NEW groups \in Chosen, NEW t \in TablesOf(groups),
                      NEW result, result = Restored(groups)
               PROVE  /\ quiet => result.ok /\ result.db[t] = before[t]
                      /\ ~ shrunk /\ result.ok => Ids(before[t]) \subseteq Ids(result.db[t])
    BY DEF RestoresWhole
  <2>1. file = "whole" /\ Begun /\ \A u : ReadYet(u)
    BY DEF BackupInv, StagesTrue, Begun, ReadYet
  <2>2. Restoring(groups, result, 4)
    BY <1>1, RestoredIs
  <2>3. TablesOf(groups) \subseteq Table
    BY TablesOfAre
  <2>4. result.ok => result.db[t] = Written(t)
    <3>1. \E i \in 1 .. 4 : Listed[i] = t
      <4>1. 1 \in 1 .. 4 /\ 2 \in 1 .. 4 /\ 3 \in 1 .. 4 /\ 4 \in 1 .. 4
        OBVIOUS
      <4>2. t \in Table
        BY <2>3
      <4> QED
        BY <4>1, <4>2, ListedAre, TableIs
    <3>2. \A i \in 1 .. 4 : i <= 4
      OBVIOUS
    <3> QED
      BY <2>2, <3>1, <3>2 DEF Restoring
  <2>5. ASSUME quiet PROVE result.ok /\ result.db[t] = before[t]
    <3>1. /\ TablesTyped(before)
          /\ \A u \in Table : OnceByKey(archive[u]) /\ Written(u) = before[u]
      BY <2>1, <2>5 DEF BackupInv, QuietKept
    <3>2. \A u \in Table : WellWritten(u)
      BY <3>1, TableIs DEF WellWritten, TablesTyped, Tracked
    <3>3. result.ok
      BY <2>2, <2>3, <3>1, <3>2 DEF Restoring
    <3> QED
      BY <2>3, <2>4, <3>1, <3>3
  <2>6. ASSUME ~ shrunk, result.ok PROVE Ids(before[t]) \subseteq Ids(result.db[t])
    <3>1. Ids(before[t]) \subseteq Ids(Written(t))
      BY <2>1, <2>3, <2>6 DEF BackupInv, IdsKept
    <3> QED
      BY <2>4, <2>6, <3>1
  <2> QED
    BY <2>5, <2>6
<1>3. ClaimsHeld
  <2> SUFFICES ASSUME ~ shrunk, ~ crossed, NEW a \in Tracked(db)
               PROVE  1 .. Cursor(db, a) \subseteq HistoryOf(db, a)
    BY DEF ClaimsHeld
  <2>1. Claims(db)
    BY DEF BackupInv, TablesTrue
  <2>2. CASE \E c \in db["address_sync_state"] : c.of = a
    <3>1. PICK c \in db["address_sync_state"] : c.of = a
      BY <2>2
    <3>2. Cursor(db, a) = c.number
      BY <1>1, <3>1, CursorIs
    <3> QED
      BY <2>1, <3>1, <3>2 DEF Claims
  <2>3. CASE \A c \in db["address_sync_state"] : c.of # a
    <3>1. Cursor(db, a) = 0
      BY <1>1, <2>3, CursorIs
    <3> QED
      BY <3>1
  <2> QED
    BY <2>2, <2>3
<1> QED
  BY <1>2, <1>3 DEF BackupTrue

-----------------------------------------------------------------------------
(* All of them. *)

\* What the steps of the site are to each part.
LEMMA SiteSteps ==
  ASSUME [Next]_vars
  PROVE  /\ [StartupNext]_startupVars /\ [ChartNext]_chartVars /\ [BackupNext]_backupVars
         /\ [McpNext]_mcpVars /\ [DrawingNext]_drawingVars /\ [DeskNext]_deskVars
         /\ [TilesNext]_tilesVars
<1>1. CASE UNCHANGED vars
  BY <1>1, Zenon DEF vars
<1>2. CASE BackingUp(BackupNext)
  BY <1>2, Zenon DEF BackingUp
<1>3. CASE Starting(StartupNext)
  BY <1>3, Zenon DEF Starting
<1>4. CASE Arranging(DeskNext)
  BY <1>4, Zenon DEF Arranging
<1>5. CASE Charting(ChartNext)
  BY <1>5, Zenon DEF Charting
<1>6. CASE Cycling(CycleNext)
  BY <1>6, Zenon DEF Cycling
<1>7. CASE Calling(McpNext)
  BY <1>7, Zenon DEF Calling
<1>8. CASE Filling(TilesNext)
  BY <1>8, Zenon DEF Filling
<1>9. CASE Drafting(DrawingNext)
  BY <1>9, Zenon DEF Drafting
<1> QED
  BY <1>1, <1>2, <1>3, <1>4, <1>5, <1>6, <1>7, <1>8, <1>9, Zenon DEF Next

\* Whatever starts, dies, migrates, changes its password or signs in, the variables hold
\* what they are for, the lock is held by who migrates, and versions tell passwords.
THEOREM StartupInvHolds == Spec => []StartupInv
<1>1. Init => StartupInv
  BY StartupInitInv DEF Init
<1>2. StartupInv /\ [Next]_vars => StartupInv'
  <2> SUFFICES ASSUME StartupInv, [Next]_vars PROVE StartupInv'
    OBVIOUS
  <2>1. [StartupNext]_startupVars
    BY SiteSteps
  <2> QED
    BY <2>1, StartupNextType, LockHeldNext, SchemaKnownNext, VersionsTellNext DEF StartupInv
<1> QED
  BY <1>1, <1>2, PTL DEF Spec

\* Of any number of processes, migrations, passwords and sessions: each migration is made
\* once and in its order, nobody tries one that has been made, who serves has its schema,
\* and whoever is let in has signed in with the password that holds.
THEOREM StartupIsTrue == Spec => []StartupTrue
<1>1. StartupInv => MigratedInOrder
  <2> SUFFICES ASSUME StartupInv PROVE MigratedInOrder
    OBVIOUS
  <2>a. SchemaKnown /\ LockHeld
    BY DEF StartupInv
  <2>1. ASSUME NEW r \in Replica PROVE ~ MadeAlready(r)
    <3>1. SUFFICES ASSUME phase[r] = "migrating", Pending(r) # {}
                   PROVE Lowest(Pending(r)) \notin recorded
      BY DEF MadeAlready
    <3>2. Lowest(Pending(r)) \in Pending(r)
      BY <3>1, PendingRest
    <3> QED
      BY <2>a, <3>1, <3>2 DEF Pending, SchemaKnown
  <2> QED
    BY <2>a, <2>1 DEF MigratedInOrder, SchemaKnown, LockHeld, Holding, Ready
<1>2. StartupInv => SessionsCurrent
  BY DEF StartupInv, VersionsTell, SessionsCurrent, Accepted
<1> QED
  BY <1>1, <1>2, StartupInvHolds, PTL DEF StartupTrue

\* Of any number of selections, reloads and zooms, however their answers overtake each
\* other and fail: a chart at rest shows what was selected last, with the detail of the
\* last zoom or none, and no spinner.
THEOREM LatestIsShown == Spec => []LatestShown
<1>1. Init => ChartInv
  BY ChartInitInv DEF Init
<1>2. ChartInv /\ [Next]_vars => ChartInv'
  BY SiteSteps, ChartStep
<1> QED
  BY <1>1, <1>2, ChartMeans, PTL DEF Spec

\* Of any number of clients, calls and kept entries, however requests, reads and writes
\* fail and the process ends: no mutation is made twice, what the history shows is true,
\* and unless it could not be read it has the latest entries that were written, in order.
THEOREM HistoryIsTrue == Spec => []HistoryTrue
<1>1. Init => McpInv
  BY McpInitInv DEF Init
<1>2. McpInv /\ [Next]_vars => McpInv'
  BY SiteSteps, McpStep
<1> QED
  BY <1>1, <1>2, McpMeans, PTL DEF Spec

\* Of any addresses, rows and size of the pages, whatever is added, deleted, synced and
\* captured beside an export, and however it fails, dies and is tried again: a backup read
\* while nothing changed restores the chosen groups to what they were, one read while no
\* row was deleted brings back every row there was, and no cursor, restored or not, speaks
\* for a transaction that is missing.
THEOREM BackupIsTrue == Spec => []BackupTrue
<1>1. Init => BackupInv
  BY BackupInitInv DEF Init
<1>2. BackupInv /\ [Next]_vars => BackupInv'
  BY SiteSteps, BackupStep
<1> QED
  BY <1>1, <1>2, BackupMeans, PTL DEF Spec

\* Of any set of lines and windows, any number of choices, loads and movements, and
\* however requests overtake each other and fail: no line is on both axes, what is stored
\* shows the lines that the page showed, a zoom that has settled has its detail, and the
\* plot gets its focus back.
THEOREM DrawingIsTrue == Spec => []DrawingTrue
<1>1. Init => DrawingInv
  BY DrawingInitInv DEF Init
<1>2. DrawingInv /\ [Next]_vars => DrawingInv'
  BY SiteSteps, DrawingStep
<1> QED
  BY <1>1, <1>2, DrawingMeans, PTL DEF Spec

\* The site's behaviours are behaviours of its parts: what Markets_proofs proves of a desk
\* and of the charts of a dashboard holds of them beside everything else.
THEOREM SiteHasDeskAndTiles == Spec => DeskSpec /\ TilesSpec
<1>1. Init => DeskInit /\ TilesInit
  BY DEF Init
<1>2. [Next]_vars => [DeskNext]_deskVars /\ [TilesNext]_tilesVars
  BY SiteSteps
<1> QED
  BY <1>1, <1>2, PTL DEF Spec, DeskSpec, TilesSpec

=============================================================================
