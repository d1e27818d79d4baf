------------------------------- MODULE Startup -------------------------------
(***************************************************************************)
(* How an API process comes up and whom it lets in: the migrations         *)
(* (api/src/db/index.ts), the configured password and the sessions         *)
(* (api/src/auth/service.ts), in the order of api/src/index.ts.            *)
(*                                                                         *)
(* On PostgreSQL several processes may start and serve at once, an older   *)
(* build beside a newer one; on SQLite there is one at a time.  A process  *)
(* may die anywhere: its transaction is rolled back and its lock released. *)
(***************************************************************************)
EXTENDS Integers, Sequences, FiniteSets

CONSTANTS
  Replica,     \* API processes
  Migrations,  \* number of migrations of the newest build
  Password,    \* passwords there are
  Session,     \* session ids; they are random
  MaxStarts,   \* bound: starts of processes
  MaxFailures, \* failed logins after which the next ones are refused for a while
  NoReplica, NoUser

ASSUME StartupAssumptions ==
  /\ Migrations \in Nat /\ MaxStarts \in Nat /\ MaxFailures \in Nat \ {0}
  /\ NoReplica \notin Replica /\ NoUser \notin [password : Password, version : Nat]

VARIABLES
  kind,      \* "postgres" or "sqlite"
  schema,    \* the migrations whose changes the tables have, in the order they were made
  recorded,  \* schema_migrations
  lock,      \* who holds the advisory lock
  phase,     \* where each process is
  build,     \* the newest migration each process knows
  applied,   \* the versions each process has read from schema_migrations
  configured, \* the password in each process's configuration
  user,      \* the row in app_user: [password (what the hash accepts), version]
  known,     \* the row each process has read
  failures,  \* failed logins, in the memory of each process
  signingIn, \* logins between the check and the INSERT: [replica, password, version]
  sessions,  \* rows: [id, password (history: what it was opened with), version, expired]
  starts     \* count for the bound

schemaVars == <<schema, recorded, lock, applied>>
loginVars == <<failures, signingIn>>
startupVars == <<kind, schemaVars, phase, build, configured, user, known, loginVars,
                 sessions, starts>>

Phases == {"down", "waiting", "reading", "migrating", "releasing", "account", "changing",
           "serving"}
User == [password : Password, version : Nat]

StartupInit ==
  /\ kind \in {"postgres", "sqlite"}
  /\ schema = <<>> /\ recorded = {} /\ lock = NoReplica
  /\ phase = [r \in Replica |-> "down"]
  /\ build = [r \in Replica |-> Migrations]
  /\ applied = [r \in Replica |-> {}]
  /\ \E password \in Password : configured = [r \in Replica |-> password]
  /\ user = NoUser /\ known = [r \in Replica |-> NoUser]
  /\ failures = [r \in Replica |-> 0] /\ signingIn = {} /\ sessions = {} /\ starts = 0

-----------------------------------------------------------------------------
(* A process starts. *)

Goes(r, to) == phase' = [phase EXCEPT ![r] = to]

\* On PostgreSQL it waits for the lock.
Start(r) ==
  /\ phase[r] = "down" /\ starts < MaxStarts /\ starts' = starts + 1
  /\ kind = "sqlite" => \A other \in Replica : phase[other] = "down"
  /\ \E newest \in 1 .. Migrations, password \in Password :
       /\ build' = [build EXCEPT ![r] = newest]
       /\ configured' = [configured EXCEPT ![r] = password]
  /\ Goes(r, IF kind = "postgres" THEN "waiting" ELSE "reading")
  /\ UNCHANGED <<kind, schemaVars, user, known, loginVars, sessions>>

Lock(r) ==
  /\ phase[r] = "waiting" /\ lock = NoReplica /\ lock' = r /\ Goes(r, "reading")
  /\ UNCHANGED <<kind, schema, recorded, applied, build, configured, user, known, loginVars,
                 sessions, starts>>

\* Mutant: what is applied is read before the lock is taken.
ReadAheadOfLock(r) ==
  /\ \/ phase[r] = "waiting" /\ applied[r] = {} /\ UNCHANGED phase
     \/ phase[r] = "reading" /\ Goes(r, "migrating")
  /\ applied' = [applied EXCEPT ![r] = IF phase[r] = "waiting" \/ kind = "sqlite"
                                       THEN recorded ELSE @]
  /\ UNCHANGED <<kind, schema, recorded, lock, build, configured, user, known, loginVars,
                 sessions, starts>>

ReadApplied(r) ==
  /\ phase[r] = "reading" /\ Goes(r, "migrating")
  /\ applied' = [applied EXCEPT ![r] = recorded]
  /\ UNCHANGED <<kind, schema, recorded, lock, build, configured, user, known, loginVars,
                 sessions, starts>>

Pending(r) == 1 .. build[r] \ applied[r]
Lowest(S) == CHOOSE n \in S : \A m \in S : n <= m

\* The next migration is one that another process has made since.
MadeAlready(r) ==
  phase[r] = "migrating" /\ Pending(r) # {} /\ Lowest(Pending(r)) \in recorded

\* The next migration and its record, in one transaction.  A migration that has been
\* made already fails.
Migrate(r) ==
  /\ phase[r] = "migrating" /\ Pending(r) # {}
  /\ LET next == Lowest(Pending(r))
     IN /\ next \notin recorded
        /\ schema' = Append(schema, next) /\ recorded' = recorded \cup {next}
        /\ applied' = [applied EXCEPT ![r] = @ \cup {next}]
  /\ UNCHANGED <<kind, lock, phase, build, configured, user, known, loginVars, sessions,
                 starts>>

Migrated(r) ==
  /\ phase[r] = "migrating" /\ Pending(r) = {} /\ Goes(r, "releasing")
  /\ UNCHANGED <<kind, schemaVars, build, configured, user, known, loginVars, sessions,
                 starts>>

Released(r) == IF lock = r THEN NoReplica ELSE lock

Unlock(r) ==
  /\ phase[r] = "releasing" /\ lock' = Released(r) /\ Goes(r, "account")
  /\ UNCHANGED <<kind, schema, recorded, applied, build, configured, user, known, loginVars,
                 sessions, starts>>

-----------------------------------------------------------------------------
(* The configured password. *)

\* A password that is stored already leaves the account, and its sessions, as they are.
ReadAccount(r) ==
  /\ phase[r] = "account" /\ known' = [known EXCEPT ![r] = user]
  /\ IF user # NoUser /\ user.password = configured[r]
     THEN Goes(r, "serving") ELSE Goes(r, "changing")
  /\ UNCHANGED <<kind, schemaVars, build, configured, user, loginVars, sessions, starts>>

\* The first one; another process may have been quicker, and then the INSERT fails.
CreateAccount(r) ==
  /\ phase[r] = "changing" /\ known[r] = NoUser /\ user = NoUser
  /\ user' = [password |-> configured[r], version |-> 0] /\ Goes(r, "serving")
  /\ UNCHANGED <<kind, schemaVars, build, configured, known, loginVars, sessions, starts>>

\* Mutant: the version stays.
SameVersion(password) ==
  /\ user' = [user EXCEPT !.password = password]
  /\ sessions' = {}

\* The hash, the next version, and no sessions, in one transaction.
ReplacePassword(password) ==
  /\ user' = [password |-> password, version |-> user.version + 1]
  /\ sessions' = {}

ChangePassword(r) ==
  /\ phase[r] = "changing" /\ known[r] # NoUser
  /\ ReplacePassword(configured[r]) /\ Goes(r, "serving")
  /\ UNCHANGED <<kind, schemaVars, build, configured, known, loginVars, starts>>

-----------------------------------------------------------------------------
(* Who is let in. *)

FreeId == {id \in Session : \A s \in sessions : s.id # id}

\* The row is read, and the password checked against it ...
BeginLogin(r) ==
  /\ phase[r] = "serving" /\ failures[r] < MaxFailures
  /\ \E password \in Password :
       IF user.password = password
       THEN /\ signingIn' = signingIn \cup
                 {[replica |-> r, password |-> password, version |-> user.version]}
            /\ failures' = [failures EXCEPT ![r] = 0]
       ELSE /\ failures' = [failures EXCEPT ![r] = @ + 1] /\ UNCHANGED signingIn
  /\ UNCHANGED <<kind, schemaVars, phase, build, configured, user, known, sessions, starts>>

\* ... and the session inserted with the version that was read.
EndLogin(login) ==
  /\ phase[login.replica] = "serving"
  /\ \E id \in FreeId :
       sessions' = sessions \cup {[id |-> id, password |-> login.password,
                                   version |-> login.version, expired |-> FALSE]}
  /\ signingIn' = signingIn \ {login}
  /\ UNCHANGED <<kind, schemaVars, phase, build, configured, user, known, failures, starts>>

\* The time of a refusal has passed.
LetTryAgain(r) ==
  /\ phase[r] = "serving" /\ failures[r] = MaxFailures
  /\ failures' = [failures EXCEPT ![r] = 0]
  /\ UNCHANGED <<kind, schemaVars, phase, build, configured, user, known, signingIn,
                 sessions, starts>>

\* Mutant: the version is not compared.
UnexpiredOnly(s) == ~ s.expired

\* What authenticateSession() accepts.
Accepted(s) == ~ s.expired /\ s.version = user.version

Without(s) ==
  /\ sessions' = sessions \ {s}
  /\ UNCHANGED <<kind, schemaVars, phase, build, configured, user, known, loginVars, starts>>

\* A request with the cookie of a session that is not accepted deletes it.
Refuse(s) == (\E r \in Replica : phase[r] = "serving") /\ ~ Accepted(s) /\ Without(s)

SignOut(s) == (\E r \in Replica : phase[r] = "serving") /\ Accepted(s) /\ Without(s)

Expire(s) ==
  /\ ~ s.expired
  /\ sessions' = (sessions \ {s}) \cup {[s EXCEPT !.expired = TRUE]}
  /\ UNCHANGED <<kind, schemaVars, phase, build, configured, user, known, loginVars, starts>>

\* Every quarter of an hour.
Purge ==
  /\ \E r \in Replica : phase[r] = "serving"
  /\ \E s \in sessions : s.expired
  /\ sessions' = {s \in sessions : ~ s.expired}
  /\ UNCHANGED <<kind, schemaVars, phase, build, configured, user, known, loginVars, starts>>

\* A step of the start fails and the process exits, it is killed, or it shuts down; what
\* it knew is gone.
Exit(r) ==
  /\ phase[r] # "down" /\ Goes(r, "down") /\ lock' = Released(r)
  /\ signingIn' = {login \in signingIn : login.replica # r}
  /\ applied' = [applied EXCEPT ![r] = {}] /\ known' = [known EXCEPT ![r] = NoUser]
  /\ failures' = [failures EXCEPT ![r] = 0]
  /\ UNCHANGED <<kind, schema, recorded, build, configured, user, sessions, starts>>

-----------------------------------------------------------------------------

StartsUp(r) ==
  \/ Lock(r) \/ ReadApplied(r) \/ Migrate(r) \/ Migrated(r) \/ Unlock(r)
  \/ ReadAccount(r) \/ CreateAccount(r) \/ ChangePassword(r)

StartupNext ==
  \/ \E r \in Replica : Start(r) \/ StartsUp(r) \/ Exit(r) \/ BeginLogin(r) \/ LetTryAgain(r)
  \/ \E login \in signingIn : EndLogin(login)
  \/ \E s \in sessions : Refuse(s) \/ SignOut(s) \/ Expire(s)
  \/ Purge

StartupSpec == StartupInit /\ [][StartupNext]_startupVars

-----------------------------------------------------------------------------
(* Properties. *)

\* The migrations are made once each, in their order, what is recorded is what was made,
\* nobody tries one that another process has made, and nobody but who makes them keeps
\* the others waiting, whoever started and died meanwhile (docs/operations.md:108, "one
\* replica applies each pending migration in its own transaction and records it"); and
\* whoever serves has the schema it was built for ("Startup applies migrations before
\* readiness", docs/architecture.md:46).
MigratedInOrder ==
  /\ recorded = 1 .. Len(schema)
  /\ \A n \in 1 .. Len(schema) : schema[n] = n
  /\ \A r \in Replica :
       /\ phase[r] \in {"account", "changing", "serving"} =>
            1 .. build[r] \subseteq recorded
       /\ ~ MadeAlready(r)
       /\ lock = r => phase[r] \in {"reading", "migrating", "releasing"}

\* A session that is accepted was opened with the password that holds now, also one whose
\* login was under way in another process when the password changed (docs/spec.md:1759,
\* "invalidation on password change").
SessionsCurrent == \A s \in sessions : Accepted(s) => s.password = user.password

\* The schema is what was built for, and the password lets in who knows it.
StartupTrue == MigratedInOrder /\ SessionsCurrent
=============================================================================
