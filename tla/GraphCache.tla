----------------------------- MODULE GraphCache -----------------------------
(***************************************************************************)
(* The cache of dashboard graphs (api/src/services/graph-cache.ts), for    *)
(* one saved graph and several API processes that share a Redis.           *)
(*                                                                         *)
(* A visit of the dashboard registers the graph as a plan, with a revision *)
(* that stands for its settings.  A change of the data marks the           *)
(* registered plan with a token and has it filled again, while the old     *)
(* result goes on being served.  Nothing is refreshed after the dashboard  *)
(* has been left alone for a while: the next visit marks what it finds.    *)
(***************************************************************************)
EXTENDS Integers, FiniteSets

CONSTANTS
  Process,      \* API processes
  Client,       \* requests for the graph under way at a time
  Revision,     \* settings of the graph
  Unregistered, \* no plan
  MaxSource,    \* bound: versions of the data
  MaxVisits,    \* bound: visits of the dashboard
  MaxTrouble,   \* bound: failures, processes that die, locks outlived
  Nobody        \* no lock

ASSUME Assumptions ==
  /\ MaxSource \in Nat \ {0} /\ MaxVisits \in Nat /\ MaxTrouble \in Nat
  /\ Nobody \notin Process /\ Unregistered \notin Revision

VARIABLES
  source,    \* the version of the synchronized data
  active,    \* Redis activity, and it is recent
  plan,      \* Redis plans: the revision of the graph that is registered
  result,    \* Redis result, by revision: the version of the data it shows
  mark,      \* Redis result:refresh, by revision: a token
  lock,      \* Redis lock, by revision
  fill,      \* GraphCacheService.fills, by process and revision
  ask,       \* getOrLoad() calls that have found a result: the plan they slide along
  visit,     \* activate() calls
  refresh,   \* refreshAffected() calls, by the version they are about
  marked,    \* history: the newest version each revision was marked for
  passed,    \* history: the versions nobody marked each revision for
  outlived,  \* history: the revisions one of whose locks expired too early
  trouble    \* count for the bound

redis == <<active, plan, result, mark, lock>>
calls == <<fill, ask, visit, refresh>>
history == <<marked, passed, outlived>>
vars == <<source, redis, calls, history, trouble>>

Change == 2 .. MaxSource
Visit == 1 .. MaxVisits
Plan == Revision \cup {Unregistered}

NoToken == 0
Token == NoToken .. MaxSource + MaxVisits

\* What a fill comes to: a version of the data, nothing, or an error.
Nothing == 0
Failed == -1

NoFill == [pc |-> "none", token |-> NoToken, data |-> Nothing]
NoVisit == [pc |-> "none", process |-> Nobody, batch |-> {}, keeps |-> FALSE,
            current |-> Unregistered, reactivating |-> FALSE]
Activated == [NoVisit EXCEPT !.pc = "done"]
NoRefresh == [pc |-> "none", process |-> Nobody, revision |-> Unregistered]
Refreshed == [NoRefresh EXCEPT !.pc = "done"]

TypeOK ==
  /\ source \in 1 .. MaxSource
  /\ active \in BOOLEAN
  /\ plan \in Plan
  /\ result \in [Revision -> 0 .. source]
  /\ mark \in [Revision -> Token]
  /\ lock \in [Revision -> Process \cup {Nobody}]
  /\ fill \in [Process -> [Revision ->
       [pc : {"none", "lock", "load", "store", "stored", "failed"},
        token : Token, data : 0 .. source]]]
  /\ ask \in [Client -> Plan]
  /\ visit \in [Visit -> [pc : {"none", "write", "drop", "warm", "done"},
       process : Process \cup {Nobody}, batch : SUBSET Revision, keeps : BOOLEAN,
       current : Plan, reactivating : BOOLEAN]]
  /\ refresh \in [Change ->
       [pc : {"none", "activity", "list", "mark", "fill", "await", "wait", "done"},
        process : Process \cup {Nobody}, revision : Plan]]
  /\ marked \in [Revision -> 0 .. source]
  /\ passed \in [Revision -> SUBSET Change]
  /\ outlived \subseteq Revision
  /\ trouble \in 0 .. MaxTrouble

Init ==
  /\ source = 1 /\ active = FALSE /\ plan = Unregistered
  /\ result = [r \in Revision |-> Nothing]
  /\ mark = [r \in Revision |-> NoToken]
  /\ lock = [r \in Revision |-> Nobody]
  /\ fill = [p \in Process |-> [r \in Revision |-> NoFill]]
  /\ ask = [c \in Client |-> Unregistered]
  /\ visit = [v \in Visit |-> NoVisit]
  /\ refresh = [n \in Change |-> NoRefresh]
  /\ marked = [r \in Revision |-> 0]
  /\ passed = [r \in Revision |-> {}]
  /\ outlived = {}
  /\ trouble = 0

Trouble == trouble < MaxTrouble /\ trouble' = trouble + 1

-----------------------------------------------------------------------------
(* materialize and runMaterialize                                          *)

At(p, r, pc) == fill[p][r].pc = pc

\* materialize() of a plan that this process fills already comes to nothing.
Started(f) == IF f.pc = "none" THEN [NoFill EXCEPT !.pc = "lock"] ELSE f

Moved(p, r, f) == fill' = [fill EXCEPT ![p][r] = f]

\* A refresh that waits for a fill tries again, or gives the plan up, as the
\* fill comes to nothing or to an error.
Waits(x, p, r) == x.pc = "wait" /\ x.process = p /\ x.revision = r

Resumed(n, p, r, d) ==
  LET x == refresh[n]
  IN  IF Waits(x, p, r) THEN IF d = Nothing THEN [x EXCEPT !.pc = "fill"] ELSE Refreshed
      ELSE IF x.pc = "await" /\ x.process = p /\ x.revision = r
      THEN [x EXCEPT !.pc = "fill"]
      ELSE x

Settle(p, r, d) ==
  /\ Moved(p, r, NoFill)
  /\ refresh' = [n \in Change |-> Resumed(n, p, r, d)]

Acquired(r) == lock[r] = Nobody

Released(p, r) == [lock EXCEPT ![r] = IF @ = p THEN Nobody ELSE @]

\* The token is read next: nobody could tell the two commands apart.
TakeLock(p, r) ==
  /\ At(p, r, "lock") /\ Acquired(r)
  /\ lock' = [lock EXCEPT ![r] = p]
  /\ Moved(p, r, [fill[p][r] EXCEPT !.pc = "load", !.token = mark[r]])
  /\ UNCHANGED <<source, active, plan, result, mark, ask, visit, refresh, history, trouble>>

LockIsTaken(p, r) ==
  /\ At(p, r, "lock") /\ ~ Acquired(r)
  /\ Settle(p, r, Nothing)
  /\ UNCHANGED <<source, redis, ask, visit, history, trouble>>

Loaded == source

Load(p, r) ==
  /\ At(p, r, "load")
  /\ Moved(p, r, [fill[p][r] EXCEPT !.pc = "store", !.data = Loaded])
  /\ UNCHANGED <<source, redis, ask, visit, refresh, history, trouble>>

\* The result and the plan are written whoever holds the lock by now, and
\* though the plan may have been removed since.
Store(p, r) ==
  /\ At(p, r, "store")
  /\ result' = [result EXCEPT ![r] = fill[p][r].data]
  /\ plan' = r
  /\ Moved(p, r, [fill[p][r] EXCEPT !.pc = "stored"])
  /\ UNCHANGED <<source, active, mark, lock, ask, visit, refresh, history, trouble>>

\* Mutant: the mark goes, whatever came in since it was read.
Unmarked(r, token) == NoToken

\* Only the token read before the data was loaded is removed.
Kept(r, token) == IF mark[r] = token THEN NoToken ELSE mark[r]

\* The mark goes, then the lock.
Finish(p, r) ==
  /\ At(p, r, "stored")
  /\ mark' = [mark EXCEPT ![r] = Kept(r, fill[p][r].token)]
  /\ lock' = Released(p, r)
  /\ Settle(p, r, fill[p][r].data)
  /\ UNCHANGED <<source, active, plan, result, ask, visit, history, trouble>>

\* The calculation, or a command, fails: the result may be stored or not.
Fails(p, r) ==
  /\ Trouble
  /\ fill[p][r].pc \in {"load", "store", "stored"}
  /\ Moved(p, r, [NoFill EXCEPT !.pc = "failed"])
  /\ UNCHANGED <<source, redis, ask, visit, refresh, history>>

Abandon(p, r) ==
  /\ At(p, r, "failed")
  /\ lock' = Released(p, r)
  /\ Settle(p, r, Failed)
  /\ UNCHANGED <<source, active, plan, result, mark, ask, visit, history, trouble>>

-----------------------------------------------------------------------------
(* getOrLoad                                                                *)

\* A graph whose plan, with this revision, is not registered, and one that is
\* asked for without Redis, is calculated, not kept, and of no account here.  A
\* result that is there is the answer, of whatever age.  A graph without one is
\* filled; the request waits for that fill, or for ten seconds for the one of
\* another process, and if nothing comes of it calculates what it does not keep.
Ask(c, p, r) ==
  /\ ask[c] = Unregistered /\ plan = r
  /\ IF result[r] # Nothing
     THEN ask' = [ask EXCEPT ![c] = r] /\ UNCHANGED fill
     ELSE Moved(p, r, Started(fill[p][r])) /\ UNCHANGED ask
  /\ UNCHANGED <<source, redis, visit, refresh, history, trouble>>

\* The plan slides along: it is registered once more, though it may have been
\* removed or replaced since.
Touch(c) ==
  /\ ask[c] # Unregistered
  /\ plan' = ask[c]
  /\ ask' = [ask EXCEPT ![c] = Unregistered]
  /\ UNCHANGED <<source, active, result, mark, lock, fill, visit, refresh, history, trouble>>

-----------------------------------------------------------------------------
(* activate                                                                 *)

\* The dashboard announces its graphs in batches.  This batch has the graph
\* with the revision r, or a later batch will have it (keeps, no r), or it is
\* on no dashboard any more.
Visits(v, p, batch, keeps) ==
  /\ visit[v].pc = "none" /\ (v > 1 => visit[v - 1].pc # "none")
  /\ visit' = [visit EXCEPT ![v] =
       [pc |-> "write", process |-> p, batch |-> batch, keeps |-> keeps,
        current |-> plan, reactivating |-> ~ active]]
  /\ UNCHANGED <<source, redis, fill, ask, refresh, history, trouble>>

\* Mutant: only the plans of this batch are marked.
MarksBatch(x) == IF x.reactivating THEN x.batch ELSE {}

\* After a time of inactivity: the plans of this batch, and those of later ones.
Marks(x) ==
  IF ~ x.reactivating THEN {}
  ELSE x.batch \cup (IF x.keeps THEN {x.current} \cap Revision ELSE {})

Removed(x) == IF x.keeps THEN {} ELSE {x.current} \cap Revision

\* A change that is still to be marked, or found to be of no account.
Due(n) == refresh[n].pc \in {"activity", "list", "mark"}

\* History: a visit that ends a quiet time it began before, or that has read the plans
\* while another revision was registered, does not know what it would have to mark.
Overlooks(x, r) == ~ active /\ (~ x.reactivating \/ r \notin x.batch \cup {x.current})

\* One transaction; what it is based on was read before.
WritePlans(v) ==
  LET x == visit[v]
  IN  /\ x.pc = "write"
      /\ active' = TRUE
      /\ plan' = IF x.batch # {} THEN CHOOSE r \in x.batch : TRUE
                 ELSE IF Removed(x) # {} THEN Unregistered ELSE plan
      /\ mark' = [r \in Revision |-> IF r \in Marks(x) THEN MaxSource + v ELSE mark[r]]
      /\ marked' = [r \in Revision |-> IF r \in Marks(x) THEN source ELSE marked[r]]
      /\ passed' = [r \in Revision |->
                      IF Removed(x) # {} THEN 2 .. source
                      ELSE IF Overlooks(x, r)
                      THEN passed[r] \cup {n \in 2 .. source : ~ Due(n)} ELSE passed[r]]
      /\ visit' = [visit EXCEPT ![v].pc = IF Removed(x) = {} THEN "warm" ELSE "drop"]
      /\ UNCHANGED <<source, result, lock, fill, ask, refresh, outlived, trouble>>

DropResult(v) ==
  /\ visit[v].pc = "drop"
  /\ result' = [result EXCEPT ![visit[v].current] = Nothing]
  /\ visit' = [visit EXCEPT ![v] = Activated]
  /\ UNCHANGED <<source, active, plan, mark, lock, fill, ask, refresh, history, trouble>>

\* warmPlans, in the background.
Warm(v) ==
  LET x == visit[v]
      cold == {r \in x.batch : mark[r] # NoToken \/ result[r] = Nothing}
  IN  /\ x.pc = "warm"
      /\ visit' = [visit EXCEPT ![v] = Activated]
      /\ fill' = [fill EXCEPT ![x.process] =
           [r \in Revision |-> IF r \in cold THEN Started(@[r]) ELSE @[r]]]
      /\ UNCHANGED <<source, redis, ask, refresh, history, trouble>>

\* Bound: a quiet time ends with a visit, and there are MaxVisits of them.
\* The dashboard is left alone for longer than dashboardCacheInactivityMinutes.
Quiet ==
  /\ active
  /\ active' = FALSE
  /\ UNCHANGED <<source, plan, result, mark, lock, calls, history, trouble>>

-----------------------------------------------------------------------------
(* refreshAffected                                                          *)

\* A job completes in p, its changes are committed: refreshAffected runs.
DataChanges(p) ==
  /\ source < MaxSource
  /\ source' = source + 1
  /\ refresh' = [refresh EXCEPT ![source + 1] =
       [pc |-> "activity", process |-> p, revision |-> Unregistered]]
  /\ UNCHANGED <<redis, fill, ask, visit, history, trouble>>

Passes(n, revisions) ==
  passed' = [r \in Revision |-> IF r \in revisions THEN passed[r] \cup {n} ELSE passed[r]]

AskActivity(n) ==
  /\ refresh[n].pc = "activity"
  /\ refresh' = [refresh EXCEPT ![n] = IF active THEN [@ EXCEPT !.pc = "list"] ELSE Refreshed]
  /\ UNCHANGED <<source, redis, fill, ask, visit, history, trouble>>

ListPlans(n) ==
  /\ refresh[n].pc = "list"
  /\ refresh' = [refresh EXCEPT ![n] = IF plan = Unregistered THEN Refreshed
                                       ELSE [@ EXCEPT !.pc = "mark", !.revision = plan]]
  /\ Passes(n, Revision \ {plan})
  /\ UNCHANGED <<source, redis, fill, ask, visit, marked, outlived, trouble>>

SetMark(n) ==
  LET r == refresh[n].revision
  IN  /\ refresh[n].pc = "mark"
      /\ mark' = [mark EXCEPT ![r] = n]
      /\ marked' = [marked EXCEPT ![r] = IF n > @ THEN n ELSE @]
      /\ refresh' = [refresh EXCEPT ![n].pc = "fill"]
      /\ UNCHANGED <<source, active, plan, result, lock, fill, ask, visit, passed, outlived,
                     trouble>>

\* Mutant: a fill under way will do.
Joins(n) == "wait"

\* A fill under way in this process is let finish first, whatever it comes to.
Lets(n) == "await"

FillAgain(n) ==
  LET p == refresh[n].process
      r == refresh[n].revision
  IN  /\ refresh[n].pc = "fill"
      /\ refresh' = [refresh EXCEPT ![n].pc = IF At(p, r, "none") THEN "wait" ELSE Lets(n)]
      /\ Moved(p, r, Started(fill[p][r]))
      /\ UNCHANGED <<source, redis, ask, visit, history, trouble>>

\* Sixty attempts have come to nothing.
GiveUp(n) ==
  /\ Trouble
  /\ refresh[n].pc = "fill"
  /\ refresh' = [refresh EXCEPT ![n] = Refreshed]
  /\ UNCHANGED <<source, redis, fill, ask, visit, history>>

\* A command fails before the plan is marked, or another plan's fill did and
\* the worker is gone.
RefreshFails(n) ==
  /\ Trouble
  /\ refresh[n].pc \in {"activity", "list", "mark"}
  /\ refresh' = [refresh EXCEPT ![n] = Refreshed]
  /\ Passes(n, Revision)
  /\ UNCHANGED <<source, redis, fill, ask, visit, marked, outlived>>

-----------------------------------------------------------------------------
(* Locks and processes                                                      *)

Holds(p, r) == lock[r] = p /\ fill[p][r].pc \in {"load", "store", "stored", "failed"}

\* Two minutes go by, while the fill is at work, or after its process died.
LockExpires(r) ==
  /\ lock[r] # Nobody
  /\ lock' = [lock EXCEPT ![r] = Nobody]
  /\ IF \E p \in Process : Holds(p, r)
     THEN Trouble /\ outlived' = outlived \cup {r}
     ELSE UNCHANGED <<trouble, outlived>>
  /\ UNCHANGED <<source, active, plan, result, mark, calls, marked, passed>>

Dies(p) ==
  /\ Trouble
  /\ fill' = [fill EXCEPT ![p] = [r \in Revision |-> NoFill]]
  /\ visit' = [v \in Visit |->
       IF visit[v].process = p THEN Activated ELSE visit[v]]
  /\ refresh' = [n \in Change |->
       IF refresh[n].process = p THEN Refreshed ELSE refresh[n]]
  /\ passed' = [r \in Revision |-> passed[r] \cup
       {n \in Change : refresh[n].process = p /\ refresh[n].pc \in {"activity", "list", "mark"}}]
  /\ UNCHANGED <<source, redis, ask, marked, outlived>>

-----------------------------------------------------------------------------

RunMaterialize(p, r) ==
  \/ TakeLock(p, r) \/ LockIsTaken(p, r) \/ Load(p, r) \/ Store(p, r)
  \/ Finish(p, r) \/ Fails(p, r) \/ Abandon(p, r)

GetOrLoad(c) ==
  (\E p \in Process, r \in Revision : Ask(c, p, r)) \/ Touch(c)

RefreshAffected(n) == AskActivity(n) \/ ListPlans(n) \/ SetMark(n) \/ FillAgain(n)

Activate(v) == WritePlans(v) \/ DropResult(v) \/ Warm(v)

Next ==
  \/ \E c \in Client : GetOrLoad(c)
  \/ \E p \in Process, r \in Revision : RunMaterialize(p, r)
  \/ \E v \in Visit : Activate(v)
  \/ \E v \in Visit, p \in Process, r \in Revision : Visits(v, p, {r}, TRUE)
  \/ \E v \in Visit, p \in Process, keeps \in BOOLEAN : Visits(v, p, {}, keeps)
  \/ \E n \in Change : RefreshAffected(n) \/ GiveUp(n) \/ RefreshFails(n)
  \/ \E p \in Process : DataChanges(p) \/ Dies(p)
  \/ \E r \in Revision : LockExpires(r)
  \/ Quiet

Spec == Init /\ [][Next]_vars

-----------------------------------------------------------------------------
(* Properties                                                               *)

\* A result that is older than what its revision was marked for is still
\* marked: a fill takes no mark with it that came in after it had begun to load
\* (graph-cache.ts:197: "A change arriving during this query must still trigger
\* another refresh."), unless it outlived its lock.
MarkKept ==
  \A r \in Revision \ outlived :
    result[r] \in 1 .. marked[r] - 1 => mark[r] # NoToken

\* While the dashboard is visited, its registered graph shows every change, or
\* it is marked for the next fill, or the change is about to mark it.  What
\* may pass it over: another revision is registered, or none, when the change
\* looks for it, or when the visit does that ends a quiet time; a failure
\* before it is marked; a visit that began before the quiet time whose end it
\* is; a lock outlived.
NothingForgotten ==
  active /\ plan \in Revision \ outlived /\ result[plan] # Nothing =>
    mark[plan] # NoToken
    \/ \A n \in Change : n \in result[plan] + 1 .. source => Due(n) \/ n \in passed[plan]

\* A refresh is over only with a fill that began after its change, however many
\* fills of the process, or of another, it meets on its way.
RefreshedAnew ==
  [][\A n \in Change, p \in Process, r \in Revision :
       Waits(refresh[n], p, r) /\ refresh'[n].pc = "done" /\ At(p, r, "stored")
         => fill[p][r].data >= n]_vars

\* Both: no fill takes the mark of a change with it, and no change goes unmarked.
NoChangeLost == MarkKept /\ NothingForgotten
=============================================================================
