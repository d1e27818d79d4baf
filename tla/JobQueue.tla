------------------------------ MODULE JobQueue ------------------------------
(***************************************************************************)
(* The database-backed job queue (api/src/jobs/queue.ts) with everything   *)
(* that writes the jobs table: the enqueueing callers, the in-process      *)
(* worker, the market and address services that cancel jobs, and retention.*)
(*                                                                         *)
(* A job is a row of the jobs table; rows are numbered in the order of     *)
(* their insertion, which is the order of created_at_ms.  A resource is    *)
(* the pair (job_type, resource_key).  What a handler does upstream is not *)
(* modelled here: it returns, asks for a continuation, cancels its own row *)
(* or throws.  locked_at_ms and locked_by are set exactly while a row is   *)
(* 'running', so they carry no information beyond the status.              *)
(*                                                                         *)
(* Every await of the source is a point where other steps may come in      *)
(* between; what runs between two awaits is one step.                      *)
(***************************************************************************)
EXTENDS Integers, FiniteSets

CONSTANTS
  MaxJobs,      \* bound: rows that are ever inserted
  Resource,     \* the (job_type, resource_key) pairs
  UserKey,      \* idempotency keys callers make up
  Priority,     \* the integers used as priorities, lower is served first
  ContinuationPriority, \* the priority of every continuation
  Call,         \* the enqueue calls that clients may issue
  Client,       \* concurrent callers of enqueue: HTTP requests, the scheduler
  MaxAttempts,  \* max_attempts of every job
  Concurrency,  \* sync.maxConcurrentJobs
  MaxEnds,      \* bound: number of times the process stops or dies
  Serialized,   \* TRUE: SQLite (one operation at a time); FALSE: PostgreSQL, READ COMMITTED
  DbFaults,     \* may a database call of the worker throw?
  NoRequest     \* "no row" / "no open transaction"

Job == 1 .. MaxJobs
Owner == Client \cup Job
Key == UserKey \cup ({"continuation"} \X Job)
Request == [resource : Resource, key : Key, priority : Priority]

ASSUME Assumptions ==
  /\ MaxJobs \in Nat /\ MaxAttempts \in Nat \ {0} /\ Concurrency \in Nat \ {0}
  /\ MaxEnds \in Nat
  /\ Priority \subseteq Int /\ ContinuationPriority \in Priority
  /\ Call \subseteq Request
  /\ Client \cap Job = {}
  /\ Serialized \in BOOLEAN /\ DbFaults \in BOOLEAN
  /\ NoRequest \notin Request

VARIABLES
  status,    \* jobs.status; "unused" before the INSERT, "deleted" after retention
  request,   \* the columns resource_key (with job_type), idempotency_key, priority
  attempts,  \* jobs.attempts
  due,       \* next_retry_at_ms is null or has passed
  nextJob,   \* the row the next INSERT creates
  txn,       \* enqueue transactions between their SELECTs and their INSERT
  mode,      \* the JobQueue object: "down" and "stopping" are stopped = true
  polling,   \* tickPromise # null and tick() is at its await of claim()
  active,    \* JobQueue.active
  phase,     \* where execute() of a job is
  more,      \* the handler's outcome holds a continuation
  failure,   \* the error fail() will look at
  ends       \* how often the process has stopped or died

table == <<status, request, attempts, due, nextJob>>
worker == <<active, phase, more, failure>>
vars == <<table, txn, mode, polling, worker, ends>>

Waiting == {"queued", "retry"}
Active == Waiting \cup {"running"}
Terminal == {"completed", "failed", "cancelled"}
Status == Active \cup Terminal \cup {"unused", "deleted"}
Error == {"transient", "rejected", "circuit"}

TableOK ==
  /\ status \in [Job -> Status]
  /\ request \in [Job -> Request \cup {NoRequest}]
  /\ attempts \in [Job -> Nat]
  /\ due \in [Job -> BOOLEAN]
  /\ nextJob \in 1 .. (MaxJobs + 1)
  /\ txn \in [Owner -> Request \cup {NoRequest}]

WorkerOK ==
  /\ mode \in {"down", "recovering", "up", "stopping"}
  /\ active \in Int
  /\ phase \in [Job -> {"idle", "handler", "settle", "continue", "fail"}]
  /\ more \in [Job -> BOOLEAN]
  /\ failure \in [Job -> Error]
  /\ ends \in Nat

TypeOK == TableOK /\ WorkerOK /\ polling \in BOOLEAN

Init ==
  /\ status = [j \in Job |-> "unused"]
  /\ request = [j \in Job |-> NoRequest]
  /\ attempts = [j \in Job |-> 0]
  /\ due = [j \in Job |-> TRUE]
  /\ nextJob = 1
  /\ txn = [o \in Owner |-> NoRequest]
  /\ mode = "down"
  /\ polling = FALSE
  /\ active = 0
  /\ phase = [j \in Job |-> "idle"]
  /\ more = [j \in Job |-> FALSE]
  /\ failure = [j \in Job |-> "transient"]
  /\ ends = 0

-----------------------------------------------------------------------------
(* The database.  SqliteDatabase.serialize chains every operation and every *)
(* transaction on operationTail, so nothing runs while a transaction is     *)
(* open; a PostgreSQL transaction at READ COMMITTED excludes nobody here.   *)

DbFree == Serialized => \A o \in Owner : txn[o] = NoRequest

Exists(j) == status[j] \notin {"unused", "deleted"}

\* An active job of the same resource, or any job with the same key.
Coalesces(req) ==
  \E j \in Job :
    \/ status[j] \in Active /\ request[j].resource = req.resource
    \/ Exists(j) /\ request[j].key = req.key

\* Rows not yet spoken for: keeps the bound MaxJobs from cutting a call short.
Capacity ==
  nextJob + Cardinality({j \in Job : more[j]})
          + Cardinality({c \in Client : txn[c] # NoRequest}) <= MaxJobs

-----------------------------------------------------------------------------
(* Worker bookkeeping shared by the ways execute() can end.                 *)

\* The loop condition of tick(), with n executions under way.
MayClaim(n) == mode = "up" /\ n < Concurrency

\* Mutant: nothing counts active down.
FinishUncounted(j) ==
  /\ phase' = [phase EXCEPT ![j] = "idle"]
  /\ polling' = (polling \/ MayClaim(active))
  /\ UNCHANGED active

\* .finally(): active -= 1 and scheduleTick(), which polls unless stopped,
\* already polling, or at the limit.
Finish(j) ==
  /\ phase' = [phase EXCEPT ![j] = "idle"]
  /\ active' = active - 1
  /\ polling' = (polling \/ MayClaim(active - 1))

-----------------------------------------------------------------------------
(* enqueue()                                                                *)

\* A caller's transaction has read the table and found nothing to coalesce
\* with.  A call that does coalesce changes nothing: it is a stuttering step.
EnqueueRead(c, req) ==
  /\ DbFree
  /\ txn[c] = NoRequest
  /\ Capacity
  /\ ~ Coalesces(req)
  /\ txn' = [txn EXCEPT ![c] = req]
  /\ UNCHANGED <<table, mode, polling, worker, ends>>

\* INSERT of the row and COMMIT.
InsertRow(o) ==
  /\ txn[o] # NoRequest
  /\ nextJob <= MaxJobs
  /\ \A j \in Job : Exists(j) => request[j].key # txn[o].key
  /\ status' = [status EXCEPT ![nextJob] = "queued"]
  /\ request' = [request EXCEPT ![nextJob] = txn[o]]
  /\ nextJob' = nextJob + 1
  /\ txn' = [txn EXCEPT ![o] = NoRequest]
  /\ UNCHANGED <<attempts, due, mode, ends>>

EnqueueInsert(c) ==
  /\ InsertRow(c)
  /\ UNCHANGED <<polling, worker>>

\* UNIQUE(idempotency_key) or the database fails: rollback, the caller gets
\* the error.
EnqueueFails(c) ==
  /\ txn[c] # NoRequest
  /\ DbFaults \/ \E j \in Job : Exists(j) /\ request[j].key = txn[c].key
  /\ txn' = [txn EXCEPT ![c] = NoRequest]
  /\ UNCHANGED <<table, mode, polling, worker, ends>>

-----------------------------------------------------------------------------
(* tick() and claim()                                                       *)

\* Mutant: claim() looks for 'queued' rows only.
ReadyQueued == {j \in Job : status[j] = "queued" /\ due[j]}

Ready == {j \in Job : status[j] \in Waiting /\ due[j]}

\* ORDER BY priority ASC, created_at_ms ASC LIMIT 1
First(j) ==
  /\ j \in Ready
  /\ \A k \in Ready :
       \/ request[j].priority < request[k].priority
       \/ request[j].priority = request[k].priority /\ j <= k

\* The one-second timer starts a poll unless one is under way.
TimerTick ==
  /\ ~ polling /\ MayClaim(active)
  /\ polling' = TRUE
  /\ UNCHANGED <<table, txn, mode, worker, ends>>

\* claim() takes the row, execute() starts, and the loop condition of tick()
\* decides whether another claim follows.  stop() may have come in between.
Claim(j) ==
  /\ polling /\ DbFree /\ First(j)
  /\ status' = [status EXCEPT ![j] = "running"]
  /\ attempts' = [attempts EXCEPT ![j] = @ + 1]
  /\ active' = active + 1
  /\ phase' = [phase EXCEPT ![j] = "handler"]
  /\ polling' = MayClaim(active + 1)
  /\ UNCHANGED <<request, due, nextJob, txn, mode, more, failure, ends>>

\* Nothing to claim, the candidate was cancelled between SELECT and UPDATE
\* (PostgreSQL), or claim() threw.
PollEnds ==
  /\ polling /\ DbFree
  /\ Ready = {} \/ ~ Serialized \/ DbFaults
  /\ polling' = FALSE
  /\ UNCHANGED <<table, txn, mode, worker, ends>>

-----------------------------------------------------------------------------
(* execute() and fail()                                                     *)

\* The handler resolves, with or without a continuation for its resource.
HandlerReturns(j, m) ==
  /\ phase[j] = "handler"
  /\ m => Capacity
  /\ phase' = [phase EXCEPT ![j] = "settle"]
  /\ more' = [more EXCEPT ![j] = m]
  /\ UNCHANGED <<table, txn, mode, polling, active, failure, ends>>

\* The handler (or the lookup of one) throws: an ordinary error, a provider's
\* 4xx answer, or PROVIDER_CIRCUIT_OPEN.
HandlerThrows(j, e) ==
  /\ phase[j] = "handler"
  /\ phase' = [phase EXCEPT ![j] = "fail"]
  /\ failure' = [failure EXCEPT ![j] = e]
  /\ UNCHANGED <<table, txn, mode, polling, active, more, ends>>

\* market.sync: cancelIfDisabled cancels the row it runs for and returns.
HandlerCancels(j) ==
  /\ phase[j] = "handler" /\ DbFree /\ status[j] = "running"
  /\ status' = [status EXCEPT ![j] = "cancelled"]
  /\ phase' = [phase EXCEPT ![j] = "settle"]
  /\ UNCHANGED <<request, attempts, due, nextJob, txn, mode, polling,
                 active, more, failure, ends>>

\* Mutant: the UPDATE that completes a job lacks AND status = 'running'.
MarkCompletedAnyway(j) ==
  /\ phase[j] = "settle" /\ DbFree /\ ~ more[j]
  /\ status' = [status EXCEPT ![j] = "completed"]
  /\ Finish(j)
  /\ UNCHANGED <<request, attempts, due, nextJob, txn, mode, more, failure, ends>>

\* UPDATE ... SET status = 'completed' ... WHERE status = 'running'
MarkCompleted(j) ==
  /\ phase[j] = "settle" /\ DbFree
  /\ status' = [status EXCEPT ![j] = IF @ = "running" THEN "completed" ELSE @]
  /\ \/ /\ more[j]
        /\ phase' = [phase EXCEPT ![j] = "continue"]
        /\ UNCHANGED <<active, polling>>
     \/ ~ more[j] /\ Finish(j)
  /\ UNCHANGED <<request, attempts, due, nextJob, txn, mode, more, failure, ends>>

\* address.sync continues under the same resource with a key of its own.
ContinuationOf(j) ==
  [resource |-> request[j].resource, key |-> <<"continuation", j>>,
   priority |-> ContinuationPriority]

ContinueRead(j) ==
  /\ phase[j] = "continue" /\ DbFree /\ txn[j] = NoRequest
  /\ \/ /\ Coalesces(ContinuationOf(j))
        /\ Finish(j)
        /\ more' = [more EXCEPT ![j] = FALSE]
        /\ UNCHANGED txn
     \/ /\ ~ Coalesces(ContinuationOf(j))
        /\ txn' = [txn EXCEPT ![j] = ContinuationOf(j)]
        /\ UNCHANGED <<phase, active, polling, more>>
  /\ UNCHANGED <<table, mode, failure, ends>>

ContinueInsert(j) ==
  /\ phase[j] = "continue"
  /\ InsertRow(j)
  /\ Finish(j)
  /\ more' = [more EXCEPT ![j] = FALSE]
  /\ UNCHANGED failure

\* A database call made by execute() throws.
WorkerFault(j) ==
  /\ DbFaults
  /\ phase[j] \in {"settle", "continue"}
  /\ phase' = [phase EXCEPT ![j] = "fail"]
  /\ failure' = [failure EXCEPT ![j] = "transient"]
  /\ more' = [more EXCEPT ![j] = FALSE]
  /\ txn' = [txn EXCEPT ![j] = NoRequest]
  /\ UNCHANGED <<table, mode, polling, active, ends>>

\* The verdict of fail(): a 4xx answer and the last attempt are final, an
\* open circuit never is.
GivesUp(j) ==
  \/ failure[j] = "rejected"
  \/ failure[j] # "circuit" /\ attempts[j] >= MaxAttempts

\* fail(): the UPDATE names the row by id only.  An attempt that met an open
\* circuit is handed back.
Fail(j) ==
  /\ phase[j] = "fail" /\ DbFree
  /\ status' = [status EXCEPT ![j] = IF GivesUp(j) THEN "failed" ELSE "retry"]
  /\ due' = [due EXCEPT ![j] = GivesUp(j)]
  /\ attempts' = [attempts EXCEPT ![j] =
                    IF failure[j] = "circuit" /\ @ > 0 THEN @ - 1 ELSE @]
  /\ failure' = [failure EXCEPT ![j] = "transient"]
  /\ Finish(j)
  /\ UNCHANGED <<request, nextJob, txn, mode, more, ends>>

\* next_retry_at_ms passes.
BackoffElapses(j) ==
  /\ status[j] = "retry" /\ ~ due[j]
  /\ due' = [due EXCEPT ![j] = TRUE]
  /\ UNCHANGED <<status, request, attempts, nextJob, txn, mode, polling, worker, ends>>

-----------------------------------------------------------------------------
(* Other writers of the table                                               *)

\* Mutant: the cancellation takes the running row, too.
CancelAll(r) ==
  /\ DbFree
  /\ status' = [j \in Job |-> IF status[j] \in Active /\ request[j].resource = r
                              THEN "cancelled" ELSE status[j]]
  /\ UNCHANGED <<request, attempts, due, nextJob, txn, mode, polling, worker, ends>>

\* Deleting an address or disabling a watched asset cancels what waits for
\* the resource; what runs is left alone.
CancelWaiting(r) ==
  /\ DbFree
  /\ \E j \in Job : status[j] \in Waiting /\ request[j].resource = r
  /\ status' = [j \in Job |-> IF status[j] \in Waiting /\ request[j].resource = r
                              THEN "cancelled" ELSE status[j]]
  /\ UNCHANGED <<request, attempts, due, nextJob, txn, mode, polling, worker, ends>>

\* Mutant: retention takes jobs that wait for a retry for failed ones.
PruneRetrying(j) ==
  /\ DbFree /\ status[j] \in {"failed", "retry"}
  /\ status' = [status EXCEPT ![j] = "deleted"]
  /\ UNCHANGED <<request, attempts, due, nextJob, txn, mode, polling, worker, ends>>

\* Retention deletes failed jobs.
PruneFailed(j) ==
  /\ DbFree /\ status[j] = "failed"
  /\ status' = [status EXCEPT ![j] = "deleted"]
  /\ UNCHANGED <<request, attempts, due, nextJob, txn, mode, polling, worker, ends>>

-----------------------------------------------------------------------------
(* start(), stop() and the end of the process                               *)

Start ==
  /\ mode = "down"
  /\ mode' = "recovering"
  /\ UNCHANGED <<table, txn, polling, worker, ends>>

\* Mutant: start() does not look for rows a dead process left running.
RecoverNothing ==
  /\ mode = "recovering"
  /\ mode' = "up"
  /\ polling' = TRUE
  /\ UNCHANGED <<table, txn, worker, ends>>

\* recoverInterrupted() requeues the rows a dead process left running; only
\* then do the timer and the first poll start.
Recover ==
  /\ mode = "recovering" /\ DbFree
  /\ status' = [j \in Job |-> IF status[j] = "running" THEN "retry" ELSE status[j]]
  /\ due' = [j \in Job |-> due[j] \/ status[j] = "running"]
  /\ mode' = "up"
  /\ polling' = TRUE
  /\ UNCHANGED <<request, attempts, nextJob, txn, worker, ends>>

\* SIGTERM or SIGINT.
Stop ==
  /\ mode = "up" /\ ends < MaxEnds
  /\ mode' = "stopping"
  /\ ends' = ends + 1
  /\ UNCHANGED <<table, txn, polling, worker>>

\* stop() returns when the poll has ended and no execute() is left.  The
\* server lets open requests finish before the process exits: a transaction
\* that is open now commits then, or else is one the next process opens before
\* it starts the queue.
StopDone ==
  /\ mode = "stopping" /\ ~ polling /\ active = 0
  /\ mode' = "down"
  /\ UNCHANGED <<table, txn, polling, worker, ends>>

\* The process dies: killed, or an UPDATE of fail() threw and nothing handles
\* the rejection.  Open transactions roll back.
Crash ==
  /\ mode # "down" /\ ends < MaxEnds
  /\ mode' = "down"
  /\ ends' = ends + 1
  /\ txn' = [o \in Owner |-> NoRequest]
  /\ polling' = FALSE
  /\ active' = 0
  /\ phase' = [j \in Job |-> "idle"]
  /\ more' = [j \in Job |-> FALSE]
  /\ failure' = [j \in Job |-> "transient"]
  /\ UNCHANGED table

-----------------------------------------------------------------------------
Execute(j) ==
  \/ Claim(j)
  \/ \E m \in BOOLEAN : HandlerReturns(j, m)
  \/ \E e \in Error : HandlerThrows(j, e)
  \/ HandlerCancels(j)
  \/ MarkCompleted(j)
  \/ ContinueRead(j)
  \/ ContinueInsert(j)
  \/ WorkerFault(j)
  \/ Fail(j)
  \/ BackoffElapses(j)
  \/ PruneFailed(j)

Enqueue(c) ==
  \/ \E req \in Call : EnqueueRead(c, req)
  \/ EnqueueInsert(c)
  \/ EnqueueFails(c)

Lifecycle == TimerTick \/ PollEnds \/ Start \/ Recover \/ Stop \/ StopDone \/ Crash

Next ==
  \/ \E j \in Job : Execute(j)
  \/ \E c \in Client : Enqueue(c)
  \/ \E r \in Resource : CancelWaiting(r)
  \/ Lifecycle

Spec == Init /\ [][Next]_vars

(***************************************************************************)
(* Fairness.  Timers fire, and a process that ended is started again: weak *)
(* fairness.  A step that waits for the database is strongly fair, since   *)
(* operationTail serves the operations first come, first served: others    *)
(* may go first, not for ever.  So is a claim, that faults may put off,    *)
(* and the handler's outcome: run again and again, it meets a closed       *)
(* circuit one day.  Nothing obliges a client, a cancellation, retention,  *)
(* a fault, a stop or a crash to happen.                                   *)
(***************************************************************************)
Settles(j) ==
  \/ HandlerReturns(j, FALSE)
  \/ \E e \in Error \ {"circuit"} : HandlerThrows(j, e)

Fairness ==
  /\ WF_vars(Start) /\ WF_vars(TimerTick) /\ WF_vars(StopDone)
  /\ SF_vars(Recover) /\ SF_vars(PollEnds)
  /\ SF_vars(\E j \in Job : Claim(j))
  /\ \A c \in Client : WF_vars(EnqueueInsert(c) \/ EnqueueFails(c))
  /\ \A j \in Job :
       /\ SF_vars(Settles(j))
       /\ SF_vars(MarkCompleted(j) \/ ContinueRead(j) \/ ContinueInsert(j))
       /\ SF_vars(Fail(j))
       /\ WF_vars(BackoffElapses(j))

FairSpec == Spec /\ Fairness

-----------------------------------------------------------------------------
(* Properties                                                               *)

\* Resource keys serialize work: no two rows of one resource are queued,
\* running or waiting for a retry at the same time (enqueue, lines 132-160).
OneActivePerResource ==
  \A i, j \in Job :
    /\ status[i] \in Active /\ status[j] \in Active
    /\ request[i].resource = request[j].resource
    => i = j

\* No two handlers work for one resource at the same time, cancellations,
\* shutdowns and crashes included (claim and execute, lines 176-257).
HandlerExclusive ==
  \A i, j \in Job :
    /\ phase[i] = "handler" /\ phase[j] = "handler"
    /\ request[i].resource = request[j].resource
    => i = j

\* A row marked running belongs to an execute() of this process, so a job
\* cannot be stranded: whatever a dead process left running has been requeued
\* before anything polls (start, recoverInterrupted, stop).
NoOrphanedRun ==
  mode \in {"up", "stopping"} =>
    \A j \in Job : status[j] = "running" => phase[j] \in {"handler", "settle", "fail"}

\* The jobs with an execute() under way.
Busy == {j \in Job : phase[j] # "idle"}

\* JobQueue.active counts the execute() calls under way, over errors in the
\* middle of execute() too, and stays within the configured concurrency.
ActiveCounts ==
  /\ active = Cardinality(Busy)
  /\ active <= Concurrency

\* A job is tried at most max_attempts times, plus once for each time the
\* process ended under it; attempts that met an open circuit are not counted.
AttemptsBounded ==
  \A j \in Job : attempts[j] <= MaxAttempts + ends

\* A job that is completed, failed or cancelled is never worked on again.
TerminalIsFinal ==
  [][\A j \in Job : status[j] \in Terminal => status'[j] \in {status[j], "deleted"}]_vars

\* Every job is eventually completed, failed or cancelled, whatever the order
\* of polls, retries, restarts and database errors.
EveryJobSettles == \A j \in Job : status[j] \in Active ~> status[j] \notin Active

\* stop() returns: the worker drains whatever the handlers meet.
StopReturns == mode = "stopping" ~> mode = "down"

\* The queue implements the ledger (JobLedger): one open job per resource,
\* only legal life cycles, interrupted work back in the queue.
LedgerState(j) ==
  CASE status[j] = "unused"  -> "unknown"
    [] status[j] \in Waiting -> "waiting"
    [] status[j] = "running" -> "running"
    [] status[j] \in Terminal -> "done"
    [] status[j] = "deleted" -> "forgotten"

LedgerOwner(j) == IF request[j] = NoRequest THEN NoRequest ELSE request[j].resource

Ledger == INSTANCE JobLedger WITH
  state <- [j \in Job |-> LedgerState(j)],
  owner <- [j \in Job |-> LedgerOwner(j)],
  NoResource <- NoRequest

ImplementsLedger == Ledger!Spec
=============================================================================
