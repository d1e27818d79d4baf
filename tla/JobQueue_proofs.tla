-------------------------- MODULE JobQueue_proofs ---------------------------
(***************************************************************************)
(* Proofs about JobQueue, for every number of jobs, clients and process    *)
(* ends.  The facts about the worker hold for both database engines and    *)
(* with database faults; that resources are serialized needs a database    *)
(* that runs one transaction at a time and answers every call.             *)
(***************************************************************************)
EXTENDS JobQueue, FiniteSetTheorems, TLAPS

USE DEF MayClaim

(* The strengthening of TypeOK and NoOrphanedRun: which rows are filled,   *)
(* how the phase of an execute() and the status of its row go together,    *)
(* and what is still when the worker is down.                              *)

\* Rows are filled in order, and a filled row holds a request.
RowsFilled ==
  \A j \in Job :
    /\ status[j] = "unused" <=> j >= nextJob
    /\ status[j] # "unused" => request[j] \in Request

\* A job being executed is not up for another claim, and while its handler
\* runs its row says so; only an execute() about to continue has a transaction.
PhaseAgrees ==
  \A j \in Job :
    /\ phase[j] = "handler" => status[j] = "running"
    /\ phase[j] # "idle" => status[j] \notin Waiting \cup {"unused"}
    /\ txn[j] # NoRequest => phase[j] = "continue"

\* A worker that is down, or not yet recovered, does nothing.
QuietWhenDown ==
  /\ mode \in {"down", "recovering"} => active = 0 /\ ~ polling
  /\ polling => active < Concurrency

WorkerInv ==
  TypeOK /\ RowsFilled /\ PhaseAgrees /\ QuietWhenDown /\ ActiveCounts /\ NoOrphanedRun

-----------------------------------------------------------------------------
LEMMA JobsAreNumbers == Job \subseteq Nat /\ IsFiniteSet(Job)
BY Assumptions, FS_Interval DEF Job

\* Counting: what Busy becomes when one execute() starts or ends.
LEMMA BusyCounted ==
  ASSUME NEW S \in SUBSET Job
  PROVE  /\ IsFiniteSet(S) /\ Cardinality(S) \in Nat
         /\ (Cardinality(S) = 0) <=> (S = {})
         /\ \A j \in Job \ S : Cardinality(S \cup {j}) = Cardinality(S) + 1
         /\ \A j \in S : Cardinality(S \ {j}) = Cardinality(S) - 1
<1>1. IsFiniteSet(S)
  BY JobsAreNumbers, FS_Subset
<1>2. Cardinality(S) \in Nat
  BY <1>1, FS_CardinalityType
<1>3. (Cardinality(S) = 0) <=> (S = {})
  BY <1>1, FS_EmptySet
<1>4. \A j \in Job \ S : Cardinality(S \cup {j}) = Cardinality(S) + 1
  BY <1>1, FS_AddElement
<1>5. \A j \in S : Cardinality(S \ {j}) = Cardinality(S) - 1
  BY <1>1, FS_RemoveElement
<1> QED
  BY <1>1, <1>2, <1>3, <1>4, <1>5

LEMMA WorkerInit == Init => WorkerInv
<1> SUFFICES ASSUME Init PROVE WorkerInv
  OBVIOUS
<1> USE Assumptions, JobsAreNumbers
<1>1. TypeOK
  <2>1. "unused" \in Status
    BY DEF Status
  <2>2. TableOK
    BY <2>1 DEF Init, TableOK
  <2>3. WorkerOK
    BY DEF Init, WorkerOK, Error
  <2> QED
    BY <2>2, <2>3 DEF Init, TypeOK
<1>2. RowsFilled /\ PhaseAgrees /\ QuietWhenDown /\ NoOrphanedRun
  BY DEF Init, RowsFilled, PhaseAgrees, QuietWhenDown, NoOrphanedRun, Owner, Waiting, Job
<1>3. ActiveCounts
  <2>1. Busy = {}
    BY DEF Init, Busy
  <2> QED
    BY <2>1, FS_EmptySet DEF Init, ActiveCounts
<1> QED
  BY <1>1, <1>2, <1>3 DEF WorkerInv

\* With a count of zero nothing is being executed.
LEMMA NoneBusy ==
  ASSUME WorkerInv, active = 0
  PROVE  \A j \in Job : phase[j] = "idle"
<1>1. Busy \in SUBSET Job /\ Cardinality(Busy) = 0
  BY DEF WorkerInv, ActiveCounts, Busy
<1> QED
  BY <1>1, BusyCounted DEF Busy

\* What an execute() asks for is a request like any other.
LEMMA ContinuationIsRequest ==
  ASSUME WorkerInv, NEW j \in Job, phase[j] # "idle"
  PROVE  ContinuationOf(j) \in Request
BY Assumptions DEF ContinuationOf, Request, Key, WorkerInv, RowsFilled, PhaseAgrees

\* An execute() that ends leaves the count right and the limit kept.
LEMMA FinishCounts ==
  ASSUME WorkerInv, NEW j \in Job, phase[j] # "idle", Finish(j), mode' = mode
  PROVE  /\ phase' \in [Job -> {"idle", "handler", "settle", "continue", "fail"}]
         /\ active' \in Int /\ polling' \in BOOLEAN
         /\ ActiveCounts'
         /\ QuietWhenDown'
<1> USE DEF WorkerInv, TypeOK, WorkerOK
<1>1. phase' \in [Job -> {"idle", "handler", "settle", "continue", "fail"}]
  BY DEF Finish
<1>2. polling' \in BOOLEAN
  BY Zenon DEF Finish
<1>3. Busy' = Busy \ {j}
  BY DEF Finish, Busy
<1>4. Busy \in SUBSET Job /\ j \in Busy
  BY DEF Busy
<1>5. active' = Cardinality(Busy')
  BY <1>3, <1>4, BusyCounted DEF Finish, ActiveCounts
<1>6. active' \in Int /\ active' < Concurrency /\ (polling' => active' < Concurrency)
  BY Assumptions DEF Finish, ActiveCounts
<1>7. ActiveCounts'
  BY <1>5, <1>6, Assumptions DEF ActiveCounts
<1>8. mode \notin {"down", "recovering"}
  BY <1>4, BusyCounted DEF QuietWhenDown, ActiveCounts
<1>9. QuietWhenDown'
  BY <1>6, <1>8 DEF QuietWhenDown
<1> QED
  BY <1>1, <1>2, <1>6, <1>7, <1>9

-----------------------------------------------------------------------------
(* One lemma per action whose effect on the invariant takes an argument.   *)

LEMMA ClaimStep ==
  ASSUME WorkerInv, NEW j \in Job, Claim(j)
  PROVE  WorkerInv'
<1> USE Assumptions, JobsAreNumbers DEF WorkerInv, TypeOK, WorkerOK
<1>1. TypeOK'
  BY DEF Claim, TableOK, Status, Active
<1>2. RowsFilled' /\ PhaseAgrees' /\ NoOrphanedRun'
  BY DEF Claim, First, Ready, TableOK, RowsFilled, PhaseAgrees, NoOrphanedRun, Waiting
<1>3. QuietWhenDown'
  BY DEF Claim, QuietWhenDown
<1>4. ActiveCounts'
  <2>1. Busy' = Busy \cup {j}
    BY DEF Claim, Busy
  <2>2. Busy \in SUBSET Job /\ j \notin Busy
    BY DEF Claim, First, Ready, Busy, PhaseAgrees
  <2>3. active' = Cardinality(Busy')
    BY <2>1, <2>2, BusyCounted DEF Claim, ActiveCounts
  <2>4. active' <= Concurrency
    BY DEF Claim, QuietWhenDown
  <2> QED
    BY <2>3, <2>4 DEF ActiveCounts
<1> QED
  BY <1>1, <1>2, <1>3, <1>4

LEMMA MarkCompletedStep ==
  ASSUME WorkerInv, NEW j \in Job, MarkCompleted(j)
  PROVE  WorkerInv'
<1> USE Assumptions, JobsAreNumbers DEF WorkerInv, TypeOK, WorkerOK
<1>1. TableOK' /\ RowsFilled'
  BY DEF MarkCompleted, TableOK, RowsFilled, Status, Waiting, Active, Terminal, Job
<1>2. CASE more[j]
  <2>1. /\ phase' = [phase EXCEPT ![j] = "continue"]
        /\ UNCHANGED <<active, polling>>
    BY <1>2 DEF MarkCompleted
  <2>2. Busy' = Busy
    BY <2>1 DEF MarkCompleted, Busy
  <2> QED
    BY <1>1, <2>1, <2>2 DEF MarkCompleted, PhaseAgrees, QuietWhenDown, ActiveCounts,
                            NoOrphanedRun, TableOK, Waiting
<1>3. CASE ~ more[j]
  <2>1. Finish(j) /\ phase[j] # "idle" /\ mode' = mode
    BY <1>3 DEF MarkCompleted
  <2>2. WorkerOK' /\ polling' \in BOOLEAN /\ ActiveCounts' /\ QuietWhenDown'
    BY <2>1, FinishCounts, Zenon DEF MarkCompleted
  <2>3. PhaseAgrees' /\ NoOrphanedRun'
    BY <2>1 DEF MarkCompleted, Finish, PhaseAgrees, NoOrphanedRun, TableOK, Waiting
  <2> QED
    BY <1>1, <2>2, <2>3
<1> QED
  BY <1>2, <1>3

LEMMA FailStep ==
  ASSUME WorkerInv, NEW j \in Job, Fail(j)
  PROVE  WorkerInv'
<1> USE Assumptions, JobsAreNumbers DEF WorkerInv, TypeOK, WorkerOK
<1>1. Finish(j) /\ phase[j] # "idle" /\ mode' = mode
  BY DEF Fail
<1>2. attempts' \in [Job -> Nat]
  BY DEF Fail, TableOK
<1>3. due' \in [Job -> BOOLEAN] /\ failure' \in [Job -> Error]
  BY DEF Fail, TableOK, GivesUp, Error
<1>4. TableOK' /\ RowsFilled'
  BY <1>2, <1>3 DEF Fail, TableOK, RowsFilled, PhaseAgrees, Status, Waiting, Active, Terminal, Job
<1>5. WorkerOK' /\ polling' \in BOOLEAN /\ ActiveCounts' /\ QuietWhenDown'
  BY <1>1, <1>3, FinishCounts, Zenon DEF Fail
<1>6. PhaseAgrees' /\ NoOrphanedRun'
  BY <1>1 DEF Fail, Finish, PhaseAgrees, NoOrphanedRun, TableOK, Waiting, Owner
<1> QED
  BY <1>4, <1>5, <1>6

LEMMA ContinueReadStep ==
  ASSUME WorkerInv, NEW j \in Job, ContinueRead(j)
  PROVE  WorkerInv'
<1> USE Assumptions, JobsAreNumbers DEF WorkerInv, TypeOK, WorkerOK
<1>1. RowsFilled' /\ UNCHANGED table /\ mode' = mode
  BY DEF ContinueRead, table, RowsFilled
<1>2. CASE Finish(j) /\ more' = [more EXCEPT ![j] = FALSE] /\ UNCHANGED txn
  <2>1. TableOK' /\ more' \in [Job -> BOOLEAN] /\ failure' = failure /\ ends' = ends
    BY <1>1, <1>2 DEF ContinueRead, table, TableOK
  <2>2. WorkerOK' /\ polling' \in BOOLEAN /\ ActiveCounts' /\ QuietWhenDown'
    BY <1>1, <1>2, <2>1, FinishCounts, Zenon DEF ContinueRead
  <2>3. PhaseAgrees' /\ NoOrphanedRun'
    BY <1>1, <1>2, <2>1 DEF ContinueRead, table, Finish, TableOK, PhaseAgrees, NoOrphanedRun, Waiting, Owner
  <2> QED
    BY <1>1, <2>1, <2>2, <2>3
<1>3. CASE /\ txn' = [txn EXCEPT ![j] = ContinuationOf(j)]
           /\ UNCHANGED <<phase, active, polling, more>>
  <2>1. ContinuationOf(j) \in Request
    BY ContinuationIsRequest DEF ContinueRead
  <2>2. TableOK'
    BY <1>1, <1>3, <2>1 DEF table, TableOK, Owner
  <2>3. Busy' = Busy
    BY <1>3 DEF Busy
  <2> QED
    BY <1>1, <1>3, <2>2, <2>3 DEF ContinueRead, table, TableOK, PhaseAgrees, QuietWhenDown,
                                  ActiveCounts, NoOrphanedRun, Owner
<1> QED
  BY <1>2, <1>3 DEF ContinueRead

LEMMA ContinueInsertStep ==
  ASSUME WorkerInv, NEW j \in Job, ContinueInsert(j)
  PROVE  WorkerInv'
<1> USE Assumptions, JobsAreNumbers DEF WorkerInv, TypeOK, WorkerOK
<1>1. Finish(j) /\ InsertRow(j) /\ phase[j] # "idle" /\ mode' = mode
  BY DEF ContinueInsert, InsertRow
<1>2. nextJob \in Job /\ txn[j] \in Request
  <2>1. nextJob \in Job
    BY <1>1 DEF InsertRow, TableOK, Job
  <2> QED
    BY <1>1, <2>1 DEF InsertRow, TableOK, Owner
<1>3. TableOK'
  <2>1. nextJob' \in 1 .. (MaxJobs + 1)
    BY <1>1 DEF InsertRow, TableOK
  <2>2. status' \in [Job -> Status]
    BY <1>1 DEF InsertRow, TableOK, Status, Active, Waiting
  <2> QED
    BY <1>1, <1>2, <2>1, <2>2 DEF InsertRow, TableOK
<1>4. RowsFilled'
  BY <1>1, <1>2 DEF InsertRow, TableOK, RowsFilled
<1>5. more' \in [Job -> BOOLEAN] /\ failure' = failure /\ ends' = ends
  BY <1>1 DEF ContinueInsert, InsertRow
<1>6. WorkerOK' /\ polling' \in BOOLEAN /\ ActiveCounts' /\ QuietWhenDown'
  BY <1>1, <1>5, FinishCounts, Zenon
<1>7. PhaseAgrees' /\ NoOrphanedRun'
  <2>1. status[nextJob] = "unused" /\ phase[nextJob] = "idle"
    BY <1>2 DEF RowsFilled, PhaseAgrees, TableOK
  <2> QED
    BY <1>1, <1>2, <2>1 DEF InsertRow, Finish, TableOK, PhaseAgrees, NoOrphanedRun, Waiting, Owner
<1> QED
  BY <1>3, <1>4, <1>6, <1>7

LEMMA RecoverStep ==
  ASSUME WorkerInv, Recover
  PROVE  WorkerInv'
<1> USE Assumptions, JobsAreNumbers DEF WorkerInv, TypeOK, WorkerOK
<1>1. active = 0 /\ \A j \in Job : phase[j] = "idle"
  BY NoneBusy DEF Recover, QuietWhenDown
<1>2. TypeOK' /\ RowsFilled'
  BY DEF Recover, worker, TableOK, RowsFilled, Status, Active, Waiting
<1>3. PhaseAgrees' /\ NoOrphanedRun'
  BY <1>1 DEF Recover, worker, PhaseAgrees, NoOrphanedRun, TableOK
<1>4. QuietWhenDown' /\ ActiveCounts'
  BY <1>1 DEF Recover, worker, QuietWhenDown, ActiveCounts, Busy
<1> QED
  BY <1>2, <1>3, <1>4

LEMMA CrashStep ==
  ASSUME WorkerInv, Crash
  PROVE  WorkerInv'
<1> USE Assumptions, JobsAreNumbers DEF WorkerInv, TypeOK
<1>1. TableOK' /\ RowsFilled'
  BY DEF Crash, table, TableOK, RowsFilled
<1>2. WorkerOK'
  <2>1. active' = 0 /\ ends' \in Nat
    BY DEF Crash, WorkerOK
  <2>2. /\ phase' \in [Job -> {"idle", "handler", "settle", "continue", "fail"}]
        /\ more' \in [Job -> BOOLEAN] /\ failure' \in [Job -> Error]
    BY DEF Crash, Error
  <2>3. mode' \in {"down", "recovering", "up", "stopping"}
    BY DEF Crash
  <2> QED
    BY <2>1, <2>2, <2>3 DEF WorkerOK
<1>3. polling' \in BOOLEAN /\ PhaseAgrees' /\ QuietWhenDown' /\ NoOrphanedRun'
  BY DEF Crash, PhaseAgrees, QuietWhenDown, NoOrphanedRun, Owner
<1>4. ActiveCounts'
  <2>1. Busy' = {}
    BY DEF Crash, Busy
  <2> QED
    BY <2>1, FS_EmptySet DEF Crash, ActiveCounts
<1> QED
  BY <1>1, <1>2, <1>3, <1>4

-----------------------------------------------------------------------------
LEMMA WorkerStep == WorkerInv /\ [Next]_vars => WorkerInv'
<1> SUFFICES ASSUME WorkerInv, [Next]_vars PROVE WorkerInv'
  OBVIOUS
<1> USE Assumptions, JobsAreNumbers
    DEF WorkerInv, TypeOK, TableOK, WorkerOK, RowsFilled, PhaseAgrees, QuietWhenDown,
        ActiveCounts, NoOrphanedRun, Busy, Status, Waiting, Active, Terminal, Error,
        Exists, Job, Owner, table, worker
<1>1. ASSUME NEW c \in Client, NEW req \in Call, EnqueueRead(c, req) PROVE WorkerInv'
  BY ZenonT(60), <1>1 DEF EnqueueRead
<1>2. ASSUME NEW c \in Client, EnqueueInsert(c) PROVE WorkerInv'
  BY SMTT(30), <1>2 DEF EnqueueInsert, InsertRow
<1>3. ASSUME NEW c \in Client, EnqueueFails(c) PROVE WorkerInv'
  BY <1>3 DEF EnqueueFails
<1>4. ASSUME NEW j \in Job, NEW m \in BOOLEAN, HandlerReturns(j, m) PROVE WorkerInv'
  BY ZenonT(60), <1>4 DEF HandlerReturns
<1>5. ASSUME NEW j \in Job, NEW e \in Error, HandlerThrows(j, e) PROVE WorkerInv'
  BY ZenonT(60), <1>5 DEF HandlerThrows
<1>6. ASSUME NEW j \in Job, HandlerCancels(j) PROVE WorkerInv'
  BY ZenonT(60), <1>6 DEF HandlerCancels
<1>7. ASSUME NEW j \in Job, WorkerFault(j) PROVE WorkerInv'
  BY ZenonT(60), <1>7 DEF WorkerFault
<1>8. ASSUME NEW j \in Job, BackoffElapses(j) PROVE WorkerInv'
  BY <1>8 DEF BackoffElapses
<1>9. ASSUME NEW j \in Job, PruneFailed(j) PROVE WorkerInv'
  BY <1>9 DEF PruneFailed
<1>10. ASSUME NEW r \in Resource, CancelWaiting(r) PROVE WorkerInv'
  BY <1>10 DEF CancelWaiting
<1>11. CASE TimerTick
  BY <1>11 DEF TimerTick
<1>12. CASE PollEnds
  BY <1>12 DEF PollEnds
<1>13. CASE Start
  BY <1>13 DEF Start
<1>14. CASE Stop
  BY <1>14 DEF Stop
<1>15. CASE StopDone
  BY <1>15 DEF StopDone
<1>16. CASE UNCHANGED vars
  BY <1>16 DEF vars
<1> HIDE DEF WorkerInv, TypeOK, TableOK, WorkerOK, RowsFilled, PhaseAgrees, QuietWhenDown,
        ActiveCounts, NoOrphanedRun, Busy, Status, Waiting, Active, Terminal, Error,
        Exists, Job, Owner, table, worker
<1>17. ASSUME NEW j \in Job, Execute(j) PROVE WorkerInv'
  BY <1>4, <1>5, <1>6, <1>7, <1>8, <1>9, <1>17, ClaimStep, MarkCompletedStep, FailStep,
     ContinueReadStep, ContinueInsertStep
  DEF Execute
<1>18. ASSUME NEW c \in Client, Enqueue(c) PROVE WorkerInv'
  BY <1>1, <1>2, <1>3, <1>18 DEF Enqueue
<1>19. CASE Lifecycle
  BY <1>11, <1>12, <1>13, <1>14, <1>15, <1>19, RecoverStep, CrashStep DEF Lifecycle
<1> QED
  BY <1>10, <1>16, <1>17, <1>18, <1>19 DEF Next

\* The invariant of the worker holds in every behaviour.
THEOREM WorkerInvariant == Spec => []WorkerInv
<1>1. Init => WorkerInv
  BY WorkerInit
<1>2. WorkerInv /\ [Next]_vars => WorkerInv'
  BY WorkerStep
<1> QED
  BY <1>1, <1>2, PTL DEF Spec

\* Type correctness.
THEOREM TypeCorrect == Spec => []TypeOK
BY WorkerInvariant, PTL DEF WorkerInv

\* No job is stranded: a row marked running is being executed by this process
\* whenever the worker is up or draining.
THEOREM NothingStranded == Spec => []NoOrphanedRun
BY WorkerInvariant, PTL DEF WorkerInv

\* The counter that limits the worker counts what runs, and stays in the limit.
THEOREM ConcurrencyKept == Spec => []ActiveCounts
BY WorkerInvariant, PTL DEF WorkerInv

-----------------------------------------------------------------------------
(* Bounded attempts.  A row waiting for its next try has tries left, and a  *)
(* row a dead process left running gained one when the process died.        *)

TriesLeft(j) == attempts[j] < MaxAttempts + ends

AttemptsInv ==
  \A j \in Job :
    /\ status[j] = "unused" => attempts[j] = 0
    /\ attempts[j] <= MaxAttempts + ends
    /\ status[j] \in Waiting => TriesLeft(j)
    /\ status[j] = "running" /\ mode \in {"down", "recovering"} => TriesLeft(j)

LEMMA AttemptsStep ==
  WorkerInv /\ AttemptsInv /\ [Next]_vars => AttemptsInv'
<1> SUFFICES ASSUME WorkerInv, AttemptsInv, [Next]_vars PROVE AttemptsInv'
  OBVIOUS
<1> USE Assumptions, JobsAreNumbers
    DEF WorkerInv, TypeOK, TableOK, WorkerOK, AttemptsInv, TriesLeft, Waiting
<1>1. ASSUME NEW j \in Job, Claim(j) PROVE AttemptsInv'
  BY <1>1 DEF Claim, First, Ready, QuietWhenDown
<1>2. ASSUME NEW j \in Job, Fail(j) PROVE AttemptsInv'
  <2>1. UNCHANGED <<mode, ends>>
    BY <1>2 DEF Fail
  <2>2. \A k \in Job : k # j => status'[k] = status[k] /\ attempts'[k] = attempts[k]
    BY <1>2 DEF Fail
  <2>3. /\ status'[j] \in {"failed", "retry"}
        /\ attempts'[j] \in Int /\ attempts'[j] <= attempts[j]
    BY <1>2 DEF Fail
  <2>4. status'[j] = "retry" => attempts'[j] < MaxAttempts + ends
    BY <1>2 DEF Fail, GivesUp
  <2> QED
    BY <2>1, <2>2, <2>3, <2>4
<1>3. ASSUME NEW o \in Owner, InsertRow(o) PROVE AttemptsInv'
  BY <1>3 DEF InsertRow, RowsFilled, Job
<1>4. CASE Recover
  BY <1>4 DEF Recover, worker
<1>5. CASE Crash
  BY <1>5 DEF Crash, table
<1>6. CASE StopDone
  <2>1. \A j \in Job : phase[j] = "idle"
    BY <1>6, NoneBusy DEF StopDone
  <2> QED
    BY <1>6, <2>1 DEF StopDone, NoOrphanedRun, table, worker
<1>7. ASSUME NEW j \in Job,
             HandlerCancels(j) \/ MarkCompleted(j) \/ PruneFailed(j)
      PROVE  AttemptsInv'
  BY <1>7 DEF HandlerCancels, MarkCompleted, PruneFailed
<1>8. ASSUME NEW r \in Resource, CancelWaiting(r) PROVE AttemptsInv'
  BY <1>8 DEF CancelWaiting
<1>9. CASE UNCHANGED <<status, attempts, ends>> /\ mode' \in {mode, "recovering"}
           /\ (mode' = "recovering" => mode \in {"down", "recovering"})
  BY <1>9
<1>10. CASE Stop
  BY <1>10 DEF Stop, table, worker
<1> HIDE DEF WorkerInv, TypeOK, TableOK, WorkerOK, AttemptsInv, TriesLeft, Waiting
<1>11. ASSUME NEW j \in Job, Execute(j) PROVE AttemptsInv'
  <2>1. ASSUME \/ \E m \in BOOLEAN : HandlerReturns(j, m)
               \/ \E e \in Error : HandlerThrows(j, e)
               \/ ContinueRead(j) \/ WorkerFault(j) \/ BackoffElapses(j)
        PROVE  AttemptsInv'
    BY <2>1, <1>9 DEF HandlerReturns, HandlerThrows, ContinueRead, WorkerFault,
                      BackoffElapses, table, worker, WorkerInv, TypeOK, WorkerOK
  <2> QED
    BY <1>1, <1>2, <1>3, <1>7, <1>11, <2>1 DEF Execute, ContinueInsert, Owner
<1>12. ASSUME NEW c \in Client, Enqueue(c) PROVE AttemptsInv'
  <2>1. ASSUME (\E req \in Call : EnqueueRead(c, req)) \/ EnqueueFails(c)
        PROVE  AttemptsInv'
    BY <2>1, <1>9 DEF EnqueueRead, EnqueueFails, table, WorkerInv, TypeOK, WorkerOK
  <2> QED
    BY <1>3, <1>12, <2>1 DEF Enqueue, EnqueueInsert, Owner
<1>13. CASE Lifecycle \/ UNCHANGED vars
  <2>1. ASSUME TimerTick \/ PollEnds \/ Start \/ UNCHANGED vars
        PROVE  AttemptsInv'
    BY <2>1, <1>9 DEF TimerTick, PollEnds, Start, vars, table, WorkerInv, TypeOK, WorkerOK
  <2> QED
    BY <1>4, <1>5, <1>6, <1>10, <1>13, <2>1 DEF Lifecycle
<1> QED
  BY <1>8, <1>11, <1>12, <1>13 DEF Next

\* No job is tried more than max_attempts times and once per end of the process.
THEOREM AttemptsAreBounded == Spec => []AttemptsBounded
<1>1. Init => AttemptsInv
  BY Assumptions DEF Init, AttemptsInv, TriesLeft, Waiting
<1>2. WorkerInv /\ AttemptsInv /\ [Next]_vars => AttemptsInv'
  BY AttemptsStep
<1>3. AttemptsInv => AttemptsBounded
  BY DEF AttemptsInv, AttemptsBounded
<1> QED
  BY <1>1, <1>2, <1>3, WorkerInvariant, PTL DEF Spec

-----------------------------------------------------------------------------
(* Serialized resources.  With one transaction at a time and no database    *)
(* fault, what an enqueue read still holds when it inserts, and fail() only *)
(* ever sees a row that is running.                                         *)

\* An open transaction is the only one, and its resource has no active job.
TxnAlone ==
  \A o \in Owner : txn[o] # NoRequest =>
    /\ \A p \in Owner : txn[p] # NoRequest => p = o
    /\ \A j \in Job : status[j] \in Active => request[j].resource # txn[o].resource

FailRuns == \A j \in Job : phase[j] = "fail" => status[j] = "running"

SerialInv == OneActivePerResource /\ TxnAlone /\ FailRuns

\* Rows that keep their requests and do not become active break nothing.
LEMMA NoNewActive ==
  ASSUME WorkerInv, SerialInv, UNCHANGED <<request, txn>>,
         \A j \in Job : status'[j] \in Active => status[j] \in Active
  PROVE  OneActivePerResource' /\ TxnAlone'
BY DEF SerialInv, OneActivePerResource, TxnAlone

LEMMA SerialInsert ==
  ASSUME WorkerInv, SerialInv, NEW o \in Owner, InsertRow(o)
  PROVE  OneActivePerResource' /\ TxnAlone'
<1> USE DEF WorkerInv, TypeOK, TableOK, SerialInv
<1>1. nextJob \in Job /\ txn[o] # NoRequest
  BY Assumptions DEF InsertRow, Job
<1>2. \A j \in Job : j # nextJob => status'[j] = status[j] /\ request'[j] = request[j]
  BY <1>1 DEF InsertRow
<1>3. request'[nextJob] = txn[o]
  BY <1>1 DEF InsertRow
<1>4. \A p \in Owner : txn'[p] = NoRequest
  BY <1>1 DEF InsertRow, TxnAlone
<1>5. OneActivePerResource'
  BY <1>1, <1>2, <1>3 DEF OneActivePerResource, TxnAlone
<1>6. TxnAlone'
  BY <1>4 DEF TxnAlone
<1> QED
  BY <1>5, <1>6

LEMMA SerialBegin ==
  ASSUME WorkerInv, SerialInv, Serialized, NEW o \in Owner, NEW req \in Request, DbFree,
         ~ Coalesces(req), txn' = [txn EXCEPT ![o] = req], UNCHANGED <<status, request>>
  PROVE  OneActivePerResource' /\ TxnAlone'
<1>1. \A p \in Owner : p # o => txn'[p] = NoRequest
  BY DEF DbFree, WorkerInv, TypeOK, TableOK
<1>2. txn'[o] = req
  BY DEF WorkerInv, TypeOK, TableOK
<1>3. \A j \in Job : status'[j] \in Active => request'[j].resource # req.resource
  BY DEF Coalesces
<1> QED
  BY <1>1, <1>2, <1>3 DEF SerialInv, OneActivePerResource, TxnAlone

LEMMA SerialStep ==
  ASSUME Serialized, ~ DbFaults
  PROVE  WorkerInv /\ SerialInv /\ [Next]_vars => SerialInv'
<1> SUFFICES ASSUME WorkerInv, SerialInv, [Next]_vars PROVE SerialInv'
  OBVIOUS
<1> USE DEF table, worker
<1>1. ASSUME NEW c \in Client, Enqueue(c) PROVE SerialInv'
  <2>1. FailRuns'
    BY <1>1, Assumptions DEF Enqueue, EnqueueRead, EnqueueInsert, EnqueueFails, InsertRow, SerialInv,
                FailRuns, WorkerInv, TypeOK, TableOK, WorkerOK, RowsFilled, Job
  <2>2. ASSUME NEW req \in Call, EnqueueRead(c, req) PROVE OneActivePerResource' /\ TxnAlone'
    BY <2>2, SerialBegin, Assumptions DEF EnqueueRead, Owner
  <2>3. CASE EnqueueInsert(c)
    <3>1. c \in Owner /\ InsertRow(c)
      BY <2>3 DEF EnqueueInsert, Owner
    <3> QED
      BY <2>1, <3>1, SerialInsert DEF SerialInv
  <2>4. CASE EnqueueFails(c)
    <3>1. c \in Owner /\ txn' = [txn EXCEPT ![c] = NoRequest] /\ UNCHANGED <<status, request>>
      BY <2>4 DEF EnqueueFails, Owner
    <3> QED
      BY <2>1, <3>1 DEF SerialInv, OneActivePerResource, TxnAlone, WorkerInv, TypeOK, TableOK
  <2> QED
    BY <1>1, <2>1, <2>2, <2>3, <2>4 DEF Enqueue, SerialInv
<1>2. ASSUME NEW j \in Job, Execute(j) PROVE SerialInv'
  <2>1. FailRuns'
    BY <1>2, Assumptions DEF Execute, Claim, First, Ready, HandlerReturns, HandlerThrows, HandlerCancels,
             MarkCompleted, ContinueRead, ContinueInsert, InsertRow, WorkerFault, Fail,
             BackoffElapses, PruneFailed, Finish, SerialInv, FailRuns,
             WorkerInv, TypeOK, TableOK, WorkerOK, RowsFilled, PhaseAgrees, Waiting, Job
  <2>2. CASE ContinueRead(j)
    <3>1. j \in Owner /\ UNCHANGED <<status, request>>
      BY <2>2 DEF ContinueRead, Owner
    <3>2. CASE UNCHANGED txn
      BY <2>1, <3>1, <3>2, NoNewActive DEF SerialInv
    <3>3. CASE /\ ~ Coalesces(ContinuationOf(j))
               /\ txn' = [txn EXCEPT ![j] = ContinuationOf(j)]
      <4>1. DbFree /\ ContinuationOf(j) \in Request
        BY <2>2, ContinuationIsRequest DEF ContinueRead
      <4> QED
        BY <2>1, <3>1, <3>3, <4>1, SerialBegin DEF SerialInv
    <3> QED
      BY <2>2, <3>2, <3>3 DEF ContinueRead
  <2>3. CASE ContinueInsert(j)
    <3>1. j \in Owner /\ InsertRow(j)
      BY <2>3 DEF ContinueInsert, Owner
    <3> QED
      BY <2>1, <3>1, SerialInsert DEF SerialInv
  <2>4. CASE ~ ContinueRead(j) /\ ~ ContinueInsert(j)
    <3>1. UNCHANGED <<request, txn>>
      BY <1>2, <2>4 DEF Execute, Claim, HandlerReturns, HandlerThrows, HandlerCancels,
                        MarkCompleted, WorkerFault, Fail, BackoffElapses, PruneFailed
    <3>2. \A k \in Job : status'[k] \in Active => status[k] \in Active
      BY <1>2, <2>4 DEF Execute, Claim, First, Ready, HandlerReturns, HandlerThrows, HandlerCancels,
                        MarkCompleted, WorkerFault, Fail, BackoffElapses, PruneFailed, SerialInv, FailRuns,
                        WorkerInv, TypeOK, TableOK, Active, Waiting
    <3> QED
      BY <2>1, <3>1, <3>2, NoNewActive DEF SerialInv
  <2> QED
    BY <2>2, <2>3, <2>4
<1>3. ASSUME NEW r \in Resource, CancelWaiting(r) PROVE SerialInv'
  <2>1. FailRuns'
    BY <1>3 DEF CancelWaiting, SerialInv, FailRuns, Waiting
  <2>2. UNCHANGED <<request, txn>> /\ \A k \in Job : status'[k] \in Active => status[k] \in Active
    BY <1>3 DEF CancelWaiting, Active
  <2> QED
    BY <2>1, <2>2, NoNewActive DEF SerialInv
<1>4. CASE Lifecycle
  <2>1. CASE Crash
    BY <2>1 DEF Crash, SerialInv, OneActivePerResource, TxnAlone, FailRuns
  <2>2. CASE Recover
    <3>1. \A j \in Job : phase[j] = "idle"
      BY <2>2, NoneBusy DEF Recover, WorkerInv, QuietWhenDown
    <3>2. FailRuns'
      BY <2>2, <3>1 DEF Recover, FailRuns
    <3>3. UNCHANGED <<request, txn>> /\ \A k \in Job : status'[k] \in Active => status[k] \in Active
      BY <2>2 DEF Recover, Active
    <3> QED
      BY <3>2, <3>3, NoNewActive DEF SerialInv
  <2>3. CASE TimerTick \/ PollEnds \/ Start \/ Stop \/ StopDone
    BY <2>3 DEF TimerTick, PollEnds, Start, Stop, StopDone, SerialInv, OneActivePerResource, TxnAlone, FailRuns
  <2> QED
    BY <1>4, <2>1, <2>2, <2>3 DEF Lifecycle
<1>5. CASE UNCHANGED vars
  BY <1>5 DEF vars, SerialInv, OneActivePerResource, TxnAlone, FailRuns
<1> QED
  BY <1>1, <1>2, <1>3, <1>4, <1>5 DEF Next

LEMMA SerialInvariant ==
  ASSUME Serialized, ~ DbFaults
  PROVE  Spec => []SerialInv
<1>1. Init => SerialInv
  BY DEF Init, SerialInv, OneActivePerResource, TxnAlone, FailRuns, Active, Waiting
<1>2. WorkerInv /\ SerialInv /\ [Next]_vars => SerialInv'
  BY SerialStep
<1> QED
  BY <1>1, <1>2, WorkerInvariant, PTL DEF Spec

\* Resource keys serialize work: one active job per resource.
THEOREM OneActive ==
  ASSUME Serialized, ~ DbFaults
  PROVE  Spec => []OneActivePerResource
BY SerialInvariant, PTL DEF SerialInv

\* No two handlers ever work for one resource at the same time.
THEOREM Exclusive ==
  ASSUME Serialized, ~ DbFaults
  PROVE  Spec => []HandlerExclusive
<1>1. WorkerInv /\ SerialInv => HandlerExclusive
  BY DEF WorkerInv, PhaseAgrees, SerialInv, OneActivePerResource, HandlerExclusive, Active
<1> QED
  BY <1>1, WorkerInvariant, SerialInvariant, PTL

\* A job that is done is never worked on again.
THEOREM DoneIsDone ==
  ASSUME Serialized, ~ DbFaults
  PROVE  Spec => TerminalIsFinal
<1>1. WorkerInv /\ SerialInv /\ [Next]_vars =>
        \A j \in Job : status[j] \in Terminal => status'[j] \in {status[j], "deleted"}
  <2> SUFFICES ASSUME WorkerInv, SerialInv, [Next]_vars,
                      NEW k \in Job, status[k] \in Terminal
               PROVE  status'[k] \in {status[k], "deleted"}
    OBVIOUS
  <2> USE DEF Terminal, Waiting, WorkerInv, TypeOK, TableOK, table, worker
  <2>1. ASSUME NEW j \in Job, Execute(j) PROVE status'[k] \in {status[k], "deleted"}
    <3>1. CASE ContinueInsert(j)
      BY <3>1 DEF ContinueInsert, InsertRow, RowsFilled
    <3> QED
      BY <2>1, <3>1 DEF Execute, Claim, First, Ready, HandlerReturns, HandlerThrows, HandlerCancels,
           MarkCompleted, ContinueRead, WorkerFault, Fail, BackoffElapses, PruneFailed,
           SerialInv, FailRuns
  <2>2. ASSUME NEW c \in Client, Enqueue(c) PROVE status'[k] \in {status[k], "deleted"}
    BY <2>2 DEF Enqueue, EnqueueRead, EnqueueInsert, EnqueueFails, InsertRow, RowsFilled
  <2>3. ASSUME NEW r \in Resource, CancelWaiting(r) PROVE status'[k] \in {status[k], "deleted"}
    BY <2>3 DEF CancelWaiting
  <2>4. CASE Lifecycle \/ UNCHANGED vars
    BY <2>4 DEF Lifecycle, TimerTick, PollEnds, Start, Recover, Stop, StopDone, Crash, vars
  <2> QED
    BY <2>1, <2>2, <2>3, <2>4 DEF Next
<1> QED
  BY <1>1, WorkerInvariant, SerialInvariant, PTL DEF Spec, TerminalIsFinal

-----------------------------------------------------------------------------
(* Refinement.  What a client may see of the table is a behaviour of the    *)
(* ledger: each step of the queue is one of its steps, or changes nothing   *)
(* that it sees.                                                            *)

Seen(s) ==
  CASE s = "unused"  -> "unknown"
    [] s \in Waiting -> "waiting"
    [] s = "running" -> "running"
    [] s \in Terminal -> "done"
    [] s = "deleted" -> "forgotten"

LEMMA SeenAs ==
  /\ Seen("unused") = "unknown" /\ Seen("running") = "running" /\ Seen("deleted") = "forgotten"
  /\ \A s \in Waiting : Seen(s) = "waiting"
  /\ \A s \in Terminal : Seen(s) = "done"
  /\ \A s \in Status : Seen(s) \in {"waiting", "running"} <=> s \in Active
BY DEF Seen, Waiting, Terminal, Active, Status

States == [j \in Job |-> LedgerState(j)]
Owners == [j \in Job |-> LedgerOwner(j)]

LEMMA StateSeen ==
  /\ States = [j \in Job |-> Seen(status[j])]
  /\ States' = [j \in Job |-> Seen(status'[j])]
BY DEF States, LedgerState, Seen

LEMMA OwnersStay ==
  ASSUME UNCHANGED request
  PROVE  Owners' = Owners
BY DEF Owners, LedgerOwner

\* A row that is inserted is a job submitted for a resource without an open one.
LEMMA Submits ==
  ASSUME WorkerInv, SerialInv, NEW o \in Owner, InsertRow(o)
  PROVE  Ledger!Submit(nextJob, txn[o].resource) /\ nextJob \in Job /\ txn[o].resource \in Resource
<1>1. /\ nextJob \in Job /\ txn[o] \in Request /\ txn[o] # NoRequest
      /\ status \in [Job -> Status] /\ status[nextJob] = "unused"
  BY Assumptions DEF InsertRow, WorkerInv, TypeOK, TableOK, Job, RowsFilled
<1>2. /\ status' = [status EXCEPT ![nextJob] = "queued"]
      /\ request' = [request EXCEPT ![nextJob] = txn[o]] /\ request \in [Job -> Request \cup {NoRequest}]
  BY DEF InsertRow, WorkerInv, TypeOK, TableOK
<1>3. txn[o].resource \in Resource
  BY <1>1 DEF Request
<1>4. ASSUME NEW k \in Job, States[k] \in {"waiting", "running"} PROVE Owners[k] # txn[o].resource
  <2>1. status[k] \in Active
    BY <1>1, <1>4, SeenAs, StateSeen
  <2>2. request[k] # NoRequest /\ request[k].resource # txn[o].resource
    BY <1>1, <2>1, Assumptions DEF SerialInv, TxnAlone, WorkerInv, RowsFilled, Active, Waiting
  <2> QED BY <2>2 DEF Owners, LedgerOwner
<1>5. States' = [j \in Job |-> IF j \in {nextJob} THEN "waiting" ELSE States[j]]
  BY <1>1, <1>2, SeenAs, StateSeen DEF Waiting
<1>6. Owners' = [Owners EXCEPT ![nextJob] = txn[o].resource]
  BY <1>1, <1>2 DEF Owners, LedgerOwner
<1>7. States[nextJob] = "unknown"
  BY <1>1, SeenAs, StateSeen
<1> QED
  BY <1>1, <1>3, <1>4, <1>5, <1>6, <1>7 DEF Ledger!Submit, Ledger!Set, Ledger!Open, States, Owners

LEMMA LedgerStep ==
  ASSUME Serialized, ~ DbFaults
  PROVE  WorkerInv /\ SerialInv /\ [Next]_vars => [Ledger!Next]_(Ledger!vars)
<1> SUFFICES ASSUME WorkerInv, SerialInv, [Next]_vars
             PROVE  Ledger!Next \/ (States' = States /\ Owners' = Owners)
  BY DEF Ledger!vars, States, Owners
<1>0. status \in [Job -> Status]
  BY DEF WorkerInv, TypeOK, TableOK
<1> USE DEF table, worker
<1>1. ASSUME UNCHANGED <<status, request>> PROVE States' = States /\ Owners' = Owners
  BY <1>1, StateSeen, OwnersStay
<1>2. ASSUME NEW S \in SUBSET Job, UNCHANGED request, NEW s \in Waiting,
             \A j \in S : status[j] = "running",
             \A j \in Job : status'[j] = IF j \in S THEN s ELSE status[j]
      PROVE  Ledger!Next
  <2>1. States' = [j \in Job |-> IF j \in S THEN "waiting" ELSE States[j]]
    BY <1>2, SeenAs, StateSeen
  <2>2. \A j \in S : States[j] = "running"
    BY <1>2, SeenAs, StateSeen
  <2>3. Ledger!Release(S)
    BY <1>2, <2>1, <2>2, OwnersStay DEF Ledger!Release, Ledger!Set, States, Owners
  <2> QED BY <2>3 DEF Ledger!Next
<1>3. ASSUME NEW S \in SUBSET Job, UNCHANGED request, NEW s \in Terminal,
             \A j \in S : status[j] \in Active,
             \A j \in Job : status'[j] = IF j \in S THEN s ELSE status[j]
      PROVE  Ledger!Next
  <2>1. States' = [j \in Job |-> IF j \in S THEN "done" ELSE States[j]]
    BY <1>3, SeenAs, StateSeen
  <2>2. \A j \in S : States[j] \in {"waiting", "running"}
    BY <1>0, <1>3, SeenAs, StateSeen
  <2>3. Ledger!Conclude(S)
    BY <1>3, <2>1, <2>2, OwnersStay DEF Ledger!Conclude, Ledger!Set, Ledger!Open, States, Owners
  <2> QED BY <2>3 DEF Ledger!Next
<1>4. ASSUME NEW o \in Owner, InsertRow(o) PROVE Ledger!Next
  BY <1>4, Submits DEF Ledger!Next
<1>5. ASSUME NEW j \in Job, Execute(j)
      PROVE  Ledger!Next \/ (States' = States /\ Owners' = Owners)
  <2>1. CASE Claim(j)
    <3>1. /\ status[j] \in Waiting /\ status' = [status EXCEPT ![j] = "running"]
          /\ request' = request
      BY <2>1 DEF Claim, First, Ready
    <3>2. States' = [k \in Job |-> IF k \in {j} THEN "running" ELSE States[k]]
      BY <1>0, <3>1, SeenAs, StateSeen
    <3>3. States[j] = "waiting"
      BY <3>1, SeenAs, StateSeen
    <3>4. Ledger!Begin(j)
      BY <3>1, <3>2, <3>3, OwnersStay DEF Ledger!Begin, Ledger!Set, States, Owners
    <3> QED BY <3>4 DEF Ledger!Next
  <2>2. CASE PruneFailed(j)
    <3>1. /\ status[j] \in Terminal /\ status' = [status EXCEPT ![j] = "deleted"]
          /\ request' = request
      BY <2>2 DEF PruneFailed, Terminal
    <3>2. States' = [k \in Job |-> IF k \in {j} THEN "forgotten" ELSE States[k]]
      BY <1>0, <3>1, SeenAs, StateSeen
    <3>3. States[j] = "done"
      BY <3>1, SeenAs, StateSeen
    <3>4. Ledger!Forget(j)
      BY <3>1, <3>2, <3>3, OwnersStay DEF Ledger!Forget, Ledger!Set, States, Owners
    <3> QED BY <3>4 DEF Ledger!Next
  <2>3. CASE HandlerCancels(j)
    <3>1. \A k \in Job : status'[k] = IF k \in {j} THEN "cancelled" ELSE status[k]
      BY <1>0, <2>3 DEF HandlerCancels
    <3>2. status[j] \in Active /\ "cancelled" \in Terminal /\ request' = request
      BY <2>3 DEF HandlerCancels, Active, Terminal
    <3> QED BY <1>3, <3>1, <3>2
  <2>4. CASE MarkCompleted(j)
    <3>1. request' = request
      BY <2>4 DEF MarkCompleted
    <3>2. CASE status[j] = "running"
      <4>1. \A k \in Job : status'[k] = IF k \in {j} THEN "completed" ELSE status[k]
        BY <1>0, <2>4, <3>2 DEF MarkCompleted
      <4>2. status[j] \in Active /\ "completed" \in Terminal
        BY <3>2 DEF Active, Terminal
      <4> QED BY <1>3, <3>1, <4>1, <4>2
    <3>3. CASE status[j] # "running"
      <4>1. status' = status
        BY <1>0, <2>4, <3>3 DEF MarkCompleted
      <4> QED BY <1>1, <3>1, <4>1
    <3> QED BY <3>2, <3>3
  <2>5. CASE Fail(j)
    <3>1. status[j] = "running" /\ request' = request
      BY <2>5 DEF Fail, SerialInv, FailRuns
    <3>2. CASE GivesUp(j)
      <4>1. \A k \in Job : status'[k] = IF k \in {j} THEN "failed" ELSE status[k]
        BY <1>0, <2>5, <3>2 DEF Fail
      <4>2. status[j] \in Active /\ "failed" \in Terminal
        BY <3>1 DEF Active, Terminal
      <4> QED BY <1>3, <3>1, <4>1, <4>2
    <3>3. CASE ~ GivesUp(j)
      <4>1. \A k \in Job : status'[k] = IF k \in {j} THEN "retry" ELSE status[k]
        BY <1>0, <2>5, <3>3 DEF Fail
      <4>2. "retry" \in Waiting
        BY DEF Waiting
      <4> QED BY <1>2, <3>1, <4>1, <4>2
    <3> QED BY <3>2, <3>3
  <2>6. CASE ContinueInsert(j)
    BY <1>4, <2>6 DEF ContinueInsert, Owner
  <2>7. CASE \/ \E m \in BOOLEAN : HandlerReturns(j, m)
             \/ \E e \in Error : HandlerThrows(j, e)
             \/ ContinueRead(j) \/ WorkerFault(j) \/ BackoffElapses(j)
    BY <1>1, <2>7 DEF HandlerReturns, HandlerThrows, ContinueRead, WorkerFault, BackoffElapses
  <2> QED BY <1>5, <2>1, <2>2, <2>3, <2>4, <2>5, <2>6, <2>7 DEF Execute
<1>6. ASSUME NEW c \in Client, Enqueue(c)
      PROVE  Ledger!Next \/ (States' = States /\ Owners' = Owners)
  <2>1. CASE EnqueueInsert(c)
    BY <1>4, <2>1 DEF EnqueueInsert, Owner
  <2>2. CASE (\E req \in Call : EnqueueRead(c, req)) \/ EnqueueFails(c)
    BY <1>1, <2>2 DEF EnqueueRead, EnqueueFails
  <2> QED BY <1>6, <2>1, <2>2 DEF Enqueue
<1>7. ASSUME NEW r \in Resource, CancelWaiting(r) PROVE Ledger!Next
  <2> DEFINE S == {j \in Job : status[j] \in Waiting /\ request[j].resource = r}
  <2>1. \A j \in Job : status'[j] = IF j \in S THEN "cancelled" ELSE status[j]
    BY <1>7 DEF CancelWaiting
  <2>2. request' = request /\ "cancelled" \in Terminal /\ \A j \in S : status[j] \in Active
    BY <1>7 DEF CancelWaiting, Terminal, Active
  <2> QED BY <1>3, <2>1, <2>2
<1>8. CASE Recover
  <2> DEFINE S == {j \in Job : status[j] = "running"}
  <2>1. \A j \in Job : status'[j] = IF j \in S THEN "retry" ELSE status[j]
    BY <1>8 DEF Recover
  <2>2. request' = request /\ "retry" \in Waiting
    BY <1>8 DEF Recover, Waiting
  <2> QED BY <1>2, <2>1, <2>2
<1>9. CASE TimerTick \/ PollEnds \/ Start \/ Stop \/ StopDone \/ Crash \/ UNCHANGED vars
  BY <1>1, <1>9 DEF TimerTick, PollEnds, Start, Stop, StopDone, Crash, vars
<1> QED BY <1>5, <1>6, <1>7, <1>8, <1>9 DEF Next, Lifecycle

\* The queue implements the ledger: one open job per resource, legal life cycles, interrupted
\* work back in the queue (enqueue, claim, execute, fail, recoverInterrupted and those who
\* cancel and prune).
THEOREM LedgerImplemented ==
  ASSUME Serialized, ~ DbFaults
  PROVE  Spec => ImplementsLedger
<1>1. Init => Ledger!Init
  <2>1. Init => States = [j \in Job |-> "unknown"]
    BY StateSeen, SeenAs DEF Init
  <2>2. Init => Owners = [j \in Job |-> NoRequest]
    BY DEF Init, Owners, LedgerOwner
  <2> QED BY <2>1, <2>2 DEF Ledger!Init, States, Owners
<1>2. WorkerInv /\ SerialInv /\ [Next]_vars => [Ledger!Next]_(Ledger!vars)
  BY LedgerStep
<1> QED
  BY <1>1, <1>2, WorkerInvariant, SerialInvariant, PTL DEF Spec, ImplementsLedger, Ledger!Spec
=============================================================================
