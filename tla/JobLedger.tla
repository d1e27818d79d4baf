----------------------------- MODULE JobLedger ------------------------------
(***************************************************************************)
(* What the job queue promises its clients, whatever the worker, the       *)
(* database and the process do: work is done for one job of a resource at  *)
(* a time, a job that was interrupted goes back to waiting, and a job that *)
(* is done stays done until it is forgotten.                               *)
(***************************************************************************)
EXTENDS Integers

CONSTANTS Job, Resource, NoResource

VARIABLES
  state,   \* where a job is in its life
  owner    \* the resource it works for

vars == <<state, owner>>

State == {"unknown", "waiting", "running", "done", "forgotten"}
Open == {"waiting", "running"}

TypeOK ==
  /\ state \in [Job -> State]
  /\ owner \in [Job -> Resource \cup {NoResource}]

Init ==
  /\ state = [j \in Job |-> "unknown"]
  /\ owner = [j \in Job |-> NoResource]

Set(S, s) == state' = [j \in Job |-> IF j \in S THEN s ELSE state[j]]

\* A new job is taken in only for a resource with no open job.
Submit(j, r) ==
  /\ state[j] = "unknown"
  /\ \A k \in Job : state[k] \in Open => owner[k] # r
  /\ Set({j}, "waiting")
  /\ owner' = [owner EXCEPT ![j] = r]

Begin(j) ==
  /\ state[j] = "waiting"
  /\ Set({j}, "running")
  /\ UNCHANGED owner

\* A try that failed, or the restart after an interruption.
Release(S) ==
  /\ \A j \in S : state[j] = "running"
  /\ Set(S, "waiting")
  /\ UNCHANGED owner

\* Completed, failed for good, or cancelled.
Conclude(S) ==
  /\ \A j \in S : state[j] \in Open
  /\ Set(S, "done")
  /\ UNCHANGED owner

Forget(j) ==
  /\ state[j] = "done"
  /\ Set({j}, "forgotten")
  /\ UNCHANGED owner

Next ==
  \/ \E j \in Job, r \in Resource : Submit(j, r)
  \/ \E j \in Job : Begin(j) \/ Forget(j)
  \/ \E S \in SUBSET Job : Release(S) \/ Conclude(S)

Spec == Init /\ [][Next]_vars
=============================================================================
