---------------------------- MODULE AddressSync -----------------------------
(***************************************************************************)
(* Synchronization of one tracked address: the address.sync handler and    *)
(* replaceAssets (api/src/services/addresses.ts) with the history adapters *)
(* of Bitcoin, Solana and Dogecoin (api/src/providers/chains.ts).          *)
(*                                                                         *)
(* The transactions of the address are numbered in the order of the chain. *)
(* An adapter pages backwards: a cursor remembers the oldest transaction   *)
(* fetched and whether the first one was reached.  The job queue is taken  *)
(* at its word (JobLedger): at most one open address.sync job, and a       *)
(* refresh coalesces with it.  Each await of the handler is a point where  *)
(* replaceAssets, the chain and the end of the process may come in between.*)
(***************************************************************************)
EXTENDS Assets, Integers, FiniteSets, FiniteSetsExt

CONSTANTS
  MaxTx,      \* bound: transactions the address ever has
  PageSize,   \* transactions in a provider page (25, 100, 50)
  MaxReplace, \* bound: calls of replaceAssets
  MaxTrouble, \* bound: failed fetches and process ends
  Busy        \* may transactions come faster than the latest page shows them?

Tx == 1 .. MaxTx
Network == {"bitcoin", "dogecoin", "solana"}
NoCursor == [before |-> 0, done |-> FALSE]

ASSUME Assumptions ==
  /\ MaxTx \in Nat /\ PageSize \in Nat \ {0}
  /\ MaxReplace \in Nat /\ MaxTrouble \in Nat
  /\ Busy \in BOOLEAN

VARIABLES
  network,    \* of the address
  tip,        \* transactions so far
  unsettled,  \* those with too few confirmations
  gone,       \* those that were replaced or reorganized away
  selected,   \* address_asset_selections that are enabled
  cursor,     \* address_sync_state.cursor_json
  recorded,   \* chain_transactions: "no", "pending" or "finalized"
  imported,   \* assets with an event of the transaction
  job,        \* the address.sync job: "none", "waiting", "running"
  pc,         \* where the handler is
  got,        \* what the handler has read or fetched
  replaced, trouble,  \* counts for the bounds
  overtaken,  \* history: a selection was replaced while the handler worked on the one before
  walk        \* history: the settled transactions when the last walk began

chain == <<network, tip, unsettled, gone>>
stored == <<selected, cursor, recorded, imported>>
vars == <<chain, stored, job, pc, got, replaced, trouble, overtaken, walk>>

Nothing == [cursor |-> NoCursor, selected |-> {}, page |-> {}, settled |-> {},
            next |-> NoCursor, walk |-> {}]

CursorType == [before : 0 .. MaxTx, done : BOOLEAN]

TypeOK ==
  /\ network \in Network
  /\ tip \in 0 .. MaxTx /\ unsettled \subseteq Tx /\ gone \subseteq Tx
  /\ selected \subseteq Token /\ cursor \in CursorType
  /\ recorded \in [Tx -> {"no", "pending", "finalized"}]
  /\ imported \in [Tx -> SUBSET (Token \cup {Native})]
  /\ job \in {"none", "waiting", "running"}
  /\ pc \in {"idle", "begun", "chosen", "fetched", "written"}
  /\ got \in [cursor : CursorType, selected : SUBSET Token, page : SUBSET Tx,
              settled : SUBSET Tx, next : CursorType, walk : SUBSET Tx]
  /\ replaced \in 0 .. MaxReplace /\ trouble \in 0 .. MaxTrouble
  /\ overtaken \in BOOLEAN /\ walk \subseteq Tx

\* An address is added, with whatever history it has, and its first sync queued.
Init ==
  /\ network \in Network
  /\ tip \in 0 .. MaxTx /\ unsettled = {} /\ gone = {}
  /\ selected \in IF network = "solana" THEN SUBSET Token ELSE {{}}
  /\ cursor = NoCursor
  /\ recorded = [t \in Tx |-> "no"]
  /\ imported = [t \in Tx |-> {}]
  /\ job = "waiting" /\ pc = "idle" /\ got = Nothing
  /\ replaced = 0 /\ trouble = 0
  /\ overtaken = FALSE /\ walk = {}

-----------------------------------------------------------------------------
(* The chain                                                                *)

Existing == (1 .. tip) \ gone
Recorded == {t \in Tx : recorded[t] # "no"}
Pending == {t \in Tx : recorded[t] = "pending"}

\* Unless the address is busy, the latest page still reaches what is known of
\* the walk under way when one more transaction has come, and shows all that
\* is pending.
Reached(S) == tip + 1 - Max(S \cup {0}) <= PageSize

InReach ==
  /\ cursor # NoCursor => Reached(Recorded)
  /\ pc = "fetched" => Reached(got.page)
  /\ \A t \in Pending \cup unsettled \cup (got.page \ got.settled) : tip + 1 - t < PageSize

Arrive ==
  /\ tip < MaxTx
  /\ Busy \/ InReach
  /\ tip' = tip + 1
  /\ unsettled' = unsettled \cup (IF network = "solana" THEN {} ELSE {tip + 1})
  /\ UNCHANGED <<network, gone, stored, job, pc, got, replaced, trouble, overtaken, walk>>

Settle(t) ==
  /\ t \in unsettled
  /\ unsettled' = unsettled \ {t}
  /\ UNCHANGED <<network, tip, gone, stored, job, pc, got, replaced, trouble, overtaken, walk>>

Disappear(t) ==
  /\ t \in unsettled
  /\ unsettled' = unsettled \ {t}
  /\ gone' = gone \cup {t}
  /\ UNCHANGED <<network, tip, stored, job, pc, got, replaced, trouble, overtaken, walk>>

-----------------------------------------------------------------------------
(* fetchHistory of the adapters                                             *)

\* A provider page: the newest transactions of S.
Page(S) == {t \in S : Cardinality({u \in S : u > t}) < PageSize}

Older(c) == Page({t \in Existing : t < c.before})
Resumes(c) == c.before # 0 /\ ~ c.done

\* Bitcoin and Solana always fetch the latest page and, until the first
\* transaction is reached, a page before the cursor as well; Dogecoin fetches
\* one of the two.
Fetched(c) ==
  CASE ~ Resumes(c) -> Page(Existing)
    [] Resumes(c) /\ network = "dogecoin" -> Older(c)
    [] OTHER -> Page(Existing) \cup Older(c)

\* The page the walk back goes on from.
BackfillPage(c) == IF Resumes(c) THEN Older(c) ELSE Page(Existing)

\* Mutant: one page is taken for the whole history.
NoMore(c) == FALSE

\* hasMore of BlockCypher; a full page for the others.
More(c) ==
  LET p == BackfillPage(c)
  IN IF network = "dogecoin"
     THEN p # {} /\ \E t \in Existing : t < Min(p)
     ELSE Cardinality(p) >= PageSize

NextCursor(c) ==
  LET p == BackfillPage(c)
  IN [before |-> IF p # {} THEN Min(p)
                 ELSE IF network = "dogecoin" THEN 0 ELSE c.before,
      done |-> ~ More(c) \/ (network # "dogecoin" /\ c.done)]

-----------------------------------------------------------------------------
(* The handler                                                              *)

\* The worker claims the job; the handler reads the address and its cursor.
Begin ==
  /\ job = "waiting"
  /\ job' = "running" /\ pc' = "begun"
  /\ got' = [Nothing EXCEPT !.cursor = cursor]
  /\ UNCHANGED <<chain, stored, replaced, trouble, overtaken, walk>>

ReadSelections ==
  /\ pc = "begun"
  /\ pc' = "chosen"
  /\ got' = [got EXCEPT !.selected = selected]
  /\ UNCHANGED <<chain, stored, job, replaced, trouble, overtaken, walk>>

Fetch ==
  /\ pc = "chosen"
  /\ pc' = "fetched"
  /\ got' = [got EXCEPT
       !.page = Fetched(got.cursor),
       !.settled = Fetched(got.cursor) \ unsettled,
       !.next = NextCursor(got.cursor),
       !.walk = IF Resumes(got.cursor) THEN walk ELSE Existing \ unsettled]
  /\ UNCHANGED <<chain, stored, job, replaced, trouble, overtaken, walk>>

\* Mutant: the query for pending transactions lacks its confirmation_state.
StaleAll == IF network = "solana" THEN {} ELSE Recorded \ got.page

\* A pending transaction of a UTXO network that is not on the page is dropped
\* with its events.
Stale == IF network = "solana" THEN {} ELSE Pending \ got.page

Write ==
  /\ pc = "fetched"
  /\ pc' = "written"
  /\ recorded' = [t \in Tx |->
       IF t \in got.settled THEN "finalized"
       ELSE IF t \in got.page THEN "pending"
       ELSE IF t \in Stale THEN "no" ELSE recorded[t]]
  /\ imported' = [t \in Tx |->
       IF t \in got.page THEN imported[t] \cup got.selected \cup {Native}
       ELSE IF t \in Stale THEN {} ELSE imported[t]]
  /\ cursor' = got.next
  /\ walk' = got.walk
  /\ UNCHANGED <<chain, selected, job, got, replaced, trouble, overtaken>>

\* The job completes; a partial history with a cursor that moved continues.
Continues == ~ got.next.done /\ got.next # got.cursor

Complete ==
  /\ pc = "written"
  /\ job' = IF Continues THEN "waiting" ELSE "none"
  /\ pc' = "idle" /\ got' = Nothing
  /\ UNCHANGED <<chain, stored, replaced, trouble, overtaken, walk>>

\* The fetch fails or the process ends: the job goes back to the queue, and
\* what was not written is lost.
Interrupt ==
  /\ job = "running" /\ trouble < MaxTrouble
  /\ trouble' = trouble + 1
  /\ job' = "waiting"
  /\ pc' = "idle" /\ got' = Nothing
  /\ UNCHANGED <<chain, stored, replaced, overtaken, walk>>

\* The process ends between the completion and its continuation.
LoseContinuation ==
  /\ pc = "written" /\ trouble < MaxTrouble
  /\ trouble' = trouble + 1
  /\ job' = "none"
  /\ pc' = "idle" /\ got' = Nothing
  /\ UNCHANGED <<chain, stored, replaced, overtaken, walk>>

-----------------------------------------------------------------------------
(* replaceAssets() and queueRefresh()                                       *)

\* Mutant: the cursor is not reset with the selection.
ReplaceOnly(S) ==
  /\ replaced < MaxReplace
  /\ network # "solana" => S = {}
  /\ replaced' = replaced + 1
  /\ selected' = S
  /\ overtaken' = (pc \in {"begun", "chosen", "fetched"})
  /\ UNCHANGED <<chain, cursor, recorded, imported, job, pc, got, trouble, walk>>

\* The transaction of replaceAssets: the selection, and the cursor back to
\* the start.  The refresh that follows is a step of its own.
Replace(S) ==
  /\ replaced < MaxReplace
  /\ network # "solana" => S = {}
  /\ replaced' = replaced + 1
  /\ selected' = S
  /\ cursor' = NoCursor
  /\ overtaken' = (pc \in {"begun", "chosen", "fetched"})
  /\ UNCHANGED <<chain, recorded, imported, job, pc, got, trouble, walk>>

\* After a replacement, on request or on schedule; coalesces with an open job.
QueueRefresh ==
  /\ job = "none"
  /\ job' = "waiting"
  /\ UNCHANGED <<chain, stored, pc, got, replaced, trouble, overtaken, walk>>

Next ==
  \/ Arrive
  \/ \E t \in Tx : Settle(t) \/ Disappear(t)
  \/ Begin \/ ReadSelections \/ Fetch \/ Write \/ Complete
  \/ Interrupt \/ LoseContinuation
  \/ \E S \in SUBSET Token : Replace(S)
  \/ QueueRefresh

Spec == Init /\ [][Next]_vars

\* The worker works, and the scheduler refreshes every enabled address.
Fairness ==
  /\ WF_vars(QueueRefresh) /\ WF_vars(Begin)
  /\ WF_vars(ReadSelections \/ Fetch \/ Write \/ Complete)

FairSpec == Spec /\ Fairness

-----------------------------------------------------------------------------
(* Properties                                                               *)

\* The assets whose history is wanted.
Wanted == selected \cup {Native}

\* A history reported complete has every transaction that was settled when the
\* walk back began, with the events of every selected asset: over retries,
\* lost continuations, restarts, new and vanishing transactions and new
\* selections, except one made while a sync works on the selection before.
CompleteHistory ==
  cursor.done /\ ~ overtaken => \A t \in walk : Wanted \subseteq imported[t]

\* Evidence stays: what was recorded as final keeps its events.
FinalityKept ==
  [][\A t \in Tx : recorded[t] = "finalized" =>
       recorded'[t] = "finalized" /\ imported[t] \subseteq imported'[t]]_vars

\* What the provider has and has settled gets imported in the end, and stays.
AllArrives ==
  <>[](overtaken \/ \A t \in Existing \ unsettled : Wanted \subseteq imported[t])
=============================================================================
