------------------------------- MODULE Portfolio -------------------------------
(***************************************************************************)
(* What the portfolio counts (api/src/services/portfolio.ts, addresses.ts, *)
(* chart-values.ts, domain/addresses.ts).                                  *)
(*                                                                         *)
(* One Ethereum address may be tracked by several entries, each for some   *)
(* of its assets.  A sync imports the events of the assets that were       *)
(* selected when it began, and observes their balances where a node can be *)
(* asked.  The portfolio adds up the newest observation of every selected  *)
(* asset, else its events if the history is complete, else it counts the   *)
(* balance as incomplete.  A snapshot of the portfolio keeps quantities and*)
(* their value in the primary currency.                                    *)
(*                                                                         *)
(* Values are sets here: those of the assets they include.  The history of *)
(* an asset comes in one piece or not at all (AddressSync has its pages),  *)
(* and the account at Kraken, which is added alike, is KrakenAccount's.    *)
(***************************************************************************)
EXTENDS Assets, Integers, FiniteSets, Functions

CONSTANTS
  Entry,     \* the entries there may be of the address
  MaxHeld,   \* bound: of an asset
  MaxMoves,  \* bound: changes of the address, and of the prices
  MaxEdits,  \* bound: requests that add, change or delete an entry
  MaxSyncs,  \* bound: syncs under way at a time
  MaxUnseen  \* bound: balances that cannot be observed

Asset == Token \cup {Native}
Pair == Entry \X Asset
Unknown == -1

ASSUME PortfolioAssumptions ==
  /\ IsFiniteSet(Entry)
  /\ MaxHeld \in Nat \ {0} /\ MaxMoves \in Nat /\ MaxEdits \in Nat /\ MaxUnseen \in Nat

VARIABLES
  held,      \* what the address holds
  provider,  \* what there is to ask: "history", "balances" or "both"
  entry,     \* tracked_addresses: "none", "on" or "off"
  selection,  \* address_asset_selections that are enabled
  status,    \* address_sync_state.status
  events,    \* address_balance_events: their sum, or Unknown
  observed,  \* address_balance_points: the newest observation, or Unknown
  sync,      \* the address.sync job of an entry, and what it has read
  priced,    \* the assets with a recent price in the primary currency
  capture,   \* the selections a capture under way has read
  shot,      \* the newest portfolio snapshot
  behind,    \* history: pairs that changed, or were not seen, since they were last known
  outrun, \* history: entries whose selections changed under a sync, and no sync has read since
  stirred,   \* history: was anything stored since the capture began?
  moves, edits, unseen \* counts for the bounds

outside == <<held, provider, priced>>
tracked == <<entry, selection, status, events, observed>>
history == <<behind, outrun, stirred>>
bounds == <<moves, edits, unseen>>
portfolioVars == <<outside, tracked, sync, capture, shot, history, bounds>>

NoSync == [at |-> "none", selected |-> {}, page |-> [a \in Asset |-> 0]]
NoCapture == [on |-> FALSE, pairs |-> {}, whole |-> {}]
NoShot == [quantity |-> [a \in Asset |-> 0], incomplete |-> 0,
           value |-> {}, whole |-> TRUE]

PortfolioTypeOK ==
  /\ held \in [Asset -> 0 .. MaxHeld]
  /\ provider \in {"history", "balances", "both"}
  /\ entry \in [Entry -> {"none", "on", "off"}] /\ selection \in [Entry -> SUBSET Asset]
  /\ status \in [Entry -> {"none", "syncing", "partial", "complete"}]
  /\ events \in [Entry -> [Asset -> 0 .. MaxHeld \cup {Unknown}]]
  /\ observed \in [Entry -> [Asset -> 0 .. MaxHeld \cup {Unknown}]]
  /\ sync \in [Entry -> [at : {"none", "queued", "begun", "fetched"}, selected : SUBSET Asset,
                         page : [Asset -> 0 .. MaxHeld]]]
  /\ priced \subseteq Asset
  /\ capture \in [on : BOOLEAN, pairs : SUBSET Pair, whole : SUBSET Entry]
  /\ shot \in [quantity : [Asset -> Nat], incomplete : Nat,
               value : SUBSET Asset, whole : BOOLEAN]
  /\ behind \subseteq Pair /\ outrun \subseteq Entry /\ stirred \in BOOLEAN
  /\ moves \in 0 .. MaxMoves /\ edits \in 0 .. MaxEdits /\ unseen \in 0 .. MaxUnseen

PortfolioInit ==
  /\ held = [a \in Asset |-> 1]
  /\ provider \in {"history", "balances", "both"}
  /\ entry = [e \in Entry |-> "none"] /\ selection = [e \in Entry |-> {}]
  /\ status = [e \in Entry |-> "none"]
  /\ events = [e \in Entry |-> [a \in Asset |-> Unknown]] /\ observed = events
  /\ sync = [e \in Entry |-> NoSync]
  /\ priced = Asset
  /\ capture = NoCapture /\ shot = NoShot
  /\ behind = {} /\ outrun = {} /\ stirred = FALSE
  /\ moves = 0 /\ edits = 0 /\ unseen = 0

(***************************************************************************)
(* The address, the account and the prices.                                *)
(***************************************************************************)
Moves == moves < MaxMoves /\ moves' = moves + 1

AddressMoves(a) ==
  /\ Moves
  /\ \E q \in 0 .. MaxHeld \ {held[a]} : held' = [held EXCEPT ![a] = q]
  /\ behind' = behind \cup (Entry \X {a})
  /\ UNCHANGED <<provider, priced, tracked, sync, capture, shot,
                 outrun, stirred, edits, unseen>>

PriceChanges(a) ==
  /\ Moves
  /\ priced' = IF a \in priced THEN priced \ {a} ELSE priced \cup {a}
  /\ UNCHANGED <<held, provider, tracked, sync, capture, shot, history, edits, unseen>>

(***************************************************************************)
(* The entries.                                                            *)
(***************************************************************************)
\* Mutant: an entry that is switched off is in nobody's way.
ConflictsOfEnabled(e, assets) == {f \in Entry \ {e} : entry[f] = "on" /\ selection[f] \cap assets # {}}

\* Enabled selections of the other entries, whether those are on or off.
Conflicts(e, assets) == {f \in Entry \ {e} : entry[f] # "none" /\ selection[f] \cap assets # {}}

\* An entry for the native asset alone takes it from entries that have others.
CanSplit(conflicts, assets) ==
  assets = {Native} /\ \A f \in conflicts : selection[f] \ {Native} # {}

\* queueRefresh: a job that is queued or running is left to do it.
Queue(e) == IF sync[e].at = "none" THEN [sync EXCEPT ![e].at = "queued"] ELSE sync

\* Whose selections change under their sync.
Outrun(changed) == outrun \cup {f \in changed : sync[f].at \in {"begun", "fetched"}}

Edits == edits < MaxEdits /\ edits' = edits + 1

Add(e, assets) ==
  LET conflicts == Conflicts(e, assets)
  IN /\ entry[e] = "none" /\ sync[e].at = "none" /\ assets # {} /\ Edits
     /\ conflicts # {} => CanSplit(conflicts, assets)
     /\ entry' = [entry EXCEPT ![e] = "on"]
     /\ selection' = [f \in Entry |-> IF f = e THEN assets
                                     ELSE IF f \in conflicts THEN selection[f] \ {Native}
                                     ELSE selection[f]]
     /\ status' = [status EXCEPT ![e] = "syncing"]
     /\ sync' = Queue(e)
     /\ outrun' = Outrun(conflicts)
     /\ stirred' = TRUE
     /\ UNCHANGED <<outside, events, observed, capture, shot, behind, moves, unseen>>

ReplaceAssets(e, assets) ==
  /\ entry[e] # "none" /\ assets # {} /\ Edits
  /\ Conflicts(e, assets) = {}
  /\ selection' = [selection EXCEPT ![e] = assets]
  /\ status' = [status EXCEPT ![e] = "syncing"]
  /\ sync' = Queue(e)
  /\ outrun' = Outrun({e})
  /\ stirred' = TRUE
  /\ UNCHANGED <<outside, entry, events, observed, capture, shot, behind, moves, unseen>>

Patch(e) ==
  /\ entry[e] # "none"
  /\ entry' = [entry EXCEPT ![e] = IF @ = "on" THEN "off" ELSE "on"]
  /\ stirred' = TRUE
  /\ UNCHANGED <<outside, selection, status, events, observed, sync, capture, shot,
                 behind, outrun, bounds>>

\* All that belongs to the entry goes with it; a queued job is cancelled.
Delete(e) ==
  /\ entry[e] # "none" /\ Edits
  /\ entry' = [entry EXCEPT ![e] = "none"] /\ selection' = [selection EXCEPT ![e] = {}]
  /\ status' = [status EXCEPT ![e] = "none"]
  /\ events' = [events EXCEPT ![e] = [a \in Asset |-> Unknown]]
  /\ observed' = [observed EXCEPT ![e] = [a \in Asset |-> Unknown]]
  /\ sync' = IF sync[e].at = "queued" THEN [sync EXCEPT ![e] = NoSync] ELSE sync
  /\ behind' = behind \ ({e} \X Asset) /\ outrun' = outrun \ {e}
  /\ stirred' = TRUE
  /\ UNCHANGED <<outside, capture, shot, moves, unseen>>

(***************************************************************************)
(* The syncs.                                                              *)
(***************************************************************************)
\* The scheduler queues the entries that are on.
Schedule(e) ==
  /\ entry[e] = "on" /\ sync[e].at = "none"
  /\ sync' = Queue(e)
  /\ UNCHANGED <<outside, tracked, capture, shot, history, bounds>>

SyncBegins(e) ==
  /\ sync[e].at = "queued"
  /\ Cardinality({f \in Entry : sync[f].at \in {"begun", "fetched"}}) < MaxSyncs
  /\ sync' = [sync EXCEPT ![e] = [NoSync EXCEPT !.at = "begun", !.selected = selection[e]]]
  /\ UNCHANGED <<outside, tracked, capture, shot, history, bounds>>

SyncFetches(e) ==
  /\ sync[e].at = "begun"
  /\ sync' = [sync EXCEPT ![e].at = "fetched", ![e].page = held]
  /\ UNCHANGED <<outside, tracked, capture, shot, history, bounds>>

\* Any failing query but one for the balance of a token ends the attempt.
SyncFails(e) ==
  /\ sync[e].at = "begun"
  /\ sync' = [sync EXCEPT ![e] = [NoSync EXCEPT !.at = "queued"]]
  /\ UNCHANGED <<outside, tracked, capture, shot, history, bounds>>

\* A token whose balance cannot be observed keeps the observation it has.
SyncWrites(e) ==
  LET read == sync[e].selected
      page == sync[e].page
  IN /\ sync[e].at = "fetched"
     /\ sync' = [sync EXCEPT ![e] = NoSync]
     /\ outrun' = IF selection[e] \subseteq read THEN outrun \ {e} ELSE outrun
     /\ \E missed \in SUBSET (IF provider = "history" THEN {} ELSE read \ {Native}) :
          /\ unseen + Cardinality(missed) <= MaxUnseen
          /\ unseen' = unseen + Cardinality(missed)
          /\ IF entry[e] = "none"
               THEN UNCHANGED <<tracked, behind, stirred>>
               ELSE /\ events' = IF provider = "balances" THEN events
                                 ELSE [events EXCEPT ![e] =
                                         [a \in Asset |-> IF a \in read THEN page[a] ELSE @[a]]]
                    /\ observed' = IF provider = "history" THEN observed
                                   ELSE [observed EXCEPT ![e] =
                                           [a \in Asset |-> IF a \in read \ missed
                                                              THEN page[a] ELSE @[a]]]
                    /\ status' = [status EXCEPT ![e] =
                                    IF provider = "balances" THEN "partial" ELSE "complete"]
                    /\ behind' = (behind \ ({e} \X (read \ missed)))
                                 \cup {<<e, a>> : a \in missed \cup {b \in read : page[b] # held[b]}}
                    /\ stirred' = TRUE
                    /\ UNCHANGED <<entry, selection>>
     /\ UNCHANGED <<outside, capture, shot, moves, edits>>

(***************************************************************************)
(* The portfolio.                                                          *)
(***************************************************************************)
Enabled == {p \in Pair : entry[p[1]] = "on" /\ p[2] \in selection[p[1]]}

\* currentQuantities of one selection.  What is read of balances is limited to
\* the selections that are enabled when the balances are read.
Balance(p, whole) ==
  LET e == p[1]  a == p[2]
      known(q) == IF p \in Enabled THEN q ELSE Unknown
  IN IF known(observed[e][a]) # Unknown THEN observed[e][a]
     ELSE IF e \notin whole THEN Unknown
     ELSE IF known(events[e][a]) # Unknown THEN events[e][a] ELSE 0

QuantityOf(a, pairs, whole) ==
  SumFunction([p \in {q \in pairs : q[2] = a /\ Balance(q, whole) # Unknown}
                 |-> Balance(p, whole)])

\* The pages of the addresses read the same rows by rules of their own: their
\* table takes what there is of events, and their graph adds them up anew.
\* Mutant: what events say goes before what a node says.
HoldingEventsFirst(p) ==
  LET e == p[1]  a == p[2]
  IN IF events[e][a] # Unknown THEN events[e][a]
     ELSE IF observed[e][a] # Unknown THEN observed[e][a]
     ELSE IF status[e] = "complete" THEN 0 ELSE Unknown

Holding(p) ==
  LET e == p[1]  a == p[2]
  IN IF observed[e][a] # Unknown THEN observed[e][a]
     ELSE IF events[e][a] # Unknown THEN events[e][a]
     ELSE IF status[e] = "complete" THEN 0 ELSE Unknown

\* The last point of an entry's graph.
Reconstructed(e, a) == IF events[e][a] # Unknown THEN events[e][a] ELSE 0

LastPoint(p) ==
  LET e == p[1]  a == p[2]
      complete == IF status[e] = "complete" THEN Reconstructed(e, a) ELSE Unknown
  IN IF observed[e][a] # Unknown THEN observed[e][a] ELSE complete

Combined(a) ==
  SumFunction([p \in {q \in Enabled : q[2] = a /\ LastPoint(q) # Unknown} |-> LastPoint(p)])

NonZero(quantity) == {a \in Asset : quantity[a] # 0}

\* valueQuantitiesAt: what has no price is not in the value.
Valued(quantity) == NonZero(quantity) \cap priced

CaptureBegins ==
  /\ ~capture.on
  /\ capture' = [on |-> TRUE, pairs |-> Enabled,
                 whole |-> {e \in Entry : status[e] = "complete"}]
  /\ stirred' = FALSE
  /\ UNCHANGED <<outside, tracked, sync, shot, behind, outrun, bounds>>

\* Mutant: the balances nobody knows are left out without a word.
CaptureSilently ==
  LET quantity == [a \in Asset |-> QuantityOf(a, capture.pairs, capture.whole)]
  IN /\ capture.on
     /\ capture' = NoCapture
     /\ shot' = [quantity |-> quantity, incomplete |-> 0,
                 value |-> Valued(quantity),
                 whole |-> NonZero(quantity) \subseteq priced]
     /\ UNCHANGED <<outside, tracked, sync, history, bounds>>

CaptureEnds ==
  LET quantity == [a \in Asset |-> QuantityOf(a, capture.pairs, capture.whole)]
      incomplete == Cardinality({p \in capture.pairs : Balance(p, capture.whole) = Unknown})
  IN /\ capture.on
     /\ capture' = NoCapture
     /\ shot' = [quantity |-> quantity, incomplete |-> incomplete,
                 value |-> Valued(quantity),
                 whole |-> incomplete = 0 /\ NonZero(quantity) \subseteq priced]
     /\ UNCHANGED <<outside, tracked, sync, history, bounds>>

PortfolioNext ==
  \/ \E a \in Asset : AddressMoves(a) \/ PriceChanges(a)
  \/ \E e \in Entry, assets \in SUBSET Asset : Add(e, assets) \/ ReplaceAssets(e, assets)
  \/ \E e \in Entry : Patch(e) \/ Delete(e) \/ Schedule(e)
  \/ \E e \in Entry : SyncBegins(e) \/ SyncFetches(e) \/ SyncFails(e) \/ SyncWrites(e)
  \/ CaptureBegins \/ CaptureEnds

PortfolioSpec == PortfolioInit /\ [][PortfolioNext]_portfolioVars

(***************************************************************************)
(* The graph of the portfolio: a snapshot is valued again with the prices  *)
(* of today when all it holds has one, else it shows what was stored; the  *)
(* whole response is marked partial by what the capture knew.              *)
(***************************************************************************)
\* Mutant: valued again with whatever prices there are.
ShownAgain == Valued(shot.quantity)

Shown ==
  IF NonZero(shot.quantity) \subseteq priced /\ shot.incomplete = 0
    THEN Valued(shot.quantity)
    ELSE shot.value

Partial == ~shot.whole \/ shot.incomplete > 0

(***************************************************************************)
(* No asset of the address is tracked by two entries, so that it is not    *)
(* counted twice, and no entry is left without an asset, however entries   *)
(* are added, split, replaced, switched off and on, and deleted.           *)
(***************************************************************************)
TrackedOnce ==
  /\ \A e, f \in Entry : e # f => selection[e] \cap selection[f] = {}
  /\ \A e \in Entry : entry[e] # "none" => selection[e] # {}

(***************************************************************************)
(* The pages agree: what the portfolio would count of an asset now is the  *)
(* sum that ends the graph of the addresses, and what it knows of an entry *)
(* is what their table shows, whichever of observation and history there   *)
(* is and however old it is.                                               *)
(***************************************************************************)
PagesAgree ==
  LET whole == {e \in Entry : status[e] = "complete"}
  IN /\ \A a \in Asset : Combined(a) = QuantityOf(a, Enabled, whole)
     /\ \A p \in Enabled : Balance(p, whole) \in {Unknown, Holding(p)}

(***************************************************************************)
(* A snapshot that claims to be complete has counted every selected asset, *)
(* and at what the address holds: unknown balances are not taken for zero. *)
(* Left aside are what changed or could not be observed since the last     *)
(* sync, an entry whose selections changed during its sync, and what is    *)
(* stored between the capture's reads.                                     *)
(***************************************************************************)
SnapshotTrue ==
  [][(capture.on /\ ~capture'.on /\ shot'.incomplete = 0 /\ ~stirred
        /\ Enabled \cap behind = {} /\ \A p \in Enabled : p[1] \notin outrun)
       => \A a \in Asset :
            shot'.quantity[a] = Cardinality({p \in Enabled : p[2] = a}) * held[a]]_portfolioVars

(***************************************************************************)
(* A point of the graph shows the value of all that its snapshot holds,    *)
(* whatever became of the prices since, or the graph is marked partial.    *)
(***************************************************************************)
WholeOrMarked == Partial \/ Shown = NonZero(shot.quantity)

\* What the pages owe: PagesAgree and WholeOrMarked.
ShownTrue == PagesAgree /\ WholeOrMarked

=============================================================================
