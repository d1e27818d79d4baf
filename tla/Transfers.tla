------------------------------- MODULE Transfers -------------------------------
(***************************************************************************)
(* Which deposits and withdrawals at Kraken are transfers between the      *)
(* owner's own places (api/src/services/transfers.ts,                      *)
(* api/src/domain/reconciliation.ts).                                      *)
(*                                                                         *)
(* Syncs of the account and of the addresses store movements and then ask  *)
(* for a reconciliation, at most once a minute of each kind.  It reads     *)
(* both sides, one after the other, and then replaces all matches.  The    *)
(* job queue is JobQueue's: here a job that is asked for runs, alone of    *)
(* its resource, and runs again after a crash.                             *)
(***************************************************************************)
EXTENDS Integers, FiniteSets

CONSTANTS
  Ledger,    \* kraken_ledgers: [id, at, asset, type, quantity, fee, tx]
  Event,     \* address_balance_events: [id, at, asset, out, quantity, fee, tx, final]
  Window,    \* windowMs: how far apart the two sides of a transfer may be
  Tolerance, \* amounts differ by at most one part in this many
  MaxMishaps \* bound: crashes, removed events and deletions

ASSUME TransfersAssumptions ==
  /\ Window \in Nat /\ Tolerance \in Nat \ {0} /\ MaxMishaps \in Nat
  /\ \A row \in Ledger \cup Event : row.at \in Int /\ row.id \in Int \* ids by their order

NoFee == -1 \* a fee that is null
Source == {"kraken", "address"} \* of a request to reconcile

VARIABLES
  ledgers,   \* what has been imported from Kraken
  chain,     \* what has been imported of the addresses
  owing,     \* syncs that have stored something and will ask for a reconciliation
  keys,      \* the kinds of request already made in this minute
  queued,    \* transfers.reconcile jobs that wait
  reconcile, \* the one that runs, and what it has read
  matches,   \* internal_transfer_matches
  unread,    \* history: the sides that changed since a reconciliation last read them
  mishaps    \* count for the bound

transfersVars == <<ledgers, chain, owing, keys, queued, reconcile, matches, unread, mishaps>>

Idle == [at |-> "idle", source |-> "", ledgers |-> {}, events |-> {}, found |-> {}]

TransfersInit ==
  /\ ledgers = {} /\ chain = {} /\ owing = {} /\ keys = {} /\ queued = {}
  /\ reconcile = Idle /\ matches = {} /\ unread = {} /\ mishaps = 0

-----------------------------------------------------------------------------
(* What the syncs store, and what becomes of it. *)

\* A page of the account's history.
ImportLedger ==
  /\ \E l \in Ledger \ ledgers : ledgers' = ledgers \cup {l}
  /\ owing' = owing \cup {"kraken"} /\ unread' = unread \cup {"ledgers"}
  /\ UNCHANGED <<chain, keys, queued, reconcile, matches, mishaps>>

\* A sync of an address stores what it found.
ImportEvent ==
  /\ \E e \in Event \ chain : chain' = chain \cup {e}
  /\ owing' = owing \cup {"address"} /\ unread' = unread \cup {"chain"}
  /\ UNCHANGED <<ledgers, keys, queued, reconcile, matches, mishaps>>

\* ... and takes back a transaction that was pending and is no longer there.
DropPending ==
  /\ mishaps < MaxMishaps /\ mishaps' = mishaps + 1
  /\ \E e \in {f \in chain : ~ f.final} :
       chain' = chain \ {e} /\ matches' = {m \in matches : m.event # e}
  /\ owing' = owing \cup {"address"} /\ unread' = unread \cup {"chain"}
  /\ UNCHANGED <<ledgers, keys, queued, reconcile>>

\* An entry is deleted, its events with it, and nothing is asked for.  The matches
\* have no reference that would take them along.
DeleteAddress ==
  /\ mishaps < MaxMishaps /\ mishaps' = mishaps + 1
  /\ chain # {} /\ chain' = {} /\ unread' = unread \cup {"chain"}
  /\ UNCHANGED <<ledgers, owing, keys, queued, reconcile, matches>>

\* A sync that stored nothing new asks as well.
Resync(s) ==
  /\ owing' = owing \cup {s}
  /\ UNCHANGED <<ledgers, chain, keys, queued, reconcile, matches, unread, mishaps>>

\* At the end of the sync.  A second request of a minute is the first one's job,
\* be it finished.
AskReconcile(s) ==
  /\ s \in owing /\ owing' = owing \ {s}
  /\ IF s \in keys
     THEN UNCHANGED <<keys, queued>>
     ELSE keys' = keys \cup {s} /\ queued' = queued \cup {s}
  /\ UNCHANGED <<ledgers, chain, reconcile, matches, unread, mishaps>>

\* Mutant: the key of a request names no minute.
NoMinutes ==
  UNCHANGED <<ledgers, chain, owing, keys, queued, reconcile, matches, unread, mishaps>>

NextMinute ==
  /\ keys' = {}
  /\ UNCHANGED <<ledgers, chain, owing, queued, reconcile, matches, unread, mishaps>>

-----------------------------------------------------------------------------
(* A reconciliation. *)

Moved == {l \in ledgers : l.type \in {"deposit", "withdrawal"}}

ReadLedgers ==
  /\ reconcile.at = "idle"
  /\ \E s \in queued :
       /\ queued' = queued \ {s}
       /\ reconcile' = [Idle EXCEPT !.at = "ledgers", !.source = s, !.ledgers = Moved]
  /\ unread' = unread \ {"ledgers"}
  /\ UNCHANGED <<ledgers, chain, owing, keys, matches, mishaps>>

ReadEvents ==
  /\ reconcile.at = "ledgers"
  /\ reconcile' = [reconcile EXCEPT !.at = "read", !.events = chain]
  /\ unread' = unread \ {"chain"}
  /\ UNCHANGED <<ledgers, chain, owing, keys, queued, matches, mishaps>>

Apart(x, y) == IF x > y THEN x - y ELSE y - x
Larger(x, y) == IF x > y THEN x ELSE y

\* Fees are taken off one side or the other.
ExactAfterFee(l, e) ==
  LET fee == IF l.fee # NoFee THEN l.fee ELSE IF e.fee # NoFee THEN e.fee ELSE 0
  IN l.quantity - fee = e.quantity \/ e.quantity - fee = l.quantity

Close(l, e) ==
  Tolerance * Apart(l.quantity, e.quantity) <= Larger(l.quantity, e.quantity)

Identified(l, e) == l.tx # "" /\ l.tx = e.tx

Confidence(l, e) ==
  IF l.asset # e.asset \/ (l.type = "deposit") # e.out THEN "unmatched"
  ELSE IF Identified(l, e)
       THEN IF ExactAfterFee(l, e) \/ Close(l, e) THEN "exact" ELSE "unmatched"
  ELSE IF Apart(l.at, e.at) > Window THEN "unmatched"
  ELSE IF ExactAfterFee(l, e) THEN "exact"
  ELSE IF Close(l, e) THEN "likely" ELSE "unmatched"

\* The best candidate: exact before likely, then the nearer in time.
Better(l, e, f) ==
  \/ Confidence(l, e) = "exact" /\ Confidence(l, f) = "likely"
  \/ /\ Confidence(l, e) = Confidence(l, f)
     /\ \/ Apart(l.at, e.at) < Apart(l.at, f.at)
        \/ Apart(l.at, e.at) = Apart(l.at, f.at) /\ (e.at < f.at \/ (e.at = f.at /\ e.id < f.id))

Sooner(l, m) == l.at < m.at \/ (l.at = m.at /\ l.id < m.id)

\* Mutant: an event is not used up by the ledger it was matched to.
FreeOfAll(l, events, found) == {e \in events : Confidence(l, e) # "unmatched"}

\* What is left for a ledger: the used events went to the ledgers before it.
Free(l, events, found) ==
  {e \in events : /\ Confidence(l, e) # "unmatched"
                  /\ \A m \in found : Sooner(m.ledger, l) => m.event # e}

Best(l, free) == {e \in free : \A f \in free \ {e} : Better(l, e, f)} \* one, if any
Match(l, e) == [ledger |-> l, event |-> e, confidence |-> Confidence(l, e)]

\* A turn of the loop over the ledgers, in the order of time.
MatchNext ==
  /\ reconcile.at = "read"
  /\ \E l \in reconcile.ledgers :
       LET best == Best(l, Free(l, reconcile.events, reconcile.found))
       IN /\ \A m \in reconcile.ledgers \ {l} : Sooner(l, m)
          /\ reconcile' = [reconcile EXCEPT !.ledgers = @ \ {l},
                                           !.found = @ \cup {Match(l, e) : e \in best}]
  /\ UNCHANGED <<ledgers, chain, owing, keys, queued, matches, unread, mishaps>>

\* Mutant: the old matches stay.
AddMatches ==
  /\ reconcile.at = "read" /\ reconcile.ledgers = {}
  /\ matches' = matches \cup reconcile.found
  /\ reconcile' = Idle
  /\ UNCHANGED <<ledgers, chain, owing, keys, queued, unread, mishaps>>

\* The transaction commits: the old matches are gone.
ReplaceMatches ==
  /\ reconcile.at = "read" /\ reconcile.ledgers = {}
  /\ matches' = reconcile.found
  /\ reconcile' = Idle
  /\ UNCHANGED <<ledgers, chain, owing, keys, queued, unread, mishaps>>

\* The job that ran is put back.
Crash ==
  /\ mishaps < MaxMishaps /\ mishaps' = mishaps + 1
  /\ reconcile.at # "idle" /\ reconcile' = Idle
  /\ queued' = queued \cup {reconcile.source}
  /\ unread' = {"ledgers", "chain"}
  /\ UNCHANGED <<ledgers, chain, owing, keys, matches>>

TransfersNext ==
  \/ ImportLedger \/ ImportEvent \/ DropPending \/ DeleteAddress
  \/ (\E s \in Source : Resync(s) \/ AskReconcile(s)) \/ NextMinute
  \/ ReadLedgers \/ ReadEvents \/ MatchNext \/ ReplaceMatches
  \/ Crash

TransfersSpec == TransfersInit /\ [][TransfersNext]_transfersVars

-----------------------------------------------------------------------------

\* Once a reconciliation has read both sides as they are, whichever sync,
\* deletion or crash came between its two reads and its write, each movement is
\* matched to the best of what the earlier ones leave (transfers.ts:38-147).
Matched(l) ==
  {m \in matches : m.ledger = l} = {Match(l, e) : e \in Best(l, Free(l, chain, matches))}

MatchesCurrent ==
  unread = {} /\ reconcile.at = "idle" =>
    /\ \A l \in Moved : Matched(l)
    /\ \A m \in matches : m.ledger \in Moved /\ m.event \in chain

\* No movement of an address explains two movements at Kraken, nor the other way
\* round (docs/spec.md:1691, "not treated as a gain, loss, reward, or duplicated
\* portfolio value").
MatchedOnce ==
  \A m, n \in matches : m.event = n.event \/ m.ledger = n.ledger => m = n

\* What the reconciliation owes: MatchesCurrent and MatchedOnce.
Reconciled == MatchesCurrent /\ MatchedOnce

\* Whatever was missed, raced or crashed, the next syncs put it right.
CatchesUp == []<>(unread = {} /\ reconcile.at = "idle")

=============================================================================
