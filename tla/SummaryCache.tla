---------------------------- MODULE SummaryCache ----------------------------
(***************************************************************************)
(* The cache of dashboard totals (api/src/services/summary-cache.ts), for  *)
(* one request (a scope and its currencies) and several API processes that *)
(* share a Redis.                                                          *)
(*                                                                         *)
(* A total is calculated from the synchronized data, here a version that   *)
(* each change raises, under a selection (settings, addresses), another    *)
(* version.  A change of data is announced by a new generation: entries    *)
(* bearing an older one are served and recalculated.  A change of the      *)
(* selection rotates the epoch: entries of an older one are under a key    *)
(* that nobody asks for any more.  A process shares its fills of a key in  *)
(* a map, processes share them by a lock that expires.                     *)
(***************************************************************************)
EXTENDS Integers, FiniteSets

CONSTANTS
  Process,       \* API processes
  Client,        \* requests for the total under way at a time
  MaxSource,     \* bound: versions of the data
  MaxSelection,  \* bound: changes of the selection
  MaxTrouble,    \* bound: failures, locks outlived, minutes gone by
  Nobody         \* no lock

ASSUME Assumptions ==
  /\ MaxSource \in Nat \ {0} /\ MaxSelection \in Nat /\ MaxTrouble \in Nat
  /\ Nobody \notin Process

VARIABLES
  source,      \* the version of the synchronized data
  selection,   \* the version of the selection
  changing,    \* the selection is changed, invalidate() not done yet
  epoch,       \* Redis epoch:scope
  generation,  \* Redis generation:scope
  announced,   \* the version of the data that generation was set for
  entry,       \* Redis result, by epoch
  lock,        \* Redis result:lock, by epoch
  requests,    \* Redis requests, the epochs registered
  fill,        \* SummaryCacheService.fills, by process and key
  ask,         \* getOrLoad() calls
  refresh,     \* refreshAffected() calls, by the version they announce
  trouble      \* count for the bound

database == <<source, selection, changing>>
versions == <<epoch, generation, announced>>
redis == <<versions, entry, lock, requests>>
calls == <<fill, ask, refresh>>
vars == <<database, redis, calls, trouble>>

Fallback == MaxSelection + 1    \* the key of a request without Redis
Epoch == 0 .. MaxSelection
Key == Epoch \cup {Fallback}
Change == 2 .. MaxSource

Nothing == [source |-> 0, selection |-> 0]
NoEntry == [data |-> Nothing, generation |-> 0, aged |-> TRUE]
NoFill == [pc |-> "none", locked |-> FALSE, generation |-> 0, data |-> Nothing]
NoAsk == [pc |-> "idle", process |-> Nobody, key |-> 0, floor |-> 0, data |-> Nothing]
NoRefresh == [pc |-> "none", process |-> Nobody, todo |-> {}, key |-> 0]

Data == [source : 0 .. MaxSource, selection : Epoch]

TypeOK ==
  /\ source \in 1 .. MaxSource /\ selection \in Epoch /\ changing \in BOOLEAN
  /\ epoch \in Epoch /\ generation \in Nat /\ announced \in 1 .. source
  /\ entry \in [Epoch -> [data : Data, generation : 0 .. generation, aged : BOOLEAN]]
  /\ lock \in [Epoch -> Process \cup {Nobody}]
  /\ requests \subseteq Epoch
  /\ fill \in [Process -> [Key ->
       [pc : {"none", "lock", "generation", "current", "load", "store", "release"},
        locked : BOOLEAN, generation : 0 .. generation, data : Data]]]
  /\ ask \in [Client ->
       [pc : {"idle", "look", "wait", "done"}, process : Process \cup {Nobody},
        key : Key, floor : Epoch, data : Data]]
  /\ refresh \in [Change ->
       [pc : {"none", "announce", "list", "next", "await", "wait", "done"},
        process : Process \cup {Nobody}, todo : SUBSET Epoch, key : Epoch]]
  /\ trouble \in 0 .. MaxTrouble

Init ==
  /\ source = 1 /\ selection = 0 /\ changing = FALSE
  /\ epoch = 0 /\ generation = 0 /\ announced = 1
  /\ entry = [k \in Epoch |-> NoEntry]
  /\ lock = [k \in Epoch |-> Nobody]
  /\ requests = {}
  /\ fill = [p \in Process |-> [k \in Key |-> NoFill]]
  /\ ask = [c \in Client |-> NoAsk]
  /\ refresh = [n \in Change |-> NoRefresh]
  /\ trouble = 0

Trouble == trouble < MaxTrouble /\ trouble' = trouble + 1

-----------------------------------------------------------------------------
(* Entries and fills                                                        *)

Hit(d) == d # Nothing

Fresh(e, g) == Hit(e.data) /\ e.generation = g /\ ~ e.aged

\* fill(): joins the fill under way, or starts one.
Started(f) == IF f.pc = "none" THEN [NoFill EXCEPT !.pc = "lock"] ELSE f

\* Without Redis there is nothing to lock and nothing to look up.
StartedWithout(f) == IF f.pc = "none" THEN [NoFill EXCEPT !.pc = "load"] ELSE f

Awaits(n, p, k) == refresh[n].pc = "await" /\ refresh[n].process = p /\ refresh[n].key = k
WaitsRefresh(n, p, k) == refresh[n].pc = "wait" /\ refresh[n].process = p /\ refresh[n].key = k
Waits(c, p, k) == ask[c].pc = "wait" /\ ask[c].process = p /\ ask[c].key = k

\* The fill of k in p comes to its end, with the data d, or an error (Nothing).
\* A refresh that let it finish starts the fill that it came for.
Settle(p, k, d) ==
  /\ fill' = [fill EXCEPT ![p][k] =
       IF \E n \in Change : Awaits(n, p, k) THEN Started(NoFill) ELSE NoFill]
  /\ ask' = [c \in Client |->
       IF Waits(c, p, k) THEN [ask[c] EXCEPT !.pc = "done", !.data = d] ELSE ask[c]]
  /\ refresh' = [n \in Change |->
       IF Awaits(n, p, k) THEN [refresh[n] EXCEPT !.pc = "wait"]
       ELSE IF WaitsRefresh(n, p, k) THEN [refresh[n] EXCEPT !.pc = "next"]
       ELSE refresh[n]]

-----------------------------------------------------------------------------
(* getOrLoad                                                                *)

\* The selection that a request must respect: the last one whose change was
\* answered.
Answered == IF changing THEN selection - 1 ELSE selection

Ask(c, p) ==
  /\ ask[c].pc = "idle"
  /\ ask' = [ask EXCEPT ![c] =
       [pc |-> "look", process |-> p, key |-> epoch, floor |-> Answered, data |-> Nothing]]
  /\ UNCHANGED <<database, redis, fill, refresh, trouble>>

\* An entry that is there is returned, though it may have to be recalculated.
Look(c) ==
  LET p == ask[c].process
      k == ask[c].key
      e == entry[k]
  IN  /\ ask[c].pc = "look"
      /\ requests' = requests \cup {k}
      /\ ask' = [ask EXCEPT ![c].pc = IF Hit(e.data) THEN "done" ELSE "wait", ![c].data = e.data]
      /\ fill' = IF Fresh(e, generation) THEN fill ELSE [fill EXCEPT ![p][k] = Started(@)]
      /\ UNCHANGED <<database, versions, entry, lock, refresh, trouble>>

\* A command fails once the key is known: a fill of that key, without Redis.
LookFails(c) ==
  LET p == ask[c].process
      k == ask[c].key
  IN  /\ ask[c].pc = "look"
      /\ Trouble
      /\ ask' = [ask EXCEPT ![c].pc = "wait"]
      /\ fill' = [fill EXCEPT ![p][k] = StartedWithout(@)]
      /\ UNCHANGED <<database, redis, refresh>>

Leave(c) ==
  /\ ask[c].pc = "done"
  /\ ask' = [ask EXCEPT ![c] = NoAsk]
  /\ UNCHANGED <<database, redis, fill, refresh, trouble>>

-----------------------------------------------------------------------------
(* runFill                                                                  *)

At(p, k, pc) == fill[p][k].pc = pc

Moved(p, k, f) == fill' = [fill EXCEPT ![p][k] = f]

TakeLock(p, k) ==
  /\ At(p, k, "lock") /\ lock[k] = Nobody
  /\ lock' = [lock EXCEPT ![k] = p]
  /\ Moved(p, k, [fill[p][k] EXCEPT !.pc = "generation", !.locked = TRUE])
  /\ UNCHANGED <<database, versions, entry, requests, ask, refresh, trouble>>

\* Somebody else has the lock, and there is an entry meanwhile.
Shared(p, k) ==
  /\ At(p, k, "lock") /\ lock[k] # Nobody /\ Hit(entry[k].data)
  /\ Settle(p, k, entry[k].data)
  /\ UNCHANGED <<database, redis, trouble>>

\* The wait for the lock takes too long, or a command fails: the total is
\* calculated all the same, and stored only by who has the lock.
LooksNoFurther(p, k) ==
  /\ At(p, k, "lock") \/ At(p, k, "generation") \/ At(p, k, "current")
  /\ Trouble
  /\ Moved(p, k, [fill[p][k] EXCEPT !.pc = "load"])
  /\ UNCHANGED <<database, redis, ask, refresh>>

ReadGeneration(p, k) ==
  /\ At(p, k, "generation")
  /\ Moved(p, k, [fill[p][k] EXCEPT !.pc = "current", !.generation = generation])
  /\ UNCHANGED <<database, redis, ask, refresh, trouble>>

\* An entry that has become fresh meanwhile will do.
CheckCurrent(p, k) ==
  /\ At(p, k, "current")
  /\ Moved(p, k, IF Fresh(entry[k], fill[p][k].generation)
                 THEN [fill[p][k] EXCEPT !.pc = "release", !.data = entry[k].data,
                                         !.generation = 0]
                 ELSE [fill[p][k] EXCEPT !.pc = "load"])
  /\ UNCHANGED <<database, redis, ask, refresh, trouble>>

Load(p, k) ==
  /\ At(p, k, "load")
  /\ Moved(p, k, [fill[p][k] EXCEPT !.pc = IF fill[p][k].locked THEN "store" ELSE "release",
                                    !.data = [source |-> source, selection |-> selection]])
  /\ UNCHANGED <<database, redis, ask, refresh, trouble>>

\* The calculation fails, or its result cannot be stored and is returned.
Fails(p, k) ==
  /\ At(p, k, "load") \/ At(p, k, "store")
  /\ Trouble
  /\ Moved(p, k, [fill[p][k] EXCEPT !.pc = "release", !.generation = 0])
  /\ UNCHANGED <<database, redis, ask, refresh>>

MayStore(p, k) == lock[k] = p

\* Mutant: the entry gets the generation at the time of storing.
StampedLate(p, k) == generation

Stamp(p, k) == fill[p][k].generation

Store(p, k) ==
  /\ At(p, k, "store")
  /\ entry' = IF MayStore(p, k)
               THEN [entry EXCEPT ![k] = [data |-> fill[p][k].data,
                                          generation |-> Stamp(p, k), aged |-> FALSE]]
               ELSE entry
  /\ Moved(p, k, [fill[p][k] EXCEPT !.pc = "release", !.generation = 0])
  /\ UNCHANGED <<database, versions, lock, requests, ask, refresh, trouble>>

Released(p, k) == IF lock[k] = p THEN [lock EXCEPT ![k] = Nobody] ELSE lock

Release(p, k) ==
  /\ At(p, k, "release")
  /\ lock' = IF fill[p][k].locked THEN Released(p, k) ELSE lock
  /\ Settle(p, k, fill[p][k].data)
  /\ UNCHANGED <<database, versions, entry, requests, trouble>>

ReleaseFails(p, k) ==
  /\ At(p, k, "release") /\ fill[p][k].locked
  /\ Trouble
  /\ Settle(p, k, fill[p][k].data)
  /\ UNCHANGED <<database, redis>>

-----------------------------------------------------------------------------
(* refreshAffected and invalidate                                           *)

\* A job completes in p: its changes are committed, and refreshAffected runs.
DataChanges(p) ==
  /\ source < MaxSource
  /\ source' = source + 1
  /\ refresh' = [refresh EXCEPT ![source + 1] =
       [pc |-> "announce", process |-> p, todo |-> {}, key |-> 0]]
  /\ UNCHANGED <<selection, changing, redis, fill, ask, trouble>>

Announce(n) ==
  /\ refresh[n].pc = "announce"
  /\ generation' = generation + 1
  /\ announced' = source
  /\ refresh' = [refresh EXCEPT ![n].pc = "list"]
  /\ UNCHANGED <<database, epoch, entry, lock, requests, fill, ask, trouble>>

List(n) ==
  /\ refresh[n].pc = "list"
  /\ refresh' = [refresh EXCEPT ![n].pc = "next", ![n].todo = requests]
  /\ UNCHANGED <<database, redis, fill, ask, trouble>>

\* A registered request of an older epoch is forgotten; so is one that nobody
\* has made for ten minutes.
Forget(n, k) ==
  /\ refresh[n].pc = "next" /\ k \in refresh[n].todo
  /\ requests' = requests \ {k}
  /\ refresh' = [refresh EXCEPT ![n].todo = @ \ {k}]
  /\ UNCHANGED <<database, versions, entry, lock, fill, ask, trouble>>

\* A fill of this process under way is left to finish first.
Refill(n) ==
  LET p == refresh[n].process
      k == epoch
  IN  /\ refresh[n].pc = "next" /\ k \in refresh[n].todo
      /\ refresh' = [refresh EXCEPT ![n].pc = IF At(p, k, "none") THEN "wait" ELSE "await",
                                     ![n].todo = @ \ {k}, ![n].key = k]
      /\ fill' = [fill EXCEPT ![p][k] = Started(@)]
      /\ UNCHANGED <<database, redis, ask, trouble>>

Refreshed(n) ==
  /\ refresh[n].pc = "next" /\ refresh[n].todo = {}
  /\ refresh' = [refresh EXCEPT ![n] = [NoRefresh EXCEPT !.pc = "done"]]
  /\ UNCHANGED <<database, redis, fill, ask, trouble>>

\* A command fails: the change is not announced, or a request is passed over.
RefreshFails(n) ==
  /\ Trouble
  /\ \/ /\ refresh[n].pc \in {"announce", "list"}
        /\ refresh' = [refresh EXCEPT ![n] = [NoRefresh EXCEPT !.pc = "done"]]
     \/ /\ refresh[n].pc = "next"
        /\ \E k \in refresh[n].todo : refresh' = [refresh EXCEPT ![n].todo = @ \ {k}]
  /\ UNCHANGED <<database, redis, fill, ask>>

SelectionChanges ==
  /\ ~ changing /\ selection < MaxSelection
  /\ selection' = selection + 1
  /\ changing' = TRUE
  /\ UNCHANGED <<source, redis, calls, trouble>>

\* Mutant: the key stays the same.
SameEpoch == epoch

NewEpoch == epoch + 1

Invalidate ==
  /\ changing
  /\ epoch' = NewEpoch
  /\ changing' = FALSE
  /\ UNCHANGED <<source, selection, generation, announced, entry, lock, requests, calls, trouble>>

-----------------------------------------------------------------------------
(* Redis and the clock                                                      *)

\* Does the fill that took the lock still rely on it?
Relied(k) == lock[k] \in Process /\ fill[lock[k]][k].locked

LockExpires(k) ==
  /\ lock[k] # Nobody
  /\ IF Relied(k) THEN Trouble ELSE UNCHANGED trouble
  /\ lock' = [lock EXCEPT ![k] = Nobody]
  /\ UNCHANGED <<database, versions, entry, requests, calls>>

\* A minute goes by.
Age(k) ==
  /\ Hit(entry[k].data) /\ ~ entry[k].aged
  /\ Trouble
  /\ entry' = [entry EXCEPT ![k].aged = TRUE]
  /\ UNCHANGED <<database, versions, lock, requests, calls>>

\* The process ends, and leaves its locks behind.
Dies(p) ==
  /\ Trouble
  /\ fill' = [fill EXCEPT ![p] = [k \in Key |-> NoFill]]
  /\ ask' = [c \in Client |-> IF ask[c].process = p THEN NoAsk ELSE ask[c]]
  /\ refresh' = [n \in Change |->
       IF refresh[n].process = p THEN [NoRefresh EXCEPT !.pc = "done"] ELSE refresh[n]]
  /\ UNCHANGED <<database, redis>>

-----------------------------------------------------------------------------

GetOrLoad(c) == (\E p \in Process : Ask(c, p)) \/ Look(c) \/ LookFails(c) \/ Leave(c)

RunFill(p, k) ==
  \/ TakeLock(p, k) \/ Shared(p, k) \/ ReadGeneration(p, k) \/ CheckCurrent(p, k)
  \/ Load(p, k) \/ Store(p, k) \/ Release(p, k)
  \/ LooksNoFurther(p, k) \/ Fails(p, k) \/ ReleaseFails(p, k)

RefreshAffected(n) ==
  Announce(n) \/ List(n) \/ (\E k \in Epoch : Forget(n, k)) \/ Refill(n) \/ Refreshed(n)
  \/ RefreshFails(n)

Next ==
  \/ \E c \in Client : GetOrLoad(c)
  \/ \E p \in Process, k \in Epoch : RunFill(p, k)
  \/ \E p \in Process : DataChanges(p) \/ Dies(p)
  \/ \E n \in Change : RefreshAffected(n)
  \/ SelectionChanges \/ Invalidate
  \/ \E k \in Epoch : LockExpires(k) \/ Age(k)

Spec == Init /\ [][Next]_vars

-----------------------------------------------------------------------------
(* Properties                                                               *)

\* A request made after a change of the selection has been answered gets no
\* total of the selection before it, whatever fills were under way and in
\* whatever process (summary-cache.ts:239-240: "Configuration/address selection
\* changes must not serve a total from the old selection. Rotate keys, so even
\* an older in-flight fill cannot resurrect it.").
SelectionRespected ==
  \A c \in Client :
    ask[c].pc = "done" /\ Hit(ask[c].data) => ask[c].data.selection >= ask[c].floor

\* An entry of the present generation holds every change that has been
\* announced: a change during a fill stays marked dirty (summary-cache.ts:232).
FreshIsCurrent ==
  \A k \in Epoch :
    Hit(entry[k].data) /\ entry[k].generation = generation => entry[k].data.source >= announced

\* A fill which outlived its lock cannot overwrite a newer result of another
\* process (summary-cache.ts:184).
NeverOlder ==
  [][\A k \in Epoch :
       /\ entry'[k].data.source >= entry[k].data.source
       /\ entry'[k].data.selection >= entry[k].data.selection]_vars

=============================================================================
