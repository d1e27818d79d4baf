----------------------------- MODULE Places_proofs -----------------------------
(***************************************************************************)
(* Of any requests and any configuration: the slots of a provider are      *)
(* accounted for, and at most one request more than configured holds one   *)
(* (RateLimiter).  Of any dashboards of charts: each chart waits for its   *)
(* place, gets it and gives it back (Tiles).  Of any saved graphs, on any  *)
(* dashboards, arranged by any number of pages: a page shows each once,    *)
(* and what a reload would show (Desk).                                    *)
(*                                                                         *)
(* Each part has its own inductive invariant.                              *)
(***************************************************************************)
EXTENDS RateLimiter, Tiles, Desk, FiniteSetTheorems, SequenceTheorems,
        WellFoundedInduction, TLAPS

-----------------------------------------------------------------------------
(* Numbers and finite sets. *)

LEMMA NaturalsReached ==
  ASSUME NEW S, 0 \in S, \A n \in Nat : n \in S => n + 1 \in S
  PROVE  Nat \subseteq S
<1> DEFINE T == Nat \ S
<1> SUFFICES ASSUME T # {} PROVE FALSE
  OBVIOUS
<1>1. PICK b \in T : \A x \in T : ~ (<<x, b>> \in OpToRel(<, Nat))
  <2>1. T \subseteq Nat
    OBVIOUS
  <2> HIDE DEF T
  <2> QED
    BY <2>1, NatLessThanWellFounded, WFMin
<1>2. b \in Nat /\ b # 0 /\ \A x \in T : ~ (x < b)
  BY <1>1 DEF OpToRel
<1>3. b - 1 \in Nat /\ b - 1 < b /\ (b - 1) + 1 = b
  BY <1>2
<1> QED
  BY <1>2, <1>3

LEMMA RangeFinite ==
  ASSUME NEW f, NEW D, IsFiniteSet(D), f = [x \in D |-> f[x]]
  PROVE  IsFiniteSet({f[x] : x \in D})
<1> DEFINE T == {f[x] : x \in D}
<1>1. f \in Surjection(D, T)
  BY DEF Surjection
<1> HIDE DEF T
<1>2. IsFiniteSet(T)
  BY <1>1, FS_Surjection
<1> QED
  BY <1>2 DEF T

-----------------------------------------------------------------------------
(* The slots of a provider (RateLimiter). *)

PCs == {"idle", "queued", "woken"} \cup Holding

\* The part of TypeOK the argument needs.
SlotTypes ==
  /\ pc \in [RequestKey -> PCs]
  /\ active \in Nat
  /\ waiting \in Seq(RequestKey)

\* What is in the queue waits for a slot, and waits once.
QueueHonest ==
  /\ \A i \in 1 .. Len(waiting) : pc[waiting[i]] = "queued"
  /\ \A i, j \in 1 .. Len(waiting) : waiting[i] = waiting[j] => i = j

\* At most one waiter is about to resume, and then a slot was freed for it,
\* whoever has it by now.
OneWaking ==
  /\ \A j, k \in Woken : j = k
  /\ Woken # {} => active <= Concurrency

SlotInv ==
  SlotTypes /\ QueueHonest /\ SlotsAccounted /\ OneWaking /\ OvershootByOne

-----------------------------------------------------------------------------
LEMMA HoldersCounted ==
  ASSUME NEW S \in SUBSET RequestKey
  PROVE  /\ IsFiniteSet(S) /\ Cardinality(S) \in Nat
         /\ \A k \in RequestKey \ S : Cardinality(S \cup {k}) = Cardinality(S) + 1
         /\ \A k \in S : Cardinality(S \ {k}) = Cardinality(S) - 1
<1>1. IsFiniteSet(S)
  BY Assumptions, FS_Subset
<1>2. Cardinality(S) \in Nat
  BY <1>1, FS_CardinalityType
<1>3. \A k \in RequestKey \ S : Cardinality(S \cup {k}) = Cardinality(S) + 1
  BY <1>1, FS_AddElement
<1>4. \A k \in S : Cardinality(S \ {k}) = Cardinality(S) - 1
  BY <1>1, FS_RemoveElement
<1> QED
  BY <1>1, <1>2, <1>3, <1>4

LEMMA SlotInit == Init => SlotInv
<1> SUFFICES ASSUME Init PROVE SlotInv
  OBVIOUS
<1>1. Holders = {} /\ Woken = {}
  BY DEF Init, Holders, Holding, Woken
<1>2. SlotTypes /\ QueueHonest
  BY DEF Init, SlotTypes, QueueHonest, PCs
<1>3. SlotsAccounted
  BY <1>1, FS_EmptySet DEF Init, SlotsAccounted
<1>4. OneWaking /\ OvershootByOne
  BY <1>1, Assumptions DEF Init, OneWaking, OvershootByOne
<1> QED
  BY <1>2, <1>3, <1>4 DEF SlotInv

\* The head of the queue and what is behind it.
LEMMA QueueShift ==
  ASSUME SlotInv, waiting # <<>>
  PROVE  /\ Head(waiting) \in RequestKey /\ pc[Head(waiting)] = "queued"
         /\ Tail(waiting) \in Seq(RequestKey)
         /\ \A i \in 1 .. Len(Tail(waiting)) :
              /\ i + 1 \in 1 .. Len(waiting)
              /\ Tail(waiting)[i] = waiting[i + 1]
              /\ Tail(waiting)[i] # Head(waiting)
<1>1. waiting \in Seq(RequestKey) /\ Len(waiting) \in Nat /\ Len(waiting) >= 1
  BY EmptySeq, LenProperties DEF SlotInv, SlotTypes
<1>2. Head(waiting) = waiting[1] /\ Head(waiting) \in RequestKey
  BY <1>1, HeadTailProperties
<1>3. /\ Tail(waiting) \in Seq(RequestKey)
      /\ Len(Tail(waiting)) = Len(waiting) - 1
      /\ \A i \in 1 .. Len(Tail(waiting)) : Tail(waiting)[i] = waiting[i + 1]
  BY <1>1, HeadTailProperties
<1>4. \A i \in 1 .. Len(Tail(waiting)) : i + 1 \in 1 .. Len(waiting) /\ i + 1 # 1
  BY <1>1, <1>3
<1>5. 1 \in 1 .. Len(waiting)
  BY <1>1
<1>6. pc[Head(waiting)] = "queued"
  BY <1>2, <1>5 DEF SlotInv, QueueHonest
<1>7. \A i \in 1 .. Len(Tail(waiting)) : Tail(waiting)[i] # Head(waiting)
  BY <1>2, <1>3, <1>4, <1>5 DEF SlotInv, QueueHonest
<1> QED
  BY <1>2, <1>3, <1>4, <1>6, <1>7

-----------------------------------------------------------------------------
(* A queue q against a state at of the executions, and one execution's      *)
(* release() and acquire().                                                 *)

QueueOf(at, q) ==
  /\ q \in Seq(RequestKey)
  /\ \A i \in 1 .. Len(q) : at[q[i]] = "queued"
  /\ \A i, j \in 1 .. Len(q) : q[i] = q[j] => i = j

HoldersOf(at) == {k \in RequestKey : at[k] \in Holding}

WakingOf(at) == {k \in RequestKey : at[k] = "woken"}

\* release() gives back a slot, moves the first waiter from the queue to the
\* woken ones and leaves everybody else where they are.
LEMMA ReleaseKeeps ==
  ASSUME SlotInv, Drained, NEW k \in Holders
  PROVE  /\ Released = active - 1 /\ Released \in Nat
         /\ Resolved \in [RequestKey -> PCs]
         /\ Resolved[k] = pc[k]
         /\ HoldersOf(Resolved) = Holders
         /\ QueueOf(Resolved, Shifted)
         /\ \A x, y \in WakingOf(Resolved) : x = y
<1> USE DEF SlotInv, SlotTypes
<1>1. Cardinality(Holders) \in Nat /\ Cardinality(Holders \ {k}) = Cardinality(Holders) - 1
      /\ Cardinality(Holders \ {k}) \in Nat
  <2>1. Holders \in SUBSET RequestKey /\ Holders \ {k} \in SUBSET RequestKey
    BY DEF Holders
  <2> QED
    BY <2>1, HoldersCounted
<1>2. Released = active - 1 /\ Released \in Nat
  BY <1>1 DEF SlotsAccounted, Released, Larger
<1>3. CASE waiting = <<>>
  <2>1. Resolved = pc /\ Shifted = waiting
    BY <1>3 DEF Resolved, Shifted
  <2>2. WakingOf(Resolved) = {}
    BY <2>1 DEF WakingOf, Drained, Woken
  <2> QED
    BY <1>2, <2>1, <2>2 DEF HoldersOf, Holders, QueueOf, QueueHonest
<1>4. CASE waiting # <<>>
  <2> DEFINE w == Head(waiting)
  <2>1. /\ w \in RequestKey /\ pc[w] = "queued"
        /\ Resolved = [pc EXCEPT ![w] = "woken"] /\ Shifted = Tail(waiting)
    BY <1>4, QueueShift DEF Resolved, Shifted
  <2>2. k \in RequestKey /\ pc[k] \in Holding /\ w # k
    BY <2>1 DEF Holders, Holding
  <2>3. Resolved \in [RequestKey -> PCs] /\ Resolved[k] = pc[k]
    BY <2>1, <2>2 DEF PCs
  <2>4. HoldersOf(Resolved) = Holders
    BY <2>1 DEF HoldersOf, Holders, Holding
  <2>5. WakingOf(Resolved) = {w}
    BY <2>1 DEF WakingOf, Drained, Woken
  <2>6. QueueOf(Resolved, Shifted)
    <3>1. Shifted \in Seq(RequestKey)
      BY <1>4, <2>1, QueueShift
    <3>2. \A i \in 1 .. Len(Shifted) : Resolved[Shifted[i]] = "queued"
      <4> TAKE i \in 1 .. Len(Shifted)
      <4>1. i + 1 \in 1 .. Len(waiting) /\ Shifted[i] = waiting[i + 1] /\ Shifted[i] # w
        BY <1>4, <2>1, QueueShift
      <4>2. Shifted[i] \in RequestKey /\ pc[Shifted[i]] = "queued"
        BY <4>1, LenProperties DEF QueueHonest
      <4> QED
        BY <2>1, <4>1, <4>2
    <3>3. ASSUME NEW i \in 1 .. Len(Shifted), NEW j \in 1 .. Len(Shifted), Shifted[i] = Shifted[j]
          PROVE  i = j
      <4>1. /\ i + 1 \in 1 .. Len(waiting) /\ Shifted[i] = waiting[i + 1]
            /\ j + 1 \in 1 .. Len(waiting) /\ Shifted[j] = waiting[j + 1]
        BY <1>4, <2>1, QueueShift
      <4>2. i + 1 = j + 1
        BY <3>3, <4>1 DEF QueueHonest
      <4> QED
        BY <4>2
    <3> QED
      BY <3>1, <3>2, <3>3 DEF QueueOf
  <2> QED
    BY <1>2, <2>3, <2>4, <2>5, <2>6
<1> QED
  BY <1>3, <1>4

\* acquire() of an execution k that holds nothing: it gets a slot that is free
\* or joins the queue.
LEMMA AcquireKeeps ==
  ASSUME NEW k \in RequestKey, NEW n \in Nat, NEW at \in [RequestKey -> PCs], NEW q,
         QueueOf(at, q), Acquire(k, n, at, q),
         at[k] \notin {"queued", "woken"},
         n = Cardinality(HoldersOf(at) \ {k}), n <= Concurrency + 1,
         \A x, y \in WakingOf(at) : x = y,
         WakingOf(at) # {} => n <= Concurrency
  PROVE  SlotInv'
<1> USE Assumptions
<1>1. q \in Seq(RequestKey) /\ \A i \in 1 .. Len(q) : q[i] \in RequestKey /\ q[i] # k
  BY LenProperties DEF QueueOf
<1>2. CASE n < Concurrency /\ Admit(k, n, at) /\ waiting' = q
  <2>1. \E p \in {"token", "spacing", "going"} : pc' = [at EXCEPT ![k] = p]
    BY <1>2 DEF Admit, AwaitSpacing
  <2>2. SlotTypes'
    BY <1>1, <1>2, <2>1 DEF SlotTypes, Admit, PCs, Holding
  <2>3. QueueHonest'
    BY <1>1, <1>2, <2>1 DEF QueueHonest, QueueOf
  <2>4. Holders' = (HoldersOf(at) \ {k}) \cup {k}
    BY <2>1 DEF Holders, HoldersOf, Holding
  <2>5. SlotsAccounted'
    <3>1. HoldersOf(at) \ {k} \in SUBSET RequestKey
      BY DEF HoldersOf
    <3> QED
      BY <1>2, <2>4, <3>1, HoldersCounted DEF SlotsAccounted, Admit
  <2>6. Woken' = WakingOf(at)
    BY <2>1 DEF Woken, WakingOf
  <2>7. OneWaking' /\ OvershootByOne'
    BY <1>2, <2>6 DEF OneWaking, OvershootByOne, Admit
  <2> QED
    BY <2>2, <2>3, <2>5, <2>7 DEF SlotInv
<1>3. CASE n >= Concurrency /\ pc' = [at EXCEPT ![k] = "queued"] /\ waiting' = Append(q, k) /\ active' = n
  <2>1. /\ waiting' \in Seq(RequestKey)
        /\ Len(q) \in Nat /\ Len(waiting') = Len(q) + 1
        /\ \A i \in 1 .. Len(q) : waiting'[i] = q[i]
        /\ waiting'[Len(q) + 1] = k
    BY <1>1, <1>3, AppendProperties, LenProperties
  <2>2. SlotTypes'
    BY <1>3, <2>1 DEF SlotTypes, PCs
  <2>3. \A i \in 1 .. Len(waiting') : i \in 1 .. Len(q) \/ i = Len(q) + 1
    BY <2>1
  <2>4. QueueHonest'
    <3>1. \A i \in 1 .. Len(waiting') : pc'[waiting'[i]] = "queued"
      BY <1>1, <1>3, <2>1, <2>3 DEF QueueOf
    <3>2. \A i, j \in 1 .. Len(waiting') : waiting'[i] = waiting'[j] => i = j
      BY <1>1, <2>1, <2>3 DEF QueueOf
    <3> QED
      BY <3>1, <3>2 DEF QueueHonest
  <2>5. Holders' = HoldersOf(at) \ {k}
    BY <1>3 DEF Holders, HoldersOf, Holding
  <2>6. Woken' = WakingOf(at)
    BY <1>3 DEF Woken, WakingOf
  <2>7. SlotsAccounted' /\ OneWaking' /\ OvershootByOne'
    BY <1>3, <2>5, <2>6 DEF SlotsAccounted, OneWaking, OvershootByOne
  <2> QED
    BY <2>2, <2>4, <2>7 DEF SlotInv
<1> QED
  BY <1>2, <1>3 DEF Acquire

-----------------------------------------------------------------------------
(* The actions.                                                             *)

LEMMA LeaveStep ==
  ASSUME SlotInv, Drained, NEW k \in Holders, Leave(k)
  PROVE  SlotInv'
<1> USE Assumptions
<1>1. /\ Released = active - 1 /\ Released \in Nat
      /\ Resolved \in [RequestKey -> PCs]
      /\ HoldersOf(Resolved) = Holders
      /\ QueueOf(Resolved, Shifted)
      /\ \A x, y \in WakingOf(Resolved) : x = y
      /\ Resolved[k] \in Holding /\ k \in RequestKey
  BY ReleaseKeeps DEF Holders
<1>2. pc' = [Resolved EXCEPT ![k] = "idle"] /\ active' = active - 1 /\ waiting' = Shifted
  BY <1>1 DEF Leave
<1>3. SlotTypes'
  BY <1>1, <1>2 DEF SlotTypes, PCs, QueueOf, Leave
<1>4. QueueHonest'
  <2>1. \A i \in 1 .. Len(Shifted) : Shifted[i] \in RequestKey /\ Shifted[i] # k
    BY <1>1, LenProperties DEF QueueOf, Holding
  <2> QED
    BY <1>1, <1>2, <2>1 DEF QueueHonest, QueueOf
<1>5. Holders' = Holders \ {k}
  BY <1>1, <1>2 DEF Holders, HoldersOf, Holding
<1>6. SlotsAccounted'
  BY <1>2, <1>5, HoldersCounted DEF SlotsAccounted, SlotInv, Holders
<1>7. Woken' \subseteq WakingOf(Resolved)
  BY <1>1, <1>2 DEF Woken, WakingOf
<1>8. OneWaking' /\ OvershootByOne'
  BY <1>1, <1>2, <1>7 DEF OneWaking, OvershootByOne, SlotInv, SlotTypes
<1> QED
  BY <1>3, <1>4, <1>6, <1>8 DEF SlotInv

LEMMA CallStep ==
  ASSUME SlotInv, NEW k \in RequestKey, Call(k)
  PROVE  SlotInv'
<1>1. HoldersOf(pc) \ {k} = Holders /\ WakingOf(pc) = {} /\ QueueOf(pc, waiting)
  BY DEF Call, HoldersOf, Holders, Holding, WakingOf, Drained, Woken, QueueOf, SlotInv, SlotTypes,
         QueueHonest
<1>2. Acquire(k, active, pc, waiting) /\ pc[k] = "idle"
  BY DEF Call
<1> QED
  BY <1>1, <1>2, AcquireKeeps DEF SlotInv, SlotTypes, SlotsAccounted, OvershootByOne

LEMMA RetryStep ==
  ASSUME SlotInv, NEW k \in RequestKey, Retry(k)
  PROVE  SlotInv'
<1> USE Assumptions
<1>1. k \in Holders /\ Drained
  BY DEF Retry, Holders, Holding
<1>2. /\ Released = active - 1 /\ Released \in Nat
      /\ Resolved \in [RequestKey -> PCs]
      /\ Resolved[k] = "backoff"
      /\ HoldersOf(Resolved) = Holders
      /\ QueueOf(Resolved, Shifted)
      /\ \A x, y \in WakingOf(Resolved) : x = y
  BY <1>1, ReleaseKeeps DEF Retry
<1>3. Released = Cardinality(HoldersOf(Resolved) \ {k})
  BY <1>1, <1>2, HoldersCounted DEF SlotInv, SlotsAccounted, Holders
<1>4. Released <= Concurrency
  BY <1>2 DEF SlotInv, SlotTypes, OvershootByOne
<1>5. Acquire(k, Released, Resolved, Shifted)
  BY DEF Retry
<1> QED
  BY <1>2, <1>3, <1>4, <1>5, AcquireKeeps

LEMMA WakeUpStep ==
  ASSUME SlotInv, NEW k \in RequestKey, WakeUp(k)
  PROVE  SlotInv'
<1> USE Assumptions DEF SlotInv, SlotTypes
<1>1. /\ k \in Woken /\ k \notin Holders /\ active' = active + 1
      /\ UNCHANGED waiting
      /\ \E p \in {"token", "spacing", "going"} : pc' = [pc EXCEPT ![k] = p]
  BY DEF WakeUp, Admit, AwaitSpacing, Woken, Holders, Holding
<1>2. SlotTypes'
  BY <1>1 DEF PCs, Holding
<1>3. QueueHonest'
  BY <1>1, LenProperties DEF QueueHonest, Woken
<1>4. Holders' = Holders \cup {k}
  BY <1>1 DEF Holders, Holding
<1>5. SlotsAccounted'
  BY <1>1, <1>4, HoldersCounted DEF SlotsAccounted, Holders
<1>6. Woken' = {}
  BY <1>1 DEF Woken, OneWaking
<1>7. OneWaking' /\ OvershootByOne'
  BY <1>1, <1>6 DEF OneWaking, OvershootByOne
<1> QED
  BY <1>2, <1>3, <1>5, <1>7

\* Steps that move one execution from one place with a slot to another.
LEMMA HeldStep ==
  ASSUME SlotInv, NEW k \in Holders, NEW p \in Holding,
         pc' = [pc EXCEPT ![k] = p], UNCHANGED <<active, waiting>>
  PROVE  SlotInv'
<1> USE DEF SlotInv, SlotTypes
<1>1. k \in RequestKey /\ pc[k] \in Holding
  BY DEF Holders
<1>2. SlotTypes'
  BY <1>1 DEF PCs
<1>3. QueueHonest'
  BY <1>1, LenProperties DEF QueueHonest, Holding
<1>4. Holders' = Holders /\ Woken' = Woken
  BY <1>1 DEF Holders, Woken, Holding
<1>5. SlotsAccounted' /\ OneWaking' /\ OvershootByOne'
  BY <1>4 DEF SlotsAccounted, OneWaking, OvershootByOne
<1> QED
  BY <1>2, <1>3, <1>5

LEMMA SlotStep == SlotInv /\ [Next]_vars => SlotInv'
<1> SUFFICES ASSUME SlotInv, [Next]_vars PROVE SlotInv'
  OBVIOUS
<1>1. CASE Tick \/ UNCHANGED vars
  <2>1. UNCHANGED <<pc, active, waiting>>
    BY <1>1 DEF Tick, vars
  <2> QED
    BY <2>1 DEF SlotInv, SlotTypes, QueueHonest, SlotsAccounted, OneWaking, OvershootByOne, Holders, Woken
<1>2. ASSUME NEW k \in RequestKey, Call(k) PROVE SlotInv'
  BY <1>2, CallStep
<1>3. ASSUME NEW k \in RequestKey, WakeUp(k) PROVE SlotInv'
  BY <1>3, WakeUpStep
<1>4. ASSUME NEW k \in RequestKey, Retry(k) PROVE SlotInv'
  BY <1>4, RetryStep
<1>5. ASSUME NEW k \in RequestKey, TokenReady(k) \/ SendAttempt(k) PROVE SlotInv'
  <2>1. k \in Holders /\ UNCHANGED <<active, waiting>>
    BY <1>5 DEF TokenReady, SendAttempt, Holders, Holding
  <2>2. \E p \in Holding : pc' = [pc EXCEPT ![k] = p]
    BY <1>5 DEF TokenReady, AwaitSpacing, SendAttempt, Holding
  <2> QED
    BY <2>1, <2>2, HeldStep
<1>6. ASSUME NEW k \in RequestKey, Succeeds(k) \/ Refused(k) PROVE SlotInv'
  <2>1. k \in Holders /\ Drained /\ Leave(k)
    BY <1>6 DEF Succeeds, Refused, Holders, Holding
  <2> QED
    BY <2>1, LeaveStep
<1>7. ASSUME NEW k \in RequestKey, NEW r \in BOOLEAN, Fails(k, r) PROVE SlotInv'
  <2>1. k \in Holders /\ Drained
    BY <1>7 DEF Fails, Holders, Holding
  <2>2. CASE Leave(k)
    BY <2>1, <2>2, LeaveStep
  <2>3. CASE pc' = [pc EXCEPT ![k] = "backoff"] /\ UNCHANGED <<active, waiting>>
    BY <2>1, <2>3, HeldStep DEF Holding
  <2> QED
    BY <1>7, <2>2, <2>3 DEF Fails
<1> QED
  BY <1>1, <1>2, <1>3, <1>4, <1>5, <1>6, <1>7 DEF Next, Proceeds

THEOREM SlotInvariant == Spec => []SlotInv
<1> QED
  BY SlotInit, SlotStep, PTL DEF Spec

\* No slot is lost or given twice on any way through the retry loop: active
\* counts the executions between acquire() and release().
THEOREM SlotsAreAccounted == Spec => []SlotsAccounted
BY SlotInvariant, PTL DEF SlotInv

\* With any number of callers and retries at most one request more than
\* configured holds a slot.
THEOREM OneTooManyAtMost == Spec => []OvershootByOne
BY SlotInvariant, PTL DEF SlotInv

-----------------------------------------------------------------------------
(* What Selected() returns. *)

\* A value at each of 0 .. m, each made from the one before it.
Steps(f, m, V, b, F) ==
  f \in [0 .. m -> V] /\ f[0] = b /\ \A t \in 1 .. m : f[t] = F[<<t, f[t - 1]>>]

LEMMA StepsExist ==
  ASSUME NEW m \in Nat, NEW V, NEW b \in V, NEW F \in [(1 .. m) \X V -> V]
  PROVE  \E f : Steps(f, m, V, b, F)
<1> DEFINE Good(n, f) == f[0] = b /\ \A t \in 1 .. n : f[t] = F[<<t, f[t - 1]>>]
           N == {n \in Nat : n <= m => \E f \in [0 .. m -> V] : Good(n, f)}
<1>1. 0 \in N
  <2> DEFINE f == [t \in 0 .. m |-> b]
  <2>1. f \in [0 .. m -> V] /\ f[0] = b
    OBVIOUS
  <2>2. Good(0, f)
    BY <2>1
  <2> HIDE DEF f
  <2> QED
    BY <2>1, <2>2
<1>2. ASSUME NEW n \in Nat, n \in N PROVE n + 1 \in N
  <2> SUFFICES ASSUME n + 1 <= m PROVE \E f \in [0 .. m -> V] : Good(n + 1, f)
    OBVIOUS
  <2>1. PICK f \in [0 .. m -> V] : Good(n, f)
    BY <1>2
  <2> DEFINE v == F[<<n + 1, f[n]>>]
             g == [f EXCEPT ![n + 1] = v]
  <2>2. n + 1 \in 1 .. m /\ n \in 0 .. m /\ n + 1 \in 0 .. m
    OBVIOUS
  <2>3. f[n] \in V
    BY <2>2
  <2>4. v \in V
    BY <2>2, <2>3
  <2> HIDE DEF v
  <2>5. g \in [0 .. m -> V] /\ g[n + 1] = v /\ \A t \in 0 .. n : g[t] = f[t]
    BY <2>2, <2>4
  <2> HIDE DEF g
  <2>6. g[0] = b
    BY <2>1, <2>5
  <2>7. ASSUME NEW t \in 1 .. n + 1 PROVE g[t] = F[<<t, g[t - 1]>>]
    <3>1. CASE t = n + 1
      <4>1. t - 1 = n /\ n \in 0 .. n
        BY <3>1
      <4>2. g[t - 1] = f[n]
        BY <2>5, <4>1
      <4> QED
        BY <2>5, <3>1, <4>2 DEF v
    <3>2. CASE t # n + 1
      <4>1. t \in 1 .. n /\ t \in 0 .. n /\ t - 1 \in 0 .. n
        BY <3>2
      <4>2. f[t] = F[<<t, f[t - 1]>>]
        BY <2>1, <4>1
      <4> QED
        BY <2>5, <4>1, <4>2
    <3> QED
      BY <3>1, <3>2
  <2> QED
    BY <2>5, <2>6, <2>7
<1> HIDE DEF N
<1>3. m \in N
  BY <1>1, <1>2, NaturalsReached
<1> QED
  BY <1>3 DEF N, Steps

\* What there is after each entry, and in the end.
Selecting(f, X, s, S) ==
  /\ f \in [0 .. Len(s) -> Seq(X)] /\ f[0] = <<>> /\ Selected(s, S) = f[Len(s)]
  /\ \A n \in 1 .. Len(s) : f[n] = IF s[n] \in S THEN Append(f[n - 1], s[n]) ELSE f[n - 1]

LEMMA SelectedSteps ==
  ASSUME NEW X, NEW s \in Seq(X), NEW S
  PROVE  \E f : Selecting(f, X, s, S)
<1>0. Len(s) \in Nat /\ <<>> \in Seq(X) /\ \A n \in 1 .. Len(s) : s[n] \in X
  BY LenProperties, ElementOfSeq, EmptySeq
<1> DEFINE G == [p \in (1 .. Len(s)) \X Seq(X) |->
                   IF s[p[1]] \in S THEN Append(p[2], s[p[1]]) ELSE p[2]]
           body(f) == [n \in 0 .. Len(s) |->
                         IF n = 0 THEN <<>>
                         ELSE IF s[n] \in S THEN Append(f[n - 1], s[n]) ELSE f[n - 1]]
<1>1. G \in [(1 .. Len(s)) \X Seq(X) -> Seq(X)]
  BY <1>0, AppendProperties
<1>2. \A n \in 1 .. Len(s), q \in Seq(X) :
        G[<<n, q>>] = IF s[n] \in S THEN Append(q, s[n]) ELSE q
  OBVIOUS
<1> HIDE DEF G
<1>a. PICK f : Steps(f, Len(s), Seq(X), <<>>, G)
  BY <1>0, <1>1, StepsExist
<1>3. /\ f \in [0 .. Len(s) -> Seq(X)] /\ f[0] = <<>>
      /\ \A n \in 1 .. Len(s) : f[n] = G[<<n, f[n - 1]>>]
  BY <1>a DEF Steps
<1>4. \A n \in 1 .. Len(s) : f[n] = IF s[n] \in S THEN Append(f[n - 1], s[n]) ELSE f[n - 1]
  <2> SUFFICES ASSUME NEW n \in 1 .. Len(s)
               PROVE  f[n] = IF s[n] \in S THEN Append(f[n - 1], s[n]) ELSE f[n - 1]
    OBVIOUS
  <2>1. f[n - 1] \in Seq(X)
    BY <1>0, <1>3
  <2> QED
    BY <1>2, <1>3, <2>1
<1>5. f = body(f)
  <2>1. ASSUME NEW n \in 0 .. Len(s) PROVE f[n] = body(f)[n]
    <3>1. CASE n = 0
      BY <1>3, <3>1
    <3>2. CASE n # 0
      <4>1. n \in 1 .. Len(s)
        BY <1>0, <3>2
      <4> QED
        BY <1>4, <3>2, <4>1
    <3> QED
      BY <3>1, <3>2
  <2> QED
    BY <1>0, <1>3, <2>1
<1> DEFINE C == CHOOSE g : g = body(g)
<1>6. Selected(s, S) = C[Len(s)]
  BY DEF Selected
<1>7. C = body(C)
  <2> HIDE DEF body
  <2> QED
    BY <1>5
<1> HIDE DEF C
<1>8. C[0] = <<>>
  <2>1. 0 \in 0 .. Len(s)
    BY <1>0
  <2> QED
    BY <1>7, <2>1
<1>9. \A n \in 1 .. Len(s) : C[n] = IF s[n] \in S THEN Append(C[n - 1], s[n]) ELSE C[n - 1]
  <2> SUFFICES ASSUME NEW n \in 1 .. Len(s)
               PROVE  C[n] = IF s[n] \in S THEN Append(C[n - 1], s[n]) ELSE C[n - 1]
    OBVIOUS
  <2>1. n \in 0 .. Len(s) /\ n # 0
    BY <1>0
  <2> QED
    BY <1>7, <2>1
<1> DEFINE N == {n \in Nat : n <= Len(s) => C[n] = f[n]}
<1>10. 0 \in N
  BY <1>3, <1>8
<1>11. ASSUME NEW n \in Nat, n \in N PROVE n + 1 \in N
  <2> SUFFICES ASSUME n + 1 <= Len(s) PROVE C[n + 1] = f[n + 1]
    OBVIOUS
  <2>1. n + 1 \in 1 .. Len(s) /\ (n + 1) - 1 = n /\ C[n] = f[n]
    BY <1>0, <1>11
  <2> QED
    BY <1>4, <1>9, <2>1
<1> HIDE DEF N
<1>12. Len(s) \in N
  BY <1>0, <1>10, <1>11, NaturalsReached
<1>13. Selecting(f, X, s, S)
  BY <1>3, <1>4, <1>6, <1>12 DEF N, Selecting
<1> QED
  BY <1>13

\* Selected() keeps just what is in the set, and each entry as often as it was there, if
\* that was once.
LEMMA SelectedIs ==
  ASSUME NEW X, NEW s \in Seq(X), IsInjective(s), NEW S
  PROVE  /\ Selected(s, S) \in Seq(X) /\ IsInjective(Selected(s, S))
         /\ \A x : x \in Range(Selected(s, S)) <=> x \in Range(s) /\ x \in S
<1>0. Len(s) \in Nat /\ DOMAIN s = 1 .. Len(s) /\ \A n \in 1 .. Len(s) : s[n] \in X
  BY LenProperties, ElementOfSeq
<1>a. PICK f : Selecting(f, X, s, S)
  BY SelectedSteps
<1>1. /\ f \in [0 .. Len(s) -> Seq(X)] /\ f[0] = <<>> /\ Selected(s, S) = f[Len(s)]
      /\ \A n \in 1 .. Len(s) : f[n] = IF s[n] \in S THEN Append(f[n - 1], s[n]) ELSE f[n - 1]
  BY <1>a DEF Selecting
<1> DEFINE Fine(n) ==
             /\ \A i, j \in 1 .. Len(f[n]) : f[n][i] = f[n][j] => i = j
             /\ \A i \in 1 .. Len(f[n]) : \E k \in 1 .. n : s[k] \in S /\ f[n][i] = s[k]
             /\ \A k \in 1 .. n : s[k] \in S => \E i \in 1 .. Len(f[n]) : f[n][i] = s[k]
           N == {n \in Nat : n <= Len(s) => Fine(n)}
<1>2. 0 \in N
  BY <1>1
<1>3. ASSUME NEW n \in Nat, n \in N PROVE n + 1 \in N
  <2> SUFFICES ASSUME n + 1 <= Len(s) PROVE Fine(n + 1)
    OBVIOUS
  <2>1. n + 1 \in 1 .. Len(s) /\ (n + 1) - 1 = n /\ n \in 0 .. Len(s) /\ Fine(n)
    BY <1>0, <1>3
  <2>2. f[n + 1] = IF s[n + 1] \in S THEN Append(f[n], s[n + 1]) ELSE f[n]
    BY <1>1, <2>1
  <2>3. f[n] \in Seq(X)
    BY <1>1, <2>1
  <2>b. Len(f[n]) \in Nat
    BY <2>3, LenProperties
  <2>4. CASE s[n + 1] \notin S
    <3>1. f[n + 1] = f[n]
      BY <2>2, <2>4
    <3>2. \A k \in 1 .. n + 1 : s[k] \in S => k \in 1 .. n
      BY <2>1, <2>4
    <3>3. \A k \in 1 .. n : k \in 1 .. n + 1
      BY <2>1
    <3> QED
      BY <2>1, <3>1, <3>2, <3>3
  <2>5. CASE s[n + 1] \in S
    <3> DEFINE m == Len(f[n])
    <3>1. /\ Len(f[n + 1]) = m + 1 /\ f[n + 1][m + 1] = s[n + 1]
          /\ \A i \in 1 .. m : f[n + 1][i] = f[n][i]
      <4>1. s[n + 1] \in X /\ f[n + 1] = Append(f[n], s[n + 1])
        BY <1>0, <2>1, <2>2, <2>5
      <4> QED
        BY <2>3, <4>1, AppendProperties
    <3>2. \A i \in 1 .. m + 1 : i \in 1 .. m \/ i = m + 1
      BY <2>b
    <3>3. \A k \in 1 .. n + 1 : k \in 1 .. n \/ k = n + 1
      BY <2>1
    <3>4. \A i \in 1 .. m : f[n][i] # s[n + 1]
      <4> SUFFICES ASSUME NEW i \in 1 .. m, f[n][i] = s[n + 1] PROVE FALSE
        OBVIOUS
      <4>1. PICK k \in 1 .. n : f[n][i] = s[k]
        BY <2>1
      <4>2. k \in DOMAIN s /\ n + 1 \in DOMAIN s /\ s[k] = s[n + 1] /\ k # n + 1
        BY <1>0, <2>1, <4>1
      <4> QED
        BY <4>2 DEF IsInjective
    <3>5. \A i, j \in 1 .. m + 1 : f[n + 1][i] = f[n + 1][j] => i = j
      BY <2>1, <3>1, <3>2, <3>4
    <3>6. \A i \in 1 .. m + 1 : \E k \in 1 .. n + 1 : s[k] \in S /\ f[n + 1][i] = s[k]
      <4> SUFFICES ASSUME NEW i \in 1 .. m + 1
                   PROVE  \E k \in 1 .. n + 1 : s[k] \in S /\ f[n + 1][i] = s[k]
        OBVIOUS
      <4>1. CASE i = m + 1
        <5>1. n + 1 \in 1 .. n + 1 /\ f[n + 1][i] = s[n + 1]
          BY <2>1, <3>1, <4>1
        <5> QED
          BY <2>5, <5>1
      <4>2. CASE i \in 1 .. m
        <5>1. PICK k \in 1 .. n : s[k] \in S /\ f[n][i] = s[k]
          BY <2>1, <4>2
        <5> QED
          BY <3>1, <4>2, <5>1
      <4> QED
        BY <3>2, <4>1, <4>2
    <3>7. \A k \in 1 .. n + 1 : s[k] \in S => \E i \in 1 .. m + 1 : f[n + 1][i] = s[k]
      <4> SUFFICES ASSUME NEW k \in 1 .. n + 1, s[k] \in S
                   PROVE  \E i \in 1 .. m + 1 : f[n + 1][i] = s[k]
        OBVIOUS
      <4>1. CASE k = n + 1
        BY <2>b, <3>1, <4>1
      <4>2. CASE k \in 1 .. n
        <5>1. PICK i \in 1 .. m : f[n][i] = s[k]
          BY <2>1, <4>2
        <5> QED
          BY <2>b, <3>1, <5>1
      <4> QED
        BY <3>3, <4>1, <4>2
    <3> QED
      BY <3>1, <3>5, <3>6, <3>7
  <2> QED
    BY <2>4, <2>5
<1> HIDE DEF N
<1>4. Len(s) \in N
  BY <1>0, <1>2, <1>3, NaturalsReached
<1>5. Fine(Len(s))
  BY <1>0, <1>4 DEF N
<1> DEFINE q == Selected(s, S)
<1>6. q = f[Len(s)] /\ q \in Seq(X)
  BY <1>0, <1>1
<1>7. /\ \A i, j \in 1 .. Len(q) : q[i] = q[j] => i = j
      /\ \A i \in 1 .. Len(q) : \E k \in 1 .. Len(s) : s[k] \in S /\ q[i] = s[k]
      /\ \A k \in 1 .. Len(s) : s[k] \in S => \E i \in 1 .. Len(q) : q[i] = s[k]
  BY <1>5, <1>6
<1> HIDE DEF q, Fine
<1>8. DOMAIN q = 1 .. Len(q)
  BY <1>6, LenProperties
<1>9. IsInjective(q)
  BY <1>7, <1>8 DEF IsInjective
<1>10. \A x : x \in Range(q) <=> x \in Range(s) /\ x \in S
  <2> SUFFICES ASSUME NEW x PROVE x \in Range(q) <=> x \in Range(s) /\ x \in S
    OBVIOUS
  <2>1. x \in Range(q) <=> \E i \in 1 .. Len(q) : x = q[i]
    BY <1>8 DEF Range
  <2>2. x \in Range(s) <=> \E k \in 1 .. Len(s) : x = s[k]
    BY <1>0 DEF Range
  <2> QED
    BY <1>7, <2>1, <2>2
<1> QED
  BY <1>6, <1>9, <1>10 DEF q

-----------------------------------------------------------------------------
(* The charts of the dashboard (Tiles). *)

TileEntry == [tile : Charts, mount : Nat]

\* The loads of charts, which are what the queue counts.
Served == {l \in tileLoads : l.tile \in Charts}

\* The charts of the page that wait, as entries of the queue.
Waiting == Range(queued)

LoadTyped(l) ==
  /\ l = [tile |-> l.tile, mount |-> l.mount, asks |-> l.asks, oldest |-> l.oldest]
  /\ l.tile \in Charts \cup Tables /\ l.mount \in Nat /\ l.oldest \in Nat

OnceLoaded(S) == \A l, m \in S : l.tile = m.tile /\ l.mount = m.mount => l = m

TilesTyped ==
  /\ board \in DOMAIN Boards \cup {0}
  /\ rangeEnd \in Nat /\ news \in Nat /\ since \in Nat /\ since <= news
  /\ IsFiniteSet(tileLoads) /\ \A l \in tileLoads : LoadTyped(l)
  /\ queued \in Seq(TileEntry) /\ IsInjective(queued)
  /\ DOMAIN tiles = Charts \cup Tables

\* A chart has one place in the queue or one load of each mounting, and only charts of the
\* page wait.
LoadsApart ==
  /\ OnceLoaded(tileLoads)
  /\ \A l \in tileLoads : l.mount <= rangeEnd /\ (l.mount = rangeEnd => l.oldest >= since)
  /\ \A w \in Waiting : w.mount = rangeEnd /\ w.tile \in Range(Boards[board])
  /\ \A w \in Waiting, l \in tileLoads : ~ (l.tile = w.tile /\ l.mount = w.mount)

PlacesCounted ==
  /\ occupied = Cardinality(Served) /\ occupied <= LoadPlaces
  /\ queued # <<>> => occupied = LoadPlaces

PageServed ==
  /\ board # 0 => \A t \in Charts \cap Range(Boards[board]) :
       tiles[t] = Blank => (\E w \in Waiting : w.tile = t) \/ Loads(t)
  /\ \A t \in Charts : tiles[t] \notin {Blank, Broken} => tiles[t] >= since

TilesInv == TilesTyped /\ LoadsApart /\ PlacesCounted /\ PageServed

-----------------------------------------------------------------------------
(* The queue. *)

\* Loads of different charts are as many as the charts.
LEMMA LoadsCounted ==
  ASSUME NEW n \in Nat, NEW load, load = [i \in 1 .. n |-> load[i]],
         \A i, j \in 1 .. n : load[i] = load[j] => i = j,
         NEW S, S = {load[i] : i \in 1 .. n}
  PROVE  IsFiniteSet(S) /\ Cardinality(S) = n
<1>1. IsFiniteSet(1 .. n) /\ Cardinality(1 .. n) = n
  <2>1. 1 \in Int /\ n \in Int
    OBVIOUS
  <2>2. /\ IsFiniteSet(1 .. n)
        /\ Cardinality(1 .. n) = IF 1 > n THEN 0 ELSE n - 1 + 1
    BY <2>1, FS_Interval
  <2>3. (IF 1 > n THEN 0 ELSE n - 1 + 1) = n
    OBVIOUS
  <2> QED
    BY <2>2, <2>3
<1>2. load \in Bijection(1 .. n, S)
  <2>1. load \in [1 .. n -> S]
    OBVIOUS
  <2>2. DOMAIN load = 1 .. n
    OBVIOUS
  <2>3. IsInjective(load)
    BY <2>2 DEF IsInjective
  <2>4. \A t \in S : \E i \in 1 .. n : load[i] = t
    OBVIOUS
  <2> QED
    BY <2>1, <2>2, <2>3, <2>4 DEF Bijection, Injection, Surjection, IsInjective
<1> QED
  BY <1>1, <1>2, FS_Bijection DEF ExistsBijection

LEMMA StartsNext ==
  ASSUME NEW asking \in Seq(TileEntry), IsInjective(asking),
         NEW going, IsFiniteSet(going), OnceLoaded(going),
         NEW taken \in Nat, taken = Cardinality({l \in going : l.tile \in Charts}),
         taken <= LoadPlaces, rangeEnd' \in Nat, news \in Nat,
         \A w \in Range(asking), l \in going :
           There(w) => ~ (l.tile = w.tile /\ l.mount = w.mount),
         StartNext(asking, going, taken)
  PROVE  /\ queued' \in Seq(TileEntry) /\ IsInjective(queued')
         /\ \A w \in Range(queued') : w \in Range(asking) /\ There(w)
         /\ IsFiniteSet(tileLoads') /\ OnceLoaded(tileLoads') /\ going \subseteq tileLoads'
         /\ \A l \in tileLoads' : \/ l \in going
                                  \/ /\ LoadTyped(l) /\ l.tile \in Charts
                                     /\ l.mount = rangeEnd' /\ l.oldest = news
         /\ \A w \in Range(queued'), l \in tileLoads' : ~ (l.tile = w.tile /\ l.mount = w.mount)
         /\ occupied' = Cardinality({l \in tileLoads' : l.tile \in Charts})
         /\ occupied' <= LoadPlaces /\ (queued' # <<>> => occupied' = LoadPlaces)
         /\ \A w \in Range(asking) : There(w) =>
              \/ w \in Range(queued')
              \/ \E l \in tileLoads' : l.tile = w.tile /\ l.mount = rangeEnd'
<1> DEFINE alive == Selected(asking, {w \in Range(asking) : There(w)})
           free  == IF taken < LoadPlaces THEN LoadPlaces - taken ELSE 0
           n     == IF Len(alive) < free THEN Len(alive) ELSE free
           load  == [i \in 1 .. n |->
                       LoadOf(alive[i].tile, rangeEnd', ChartAsks(alive[i].tile))]
           new   == {load[i] : i \in 1 .. n}
<1>1. /\ queued' = SubSeq(alive, n + 1, Len(alive)) /\ tileLoads' = going \cup new
      /\ occupied' = taken + n
  BY DEF StartNext
<1>2. /\ alive \in Seq(TileEntry) /\ IsInjective(alive)
      /\ \A x : x \in Range(alive) <=> x \in Range(asking) /\ There(x)
  <2>1. \A S : /\ Selected(asking, S) \in Seq(TileEntry) /\ IsInjective(Selected(asking, S))
               /\ \A x : x \in Range(Selected(asking, S)) <=> x \in Range(asking) /\ x \in S
    BY SelectedIs
  <2> QED
    BY <2>1
<1> HIDE DEF alive
<1>3. Len(alive) \in Nat /\ DOMAIN alive = 1 .. Len(alive)
  BY <1>2, LenProperties
<1>4. /\ n \in Nat /\ n <= Len(alive) /\ taken + n <= LoadPlaces
      /\ n < Len(alive) => taken + n = LoadPlaces
  BY <1>3, TilesAssumptions
<1> HIDE DEF n
<1>5. \A i \in 1 .. Len(alive) :
        /\ alive[i] \in Range(alive) /\ alive[i] \in Range(asking) /\ There(alive[i])
        /\ alive[i] \in TileEntry /\ alive[i].mount = rangeEnd' /\ alive[i].tile \in Charts
  <2> SUFFICES ASSUME NEW i \in 1 .. Len(alive)
               PROVE  /\ alive[i] \in Range(alive) /\ alive[i] \in Range(asking)
                      /\ There(alive[i]) /\ alive[i] \in TileEntry
                      /\ alive[i].mount = rangeEnd' /\ alive[i].tile \in Charts
    OBVIOUS
  <2>1. alive[i] \in Range(alive)
    BY <1>3 DEF Range
  <2>2. alive[i] \in Range(asking) /\ There(alive[i])
    BY <1>2, <2>1
  <2>3. alive[i] \in TileEntry
    BY <1>2, ElementOfSeq
  <2> QED
    BY <2>1, <2>2, <2>3 DEF There, TileEntry
<1>6. \A i, j \in 1 .. Len(alive) : alive[i].tile = alive[j].tile => i = j
  <2> SUFFICES ASSUME NEW i \in 1 .. Len(alive), NEW j \in 1 .. Len(alive),
                      alive[i].tile = alive[j].tile
               PROVE  i = j
    OBVIOUS
  <2>1. \A e, f \in TileEntry : e.tile = f.tile /\ e.mount = f.mount => e = f
    BY DEF TileEntry
  <2>2. alive[i] = alive[j]
    BY ONLY <1>5, <2>1, alive[i].tile = alive[j].tile,
            i \in 1 .. Len(alive), j \in 1 .. Len(alive)
  <2> QED
    BY <1>2, <1>3, <2>2 DEF IsInjective
<1>7. \A i \in 1 .. n : /\ i \in 1 .. Len(alive)
                        /\ load[i] = [tile |-> alive[i].tile, mount |-> rangeEnd',
                                      asks |-> ChartAsks(alive[i].tile), oldest |-> news]
  BY <1>3, <1>4 DEF LoadOf
<1>8. \A i \in 1 .. n : /\ load[i].tile = alive[i].tile /\ load[i].mount = rangeEnd'
                        /\ load[i].oldest = news /\ load[i].tile \in Charts
                        /\ LoadTyped(load[i])
  <2> SUFFICES ASSUME NEW i \in 1 .. n
               PROVE  /\ load[i].tile = alive[i].tile /\ load[i].mount = rangeEnd'
                      /\ load[i].oldest = news /\ load[i].tile \in Charts
                      /\ LoadTyped(load[i])
    OBVIOUS
  <2>1. alive[i].tile \in Charts
    BY <1>5, <1>7
  <2> DEFINE needs == ChartAsks(alive[i].tile)
  <2>2. load[i] = [tile |-> alive[i].tile, mount |-> rangeEnd', asks |-> needs,
                   oldest |-> news]
    BY <1>7
  <2> HIDE DEF load, needs
  <2>3. /\ load[i].tile = alive[i].tile /\ load[i].mount = rangeEnd'
        /\ load[i].asks = needs /\ load[i].oldest = news
    BY <2>2
  <2> QED
    BY <2>1, <2>2, <2>3 DEF LoadTyped
<1>9. load = [i \in 1 .. n |-> load[i]]
  OBVIOUS
<1>10. \A i, j \in 1 .. n : load[i] = load[j] => i = j
  <2> SUFFICES ASSUME NEW i \in 1 .. n, NEW j \in 1 .. n, load[i] = load[j] PROVE i = j
    OBVIOUS
  <2> HIDE DEF load
  <2>1. alive[i].tile = alive[j].tile
    BY <1>8
  <2>2. i \in 1 .. Len(alive) /\ j \in 1 .. Len(alive)
    BY <1>3, <1>4
  <2> QED
    BY <1>6, <2>1, <2>2
<1> HIDE DEF load
<1>11. IsFiniteSet(new) /\ Cardinality(new) = n
  BY ONLY <1>4, <1>9, <1>10, LoadsCounted
<1>12. \A l \in new : \E i \in 1 .. n : l = load[i]
  OBVIOUS
<1> HIDE DEF new
<1>13. \A l \in new, m \in going : ~ (l.tile = m.tile /\ l.mount = m.mount)
  <2> SUFFICES ASSUME NEW l \in new, NEW m \in going, l.tile = m.tile, l.mount = m.mount
               PROVE  FALSE
    OBVIOUS
  <2>1. PICK i \in 1 .. n : l = load[i]
    BY <1>12
  <2>2. m.tile = alive[i].tile /\ m.mount = alive[i].mount
    BY <1>5, <1>7, <1>8, <2>1
  <2> QED
    BY <1>5, <1>7, <2>2
<1>14. OnceLoaded(tileLoads')
  <2> SUFFICES ASSUME NEW l \in tileLoads', NEW m \in tileLoads', l.tile = m.tile,
                      l.mount = m.mount
               PROVE  l = m
    BY DEF OnceLoaded
  <2>1. CASE l \in new /\ m \in new
    <3>1. PICK i \in 1 .. n : l = load[i]
      BY <1>12, <2>1
    <3>2. PICK j \in 1 .. n : m = load[j]
      BY <1>12, <2>1
    <3> QED
      BY <1>6, <1>7, <1>8, <3>1, <3>2
  <2>2. CASE l \in going /\ m \in going
    BY <2>2 DEF OnceLoaded
  <2> QED
    BY <1>1, <1>13, <2>1, <2>2
<1>15. \A l \in new : /\ LoadTyped(l) /\ l.tile \in Charts
                      /\ l.mount = rangeEnd' /\ l.oldest = news
  BY <1>8, <1>12
<1>16. occupied' = Cardinality({l \in tileLoads' : l.tile \in Charts})
  <2> DEFINE S == {l \in going : l.tile \in Charts}
  <2>1. {l \in tileLoads' : l.tile \in Charts} = S \cup new
    BY <1>1, <1>15
  <2>2. IsFiniteSet(S)
    BY FS_Subset
  <2>3. S \cap new = {}
    BY <1>13
  <2>4. Cardinality(S \cap new) = 0
    BY <2>3, FS_EmptySet
  <2>6. Cardinality(S) = taken
    OBVIOUS
  <2> HIDE DEF S
  <2>5. Cardinality(S \cup new) = Cardinality(S) + Cardinality(new) - Cardinality(S \cap new)
    BY <1>11, <2>2, FS_Union
  <2> QED
    <3>1. taken \in Nat /\ n \in Nat /\ occupied' = taken + n
      BY <1>1, <1>4
    <3>2. Cardinality(S \cup new) = taken + n
      BY <1>11, <2>4, <2>5, <2>6, <3>1
    <3> QED
      BY <2>1, <3>1, <3>2
<1>17. IsFiniteSet(tileLoads')
  BY <1>1, <1>11, FS_Union
<1>18. /\ queued' \in Seq(TileEntry) /\ Len(queued') = Len(alive) - n
       /\ \A i \in 1 .. Len(alive) - n : queued'[i] = alive[n + i]
  <2> DEFINE a == n + 1
             b == Len(alive)
  <2>1. a \in Int /\ b \in Int /\ \A i \in a .. b : alive[i] \in TileEntry
    BY <1>3, <1>4, <1>5
  <2>2. /\ SubSeq(alive, a, b) \in Seq(TileEntry)
        /\ Len(SubSeq(alive, a, b)) = IF a <= b THEN b - a + 1 ELSE 0
        /\ \A i \in 1 .. b - a + 1 : SubSeq(alive, a, b)[i] = alive[a + i - 1]
    <3> HIDE DEF a, b
    <3> QED
      BY <2>1, SubSeqProperties
  <2>3. \A i \in 1 .. Len(alive) - n : i \in 1 .. b - a + 1 /\ a + i - 1 = n + i
    BY <1>3, <1>4
  <2>c. n \in Nat /\ Len(alive) \in Nat /\ n <= Len(alive)
    BY <1>3, <1>4
  <2>4. (IF a <= b THEN b - a + 1 ELSE 0) = Len(alive) - n
    BY <2>c
  <2>5. queued' = SubSeq(alive, a, b)
    BY <1>1
  <2> HIDE DEF a, b
  <2>6. \A i \in 1 .. Len(alive) - n : queued'[i] = alive[n + i]
    BY <2>2, <2>3, <2>5
  <2> QED
    BY <2>2, <2>4, <2>5, <2>6
<1>19. DOMAIN queued' = 1 .. Len(alive) - n
  BY <1>18, LenProperties
<1>20. \A i \in 1 .. Len(alive) - n : n + i \in 1 .. Len(alive) /\ n + i \notin 1 .. n
  BY <1>3, <1>4
<1>21. IsInjective(queued')
  <2> SUFFICES ASSUME NEW i \in DOMAIN queued', NEW j \in DOMAIN queued',
                      queued'[i] = queued'[j]
               PROVE  i = j
    BY DEF IsInjective
  <2>1. alive[n + i] = alive[n + j] /\ n + i \in 1 .. Len(alive) /\ n + j \in 1 .. Len(alive)
    BY <1>18, <1>19, <1>20
  <2>2. n + i = n + j
    BY <1>6, <2>1
  <2> QED
    BY <1>4, <1>19, <2>2
<1>22. \A w \in Range(queued') : \E i \in 1 .. Len(alive) : i \notin 1 .. n /\ w = alive[i]
  BY <1>18, <1>19, <1>20 DEF Range
<1>23. \A w \in Range(queued') : w \in Range(asking) /\ There(w)
  BY <1>5, <1>22
<1>24. \A w \in Range(queued'), l \in tileLoads' : ~ (l.tile = w.tile /\ l.mount = w.mount)
  <2> SUFFICES ASSUME NEW w \in Range(queued'), NEW l \in tileLoads', l.tile = w.tile,
                      l.mount = w.mount
               PROVE  FALSE
    OBVIOUS
  <2>1. PICK i \in 1 .. Len(alive) : i \notin 1 .. n /\ w = alive[i]
    BY <1>22
  <2>2. l \notin going
    BY <1>5, <2>1
  <2>3. l \in new
    BY <1>1, <2>2
  <2>4. PICK j \in 1 .. n : l = load[j]
    BY <1>12, <2>3
  <2>5. alive[i].tile = alive[j].tile /\ j \in 1 .. Len(alive)
    BY <1>7, <1>8, <2>1, <2>4
  <2>6. i = j
    BY <1>6, <2>5
  <2> QED
    BY <2>1, <2>6
<1>25. ASSUME NEW w \in Range(asking), There(w)
       PROVE  \/ w \in Range(queued')
              \/ \E l \in tileLoads' : l.tile = w.tile /\ l.mount = rangeEnd'
  <2>1. PICK i \in 1 .. Len(alive) : w = alive[i]
    <3>1. w \in Range(alive)
      BY <1>2, <1>25
    <3> QED
      BY <1>3, <3>1 DEF Range
  <2>2. CASE i \in 1 .. n
    <3>1. load[i] \in tileLoads'
      BY <1>1, <2>2 DEF new
    <3> QED
      BY <1>8, <2>1, <2>2, <3>1
  <2>3. CASE i \notin 1 .. n
    <3>1. i - n \in 1 .. Len(alive) - n /\ n + (i - n) = i
      BY <1>3, <1>4, <2>3
    <3>2. queued'[i - n] = w
      BY <1>18, <2>1, <3>1
    <3> QED
      BY <1>19, <3>1, <3>2 DEF Range
  <2> QED
    BY <2>2, <2>3
<1>26. queued' # <<>> => occupied' = LoadPlaces
  <2> SUFFICES ASSUME queued' # <<>> PROVE occupied' = LoadPlaces
    OBVIOUS
  <2>1. Len(queued') # 0
    BY <1>18, EmptySeq
  <2>3. Len(alive) - n # 0
    BY <1>18, <2>1
  <2>4. n \in Nat /\ Len(alive) \in Nat /\ n <= Len(alive)
    BY <1>3, <1>4
  <2>2. n < Len(alive)
    BY <2>3, <2>4
  <2> QED
    BY <1>1, <1>4, <2>2
<1>27. occupied' <= LoadPlaces
  BY <1>1, <1>4
<1>28. \A l \in tileLoads' : \/ l \in going
                             \/ /\ LoadTyped(l) /\ l.tile \in Charts
                                /\ l.mount = rangeEnd' /\ l.oldest = news
  BY <1>1, <1>15
<1>29. going \subseteq tileLoads'
  BY <1>1
<1> QED
  BY <1>14, <1>16, <1>17, <1>18, <1>21, <1>23, <1>24, <1>25, <1>26, <1>27, <1>28, <1>29

-----------------------------------------------------------------------------
(* The steps. *)

LEMMA TilesInitInv == TilesInit => TilesInv
<1> SUFFICES ASSUME TilesInit PROVE TilesInv
  OBVIOUS
<1>1. IsFiniteSet(tileLoads) /\ queued \in Seq(TileEntry) /\ DOMAIN queued = {}
  BY FS_EmptySet, EmptySeq DEF TilesInit
<1>2. TilesTyped
  BY <1>1 DEF TilesInit, TilesTyped, IsInjective
<1>3. LoadsApart
  BY <1>1 DEF TilesInit, LoadsApart, OnceLoaded, Waiting, Range
<1>4. PlacesCounted
  <2>1. Served = {}
    BY DEF TilesInit, Served
  <2>2. 0 <= LoadPlaces
    BY TilesAssumptions
  <2> QED
    BY <2>1, <2>2, FS_EmptySet DEF TilesInit, PlacesCounted
<1>5. PageServed
  BY DEF TilesInit, PageServed
<1> QED
  BY <1>2, <1>3, <1>4, <1>5 DEF TilesInv

LEMMA NewsStep ==
  ASSUME TilesInv, News \/ UNCHANGED tilesVars
  PROVE  TilesInv'
<1>1. /\ UNCHANGED <<board, rangeEnd, queued, tileLoads, occupied, tiles, since>>
      /\ news' \in Nat /\ since <= news'
  BY DEF News, tilesVars, TilesInv, TilesTyped
<1>2. TilesTyped'
  BY <1>1 DEF TilesInv, TilesTyped, LoadTyped
<1>3. LoadsApart'
  BY <1>1 DEF TilesInv, LoadsApart, OnceLoaded, Waiting
<1>4. PlacesCounted'
  BY <1>1 DEF TilesInv, PlacesCounted, Served
<1>5. PageServed'
  BY <1>1 DEF TilesInv, PageServed, Waiting, Loads
<1> QED
  BY <1>2, <1>3, <1>4, <1>5 DEF TilesInv

\* The places without one load, and with it again.
LEMMA PlaceFreed ==
  ASSUME TilesInv, NEW l \in tileLoads, l.tile \in Charts,
         NEW S, S = {m \in tileLoads \ {l} : m.tile \in Charts}
  PROVE  /\ IsFiniteSet(S) /\ Cardinality(S) = occupied - 1
         /\ occupied \in Nat /\ occupied - 1 \in Nat /\ S = Served \ {l} /\ l \in Served
<1>1. IsFiniteSet(Served)
  BY FS_Subset DEF Served, TilesInv, TilesTyped
<1>2. l \in Served /\ S = Served \ {l}
  BY DEF Served
<1>3. IsFiniteSet(S) /\ Cardinality(S) = Cardinality(Served) - 1
  BY <1>1, <1>2, FS_RemoveElement
<1>4. Cardinality(S) \in Nat /\ Cardinality(Served) \in Nat
  BY <1>1, <1>3, FS_CardinalityType
<1>5. occupied = Cardinality(Served)
  BY DEF TilesInv, PlacesCounted
<1> QED
  BY <1>2, <1>3, <1>4, <1>5

\* What a tile shows when a load of it has ended.
LEMMA TileShows ==
  ASSUME TilesInv, NEW l \in tileLoads, NEW shows \in {l.oldest, Broken},
         tiles' = IF Mounted(l) /\ ~ (l.tile \in Tables /\ tiles[l.tile] # Blank)
                  THEN [tiles EXCEPT ![l.tile] = shows] ELSE tiles
  PROVE  /\ DOMAIN tiles' = Charts \cup Tables
         /\ \A t \in Charts : \/ tiles'[t] = tiles[t] /\ ~ (t = l.tile /\ Mounted(l))
                              \/ /\ t = l.tile /\ l.mount = rangeEnd /\ tiles'[t] # Blank
                                 /\ tiles'[t] # Broken => tiles'[t] >= since
<1>1. DOMAIN tiles = Charts \cup Tables /\ l.oldest \in Nat /\ l.tile \in Charts \cup Tables
  BY DEF TilesInv, TilesTyped, LoadTyped
<1>2. shows # Blank
  BY <1>1 DEF Blank, Broken
<1>3. l.mount = rangeEnd => l.oldest >= since
  BY DEF TilesInv, LoadsApart
<1>4. \A t \in Charts : t \notin Tables
  BY TilesAssumptions
<1>5. l.tile \in Charts /\ Mounted(l) => l.mount = rangeEnd
  BY DEF Mounted
<1>6. DOMAIN tiles' = Charts \cup Tables
  BY <1>1
<1>7. ASSUME NEW t \in Charts
      PROVE  \/ tiles'[t] = tiles[t] /\ ~ (t = l.tile /\ Mounted(l))
             \/ /\ t = l.tile /\ l.mount = rangeEnd /\ tiles'[t] # Blank
                /\ tiles'[t] # Broken => tiles'[t] >= since
  <2>1. CASE t = l.tile /\ Mounted(l)
    <3>1. tiles' = [tiles EXCEPT ![l.tile] = shows]
      BY <1>4, <2>1
    <3>2. tiles'[t] = shows
      BY <1>1, <2>1, <3>1
    <3> QED
      BY <1>2, <1>3, <1>5, <2>1, <3>2
  <2>2. CASE ~ (t = l.tile /\ Mounted(l))
    <3>1. tiles'[t] = tiles[t]
      BY <1>1, <2>2
    <3> QED
      BY <2>2, <3>1
  <2> QED
    BY <2>1, <2>2
<1> QED
  BY <1>6, <1>7

LEMMA ChartLoadEnds ==
  ASSUME TilesInv, NEW l \in tileLoads, NEW shows \in {l.oldest, Broken}, l.tile \in Charts,
         LoadEnds(l, shows), UNCHANGED <<news, since>>
  PROVE  TilesInv'
<1> DEFINE going == tileLoads \ {l}
           S == {m \in going : m.tile \in Charts}
<1>1. /\ UNCHANGED <<board, rangeEnd>> /\ StartNext(queued, going, occupied - 1)
      /\ tiles' = IF Mounted(l) /\ ~ (l.tile \in Tables /\ tiles[l.tile] # Blank)
                  THEN [tiles EXCEPT ![l.tile] = shows] ELSE tiles
  BY DEF LoadEnds
<1>2. /\ rangeEnd \in Nat /\ news \in Nat /\ since \in Nat /\ since <= news
      /\ queued \in Seq(TileEntry) /\ IsInjective(queued)
      /\ IsFiniteSet(tileLoads) /\ \A m \in tileLoads : LoadTyped(m)
      /\ board \in DOMAIN Boards \cup {0}
  BY DEF TilesInv, TilesTyped
<1>3. /\ OnceLoaded(tileLoads)
      /\ \A m \in tileLoads : m.mount <= rangeEnd /\ (m.mount = rangeEnd => m.oldest >= since)
      /\ \A w \in Range(queued) : w.mount = rangeEnd /\ w.tile \in Range(Boards[board])
      /\ \A w \in Range(queued), m \in tileLoads : ~ (m.tile = w.tile /\ m.mount = w.mount)
  BY DEF TilesInv, LoadsApart, Waiting
<1>4. /\ occupied - 1 \in Nat /\ occupied - 1 = Cardinality(S) /\ occupied - 1 <= LoadPlaces
  <2>1. Cardinality(S) = occupied - 1 /\ occupied \in Nat /\ occupied - 1 \in Nat
    BY PlaceFreed
  <2>2. occupied <= LoadPlaces /\ LoadPlaces \in Nat
    BY TilesAssumptions DEF TilesInv, PlacesCounted
  <2> QED
    BY <2>1, <2>2
<1>5. IsFiniteSet(going) /\ OnceLoaded(going)
  BY <1>2, <1>3, FS_Subset DEF OnceLoaded
<1>6. \A w \in Range(queued) : There(w)
  BY <1>1, <1>3 DEF There
<1>7. /\ queued' \in Seq(TileEntry) /\ IsInjective(queued')
      /\ \A w \in Range(queued') : w \in Range(queued) /\ There(w)
      /\ IsFiniteSet(tileLoads') /\ OnceLoaded(tileLoads') /\ going \subseteq tileLoads'
      /\ \A m \in tileLoads' : \/ m \in going
                               \/ /\ LoadTyped(m) /\ m.tile \in Charts
                                  /\ m.mount = rangeEnd' /\ m.oldest = news
      /\ \A w \in Range(queued'), m \in tileLoads' : ~ (m.tile = w.tile /\ m.mount = w.mount)
      /\ occupied' = Cardinality({m \in tileLoads' : m.tile \in Charts})
      /\ occupied' <= LoadPlaces /\ (queued' # <<>> => occupied' = LoadPlaces)
      /\ \A w \in Range(queued) : There(w) =>
           \/ w \in Range(queued')
           \/ \E m \in tileLoads' : m.tile = w.tile /\ m.mount = rangeEnd'
  <2> DEFINE taken == occupied - 1
             wait == queued
  <2>1. /\ wait \in Seq(TileEntry) /\ IsInjective(wait) /\ taken \in Nat
        /\ taken = Cardinality({m \in going : m.tile \in Charts}) /\ taken <= LoadPlaces
        /\ rangeEnd' \in Nat
        /\ \A w \in Range(wait), m \in going :
             There(w) => ~ (m.tile = w.tile /\ m.mount = w.mount)
        /\ StartNext(wait, going, taken)
    BY <1>1, <1>2, <1>3, <1>4
  <2> HIDE DEF taken, going
  <2> QED
    BY <1>2, <1>5, <2>1, StartsNext
<1>8. /\ DOMAIN tiles' = Charts \cup Tables
      /\ \A t \in Charts : \/ tiles'[t] = tiles[t] /\ ~ (t = l.tile /\ Mounted(l))
                           \/ /\ t = l.tile /\ l.mount = rangeEnd /\ tiles'[t] # Blank
                              /\ tiles'[t] # Broken => tiles'[t] >= since
  BY <1>1, TileShows
<1>9. TilesTyped'
  BY <1>1, <1>2, <1>7, <1>8 DEF TilesTyped, LoadTyped
<1>10. LoadsApart'
  <2>1. \A m \in tileLoads' :
          m.mount <= rangeEnd' /\ (m.mount = rangeEnd' => m.oldest >= since')
    BY <1>1, <1>2, <1>3, <1>7
  <2>2. \A w \in Range(queued') : w.mount = rangeEnd' /\ w.tile \in Range(Boards[board'])
    BY <1>7 DEF There
  <2>3. OnceLoaded(tileLoads)'
    BY <1>7 DEF OnceLoaded
  <2> QED
    BY <1>7, <2>1, <2>2, <2>3 DEF LoadsApart, Waiting
<1>11. PlacesCounted'
  BY <1>7 DEF PlacesCounted, Served
<1>12. PageServed'
  <2>1. ASSUME board' # 0, NEW t \in Charts \cap Range(Boards[board']), tiles'[t] = Blank
        PROVE  (\E w \in Range(queued') : w.tile = t)
                 \/ \E m \in tileLoads' : m.tile = t /\ m.mount = rangeEnd'
    <3>1. tiles[t] = Blank /\ ~ (t = l.tile /\ Mounted(l))
      BY <1>8, <2>1
    <3>2. (\E w \in Range(queued) : w.tile = t) \/ Loads(t)
      BY <1>1, <2>1, <3>1 DEF TilesInv, PageServed, Waiting
    <3>3. CASE \E w \in Range(queued) : w.tile = t
      BY <1>6, <1>7, <3>3
    <3>4. CASE Loads(t)
      <4>1. PICK m \in tileLoads : m.tile = t /\ m.mount = rangeEnd
        BY <3>4 DEF Loads
      <4>2. m # l
        BY <1>1, <2>1, <3>1, <4>1 DEF Mounted
      <4> QED
        BY <1>1, <1>7, <4>1, <4>2
    <3> QED
      BY <3>2, <3>3, <3>4
  <2>2. \A t \in Charts : tiles'[t] \notin {Blank, Broken} => tiles'[t] >= since'
    BY <1>8 DEF TilesInv, PageServed
  <2> QED
    BY <2>1, <2>2 DEF PageServed, Waiting, Loads
<1> QED
  BY <1>9, <1>10, <1>11, <1>12 DEF TilesInv

LEMMA TableLoadEnds ==
  ASSUME TilesInv, NEW l \in tileLoads, NEW shows \in {l.oldest, Broken}, l.tile \notin Charts,
         LoadEnds(l, shows), UNCHANGED <<news, since>>
  PROVE  TilesInv'
<1>1. /\ UNCHANGED <<board, rangeEnd, queued, occupied>> /\ tileLoads' = tileLoads \ {l}
      /\ tiles' = IF Mounted(l) /\ ~ (l.tile \in Tables /\ tiles[l.tile] # Blank)
                  THEN [tiles EXCEPT ![l.tile] = shows] ELSE tiles
  BY DEF LoadEnds
<1>2. /\ DOMAIN tiles' = Charts \cup Tables
      /\ \A t \in Charts : tiles'[t] = tiles[t]
  BY <1>1, TileShows
<1>3. TilesTyped'
  <2>1. IsFiniteSet(tileLoads')
    BY <1>1, FS_Subset DEF TilesInv, TilesTyped
  <2> QED
    BY <1>1, <1>2, <2>1 DEF TilesInv, TilesTyped, LoadTyped
<1>4. LoadsApart'
  BY <1>1 DEF TilesInv, LoadsApart, OnceLoaded, Waiting
<1>5. PlacesCounted'
  <2>1. Served' = Served
    BY <1>1 DEF Served
  <2> QED
    BY <1>1, <2>1 DEF TilesInv, PlacesCounted
<1>6. PageServed'
  BY <1>1, <1>2 DEF TilesInv, PageServed, Waiting, Loads
<1> QED
  BY <1>3, <1>4, <1>5, <1>6 DEF TilesInv

\* One answer of several: the load goes on.
LEMMA LoadGoesOn ==
  ASSUME TilesInv, NEW l \in tileLoads, NEW ask \in l.asks,
         tileLoads' = (tileLoads \ {l}) \cup {[l EXCEPT !.asks = @ \ {ask}]},
         UNCHANGED <<board, rangeEnd, queued, occupied, tiles, news, since>>
  PROVE  TilesInv'
<1> DEFINE k == [l EXCEPT !.asks = @ \ {ask}]
<1>1. LoadTyped(l)
  BY DEF TilesInv, TilesTyped
<1>2. /\ k = [tile |-> l.tile, mount |-> l.mount, asks |-> l.asks \ {ask}, oldest |-> l.oldest]
      /\ k.tile = l.tile /\ k.mount = l.mount /\ k.oldest = l.oldest
  <2>1. PICK a, b, c, d : l = [tile |-> a, mount |-> b, asks |-> c, oldest |-> d]
    BY <1>1 DEF LoadTyped
  <2>2. l.tile = a /\ l.mount = b /\ l.asks = c /\ l.oldest = d
    BY <2>1
  <2>3. k = [tile |-> a, mount |-> b, asks |-> c \ {ask}, oldest |-> d]
    BY <2>1
  <2>4. k.tile = a /\ k.mount = b /\ k.oldest = d
    BY <2>3
  <2> HIDE DEF k
  <2> QED
    BY <2>2, <2>3, <2>4
<1>3. tileLoads' = (tileLoads \ {l}) \cup {k}
  OBVIOUS
<1> HIDE DEF k
<1>4. LoadTyped(k)
  BY <1>1, <1>2 DEF LoadTyped
<1>5. k \notin tileLoads \ {l}
  BY <1>2 DEF TilesInv, LoadsApart, OnceLoaded
<1>6. IsFiniteSet(tileLoads')
  <2>1. IsFiniteSet(tileLoads \ {l})
    BY FS_RemoveElement DEF TilesInv, TilesTyped
  <2> DEFINE S == tileLoads \ {l}
  <2>2. IsFiniteSet(S) /\ tileLoads' = S \cup {k}
    BY <1>3, <2>1
  <2> HIDE DEF S
  <2> QED
    BY <2>2, FS_AddElement
<1>7. TilesTyped'
  BY <1>3, <1>4, <1>6 DEF TilesInv, TilesTyped, LoadTyped
<1>8. LoadsApart'
  <2>1. \A m \in tileLoads' : \E n \in tileLoads :
          /\ m.tile = n.tile /\ m.mount = n.mount /\ m.oldest = n.oldest
          /\ m = n \/ (n = l /\ m = k)
    BY <1>2, <1>3
  <2>2. OnceLoaded(tileLoads)'
    BY <1>3, <2>1 DEF TilesInv, LoadsApart, OnceLoaded
  <2> QED
    BY <2>1, <2>2 DEF TilesInv, LoadsApart, Waiting
<1>9. PlacesCounted'
  <2>1. CASE l.tile \notin Charts
    <3>1. Served' = Served
      BY <1>2, <1>3, <2>1 DEF Served
    <3> QED
      BY <3>1 DEF TilesInv, PlacesCounted
  <2>2. CASE l.tile \in Charts
    <3> DEFINE S == {m \in tileLoads \ {l} : m.tile \in Charts}
    <3>1. IsFiniteSet(S) /\ Cardinality(S) = occupied - 1 /\ occupied \in Nat
      BY <2>2, PlaceFreed
    <3>2. Served' = S \cup {k} /\ k \notin S
      BY <1>2, <1>3, <1>5, <2>2 DEF Served
    <3> HIDE DEF S
    <3>3. Cardinality(S \cup {k}) = Cardinality(S) + 1
      BY <3>1, <3>2, FS_AddElement
    <3>4. Cardinality(Served') = occupied
      BY <3>1, <3>2, <3>3
    <3> QED
      BY <3>4 DEF TilesInv, PlacesCounted
  <2> QED
    BY <2>1, <2>2
<1>10. PageServed'
  <2>1. \A t : Loads(t) => Loads(t)'
    BY <1>2, <1>3 DEF Loads
  <2> QED
    BY <2>1 DEF TilesInv, PageServed, Waiting
<1> QED
  BY <1>7, <1>8, <1>9, <1>10 DEF TilesInv

LEMMA LoadStep ==
  ASSUME TilesInv, NEW l \in tileLoads, RequestAnswered(l) \/ TileRequestFails(l)
  PROVE  TilesInv'
<1>1. CASE RequestAnswered(l)
  <2>1. PICK ask \in l.asks :
          /\ IF l.asks = {ask} THEN LoadEnds(l, l.oldest)
             ELSE /\ tileLoads' = (tileLoads \ {l}) \cup {[l EXCEPT !.asks = @ \ {ask}]}
                  /\ UNCHANGED <<board, rangeEnd, queued, occupied, tiles>>
          /\ UNCHANGED <<news, since, failing>>
    BY <1>1 DEF RequestAnswered
  <2>2. CASE l.asks = {ask}
    <3>1. LoadEnds(l, l.oldest) /\ UNCHANGED <<news, since>>
      BY <2>1, <2>2
    <3> DEFINE shows == l.oldest
    <3>2. shows \in {l.oldest, Broken} /\ LoadEnds(l, shows)
      BY <3>1
    <3> HIDE DEF shows
    <3> QED
      BY <3>1, <3>2, ChartLoadEnds, TableLoadEnds
  <2>3. CASE l.asks # {ask}
    BY <2>1, <2>3, LoadGoesOn
  <2> QED
    BY <2>2, <2>3
<1>2. CASE TileRequestFails(l)
  <2> DEFINE shows == Broken
  <2>1. shows \in {l.oldest, Broken} /\ LoadEnds(l, shows) /\ UNCHANGED <<news, since>>
    BY <1>2 DEF TileRequestFails, TileFails
  <2> HIDE DEF shows
  <2> QED
    BY <2>1, ChartLoadEnds, TableLoadEnds
<1> QED
  BY <1>1, <1>2

\* The charts of a dashboard, in the order of its tiles.
LEMMA ChartsInOrder ==
  ASSUME NEW b \in DOMAIN Boards
  PROVE  /\ ChartsOf(b) \in Seq(Charts) /\ IsInjective(ChartsOf(b))
         /\ Range(ChartsOf(b)) = Charts \cap Range(Boards[b])
<1> DEFINE s == Boards[b]
           q == ChartsOf(b)
<1>1. s \in Seq(Charts \cup Tables) /\ IsInjective(s)
  BY TilesAssumptions
<1>2. \A S : /\ Selected(s, S) \in Seq(Charts \cup Tables) /\ IsInjective(Selected(s, S))
             /\ \A x : x \in Range(Selected(s, S)) <=> x \in Range(s) /\ x \in S
  <2> HIDE DEF s
  <2> QED
    BY <1>1, SelectedIs
<1>3. /\ q \in Seq(Charts \cup Tables) /\ IsInjective(q)
      /\ \A x : x \in Range(q) <=> x \in Range(s) /\ x \in Charts
  BY <1>2 DEF ChartsOf
<1> HIDE DEF s, q
<1>4. DOMAIN q = 1 .. Len(q) /\ Len(q) \in Nat
  BY <1>3, LenProperties
<1>5. \A i \in 1 .. Len(q) : q[i] \in Charts
  BY <1>3, <1>4 DEF Range
<1>6. q \in Seq(Charts)
  BY <1>3, <1>4, <1>5, LenProperties, SeqDef
<1>7. Range(q) = Charts \cap Range(s)
  BY <1>3
<1> QED
  BY <1>3, <1>6, <1>7 DEF s, q

\* One sequence after another that has nothing of it.
LEMMA ConcatOnce ==
  ASSUME NEW X, NEW s \in Seq(X), NEW t \in Seq(X), IsInjective(s), IsInjective(t),
         Range(s) \cap Range(t) = {}
  PROVE  /\ s \o t \in Seq(X) /\ IsInjective(s \o t)
         /\ Range(s \o t) = Range(s) \cup Range(t)
<1> DEFINE m == Len(s)
           n == Len(t)
           j == s \o t
<1>1. /\ m \in Nat /\ n \in Nat /\ DOMAIN s = 1 .. m /\ DOMAIN t = 1 .. n
  BY LenProperties
<1>2. /\ j \in Seq(X) /\ Len(j) = m + n
      /\ \A i \in 1 .. m + n : j[i] = IF i <= m THEN s[i] ELSE t[i - m]
  BY ConcatProperties
<1>3. DOMAIN j = 1 .. m + n
  BY <1>2, LenProperties
<1> HIDE DEF m, n, j
<1>4. \A i \in 1 .. m + n : \/ /\ i \in DOMAIN s /\ j[i] = s[i] /\ s[i] \in Range(s)
                             \/ /\ i - m \in DOMAIN t /\ j[i] = t[i - m]
                                /\ t[i - m] \in Range(t)
  <2> SUFFICES ASSUME NEW i \in 1 .. m + n
               PROVE  \/ /\ i \in DOMAIN s /\ j[i] = s[i] /\ s[i] \in Range(s)
                      \/ /\ i - m \in DOMAIN t /\ j[i] = t[i - m] /\ t[i - m] \in Range(t)
    OBVIOUS
  <2>1. CASE i <= m
    <3>1. i \in DOMAIN s /\ j[i] = s[i]
      BY <1>1, <1>2, <2>1
    <3> QED
      BY <3>1 DEF Range
  <2>2. CASE ~ (i <= m)
    <3>1. j[i] = t[i - m]
      BY <1>2, <2>2
    <3>2. i - m \in DOMAIN t
      BY <1>1, <2>2
    <3> QED
      BY <3>1, <3>2 DEF Range
  <2> QED
    BY <2>1, <2>2
<1>5. ASSUME NEW i \in 1 .. m + n, NEW k \in 1 .. m + n, j[i] = j[k] PROVE i = k
  <2>1. CASE i \in DOMAIN s /\ j[i] = s[i] /\ s[i] \in Range(s)
    <3>1. k \in DOMAIN s /\ j[k] = s[k]
      BY <1>4, <1>5, <2>1
    <3> QED
      BY <1>5, <2>1, <3>1 DEF IsInjective
  <2>2. CASE i - m \in DOMAIN t /\ j[i] = t[i - m] /\ t[i - m] \in Range(t)
    <3>1. k - m \in DOMAIN t /\ j[k] = t[k - m]
      BY <1>4, <1>5, <2>2
    <3>2. t[i - m] = t[k - m]
      BY <1>5, <2>2, <3>1
    <3>3. i - m = k - m
      BY <2>2, <3>1, <3>2 DEF IsInjective
    <3> QED
      BY <1>1, <3>3
  <2> QED
    BY <1>4, <2>1, <2>2
<1>6. IsInjective(j)
  BY <1>3, <1>5 DEF IsInjective
<1>7. Range(j) \subseteq Range(s) \cup Range(t)
  <2> SUFFICES ASSUME NEW i \in 1 .. m + n PROVE j[i] \in Range(s) \cup Range(t)
    BY <1>3 DEF Range
  <2> QED
    BY <1>4
<1>8. Range(s) \subseteq Range(j)
  <2> SUFFICES ASSUME NEW i \in 1 .. m PROVE s[i] \in Range(j)
    BY <1>1 DEF Range
  <2>1. i \in 1 .. m + n /\ i <= m
    BY <1>1
  <2>2. j[i] = s[i]
    BY <1>2, <2>1
  <2> QED
    BY <1>3, <2>1, <2>2 DEF Range
<1>9. Range(t) \subseteq Range(j)
  <2> SUFFICES ASSUME NEW i \in 1 .. n PROVE t[i] \in Range(j)
    BY <1>1 DEF Range
  <2>1. m + i \in 1 .. m + n /\ ~ (m + i <= m) /\ (m + i) - m = i
    BY <1>1
  <2>2. j[m + i] = t[i]
    BY <1>2, <2>1
  <2> QED
    BY <1>3, <2>1, <2>2 DEF Range
<1> QED
  BY <1>2, <1>6, <1>7, <1>8, <1>9 DEF j

\* The loads of the begun of a dashboard that is mounted.
LEMMA TablesMounted ==
  ASSUME NEW b \in DOMAIN Boards, rangeEnd' \in Nat, news \in Nat
  PROVE  /\ IsFiniteSet(MountTables(b))
         /\ \A l \in MountTables(b) : /\ LoadTyped(l) /\ l.tile \in Tables
                                      /\ l.mount = rangeEnd' /\ l.oldest = news
         /\ OnceLoaded(MountTables(b))
<1> DEFINE s == Boards[b]
           load == [t \in TableTiles(b) |-> LoadOf(t, rangeEnd', TableAsks(t))]
           S == {load[t] : t \in TableTiles(b)}
<1>1. IsFiniteSet(TableTiles(b))
  <2>1. s \in Seq(Charts \cup Tables)
    BY TilesAssumptions
  <2>2. DOMAIN s = 1 .. Len(s) /\ Len(s) \in Nat /\ s = [i \in DOMAIN s |-> s[i]]
    BY <2>1, LenProperties, SeqDef
  <2>3. IsFiniteSet(DOMAIN s)
    <3>1. 1 \in Int /\ Len(s) \in Int
      BY <2>2
    <3> QED
      BY <2>2, <3>1, FS_Interval
  <2>4. IsFiniteSet({s[i] : i \in DOMAIN s})
    <3> HIDE DEF s
    <3> QED
      BY <2>2, <2>3, RangeFinite
  <2>5. TableTiles(b) \subseteq {s[i] : i \in DOMAIN s}
    BY DEF TableTiles, Range
  <2> QED
    BY <2>4, <2>5, FS_Subset
<1>2. \A t \in TableTiles(b) :
        load[t] = [tile |-> t, mount |-> rangeEnd', asks |-> TableAsks(t), oldest |-> news]
  BY DEF LoadOf
<1>3. IsFiniteSet(S)
  <2>1. load = [t \in TableTiles(b) |-> load[t]]
    OBVIOUS
  <2> HIDE DEF load
  <2> QED
    BY <1>1, <2>1, RangeFinite
<1>4. MountTables(b) \subseteq S
  BY DEF MountTables
<1> HIDE DEF load
<1>5. \A t \in TableTiles(b) : /\ load[t].tile = t /\ load[t].mount = rangeEnd'
                               /\ load[t].oldest = news /\ LoadTyped(load[t])
                               /\ t \in Tables
  <2> SUFFICES ASSUME NEW t \in TableTiles(b)
               PROVE  /\ load[t].tile = t /\ load[t].mount = rangeEnd'
                      /\ load[t].oldest = news /\ LoadTyped(load[t]) /\ t \in Tables
    OBVIOUS
  <2> DEFINE needs == TableAsks(t)
  <2>1. load[t] = [tile |-> t, mount |-> rangeEnd', asks |-> needs, oldest |-> news]
    BY <1>2
  <2> HIDE DEF needs
  <2>2. /\ load[t].tile = t /\ load[t].mount = rangeEnd' /\ load[t].asks = needs
        /\ load[t].oldest = news
    BY <2>1
  <2>3. t \in Tables
    BY DEF TableTiles
  <2> QED
    BY <2>1, <2>2, <2>3 DEF LoadTyped
<1>6. \A l \in S : \E t \in TableTiles(b) : l = load[t]
  OBVIOUS
<1> HIDE DEF S
<1>7. \A l \in MountTables(b) : /\ LoadTyped(l) /\ l.tile \in Tables
                               /\ l.mount = rangeEnd' /\ l.oldest = news
  BY <1>4, <1>5, <1>6
<1>8. OnceLoaded(MountTables(b))
  BY <1>4, <1>5, <1>6 DEF OnceLoaded
<1>9. IsFiniteSet(MountTables(b))
  BY <1>3, <1>4, FS_Subset
<1> QED
  BY <1>7, <1>8, <1>9

LEMMA MountStep ==
  ASSUME TilesInv, Mount
  PROVE  TilesInv'
<1>1. PICK b \in DOMAIN Boards :
        /\ board' = b
        /\ tiles' = [t \in Charts \cup Tables |->
                       IF t \in Range(Boards[b]) /\ Stays(t, b) THEN tiles[t] ELSE Blank]
        /\ StartNext(queued \o [i \in DOMAIN ChartsOf(b) |->
                                  [tile |-> ChartsOf(b)[i], mount |-> rangeEnd']],
                     tileLoads \cup MountTables(b), occupied)
  BY DEF Mount
<1>2. rangeEnd' = rangeEnd + 1 /\ since' = news /\ news' = news
  BY DEF Mount
<1>3. /\ rangeEnd \in Nat /\ rangeEnd' \in Nat /\ news \in Nat
      /\ queued \in Seq(TileEntry) /\ IsInjective(queued)
      /\ IsFiniteSet(tileLoads) /\ \A m \in tileLoads : LoadTyped(m)
  BY <1>2 DEF TilesInv, TilesTyped
<1>4. /\ OnceLoaded(tileLoads) /\ \A m \in tileLoads : m.mount \in Nat /\ m.mount <= rangeEnd
      /\ \A w \in Range(queued) : w.mount = rangeEnd
  BY DEF TilesInv, TilesTyped, LoadTyped, LoadsApart, Waiting
<1>5. \A m \in tileLoads : m.mount # rangeEnd' /\ m.mount <= rangeEnd'
  BY <1>2, <1>3, <1>4
<1>6. \A w \in Range(queued) : w.mount # rangeEnd'
  BY <1>2, <1>3, <1>4
<1> DEFINE charts == ChartsOf(b)
           joined == queued \o [i \in DOMAIN charts |->
                                   [tile |-> charts[i], mount |-> rangeEnd']]
           begun == MountTables(b)
           going  == tileLoads \cup begun
<1>7. /\ charts \in Seq(Charts) /\ IsInjective(charts)
      /\ Range(charts) = Charts \cap Range(Boards[b])
  BY ChartsInOrder
<1>8. /\ joined \in Seq(TileEntry) /\ IsInjective(joined)
      /\ \A w \in Range(joined) : \/ w \in Range(queued)
                                  \/ w.mount = rangeEnd' /\ w.tile \in Range(charts)
      /\ \A t \in Range(charts) :
           \E w \in Range(joined) : w.tile = t /\ w.mount = rangeEnd'
  <2> DEFINE at  == rangeEnd'
             new == [i \in DOMAIN charts |-> [tile |-> charts[i], mount |-> at]]
  <2>1. at \in Nat /\ (\A w \in Range(queued) : w.mount # at) /\ at = rangeEnd'
    BY <1>3, <1>6
  <2>2. joined = queued \o new
    OBVIOUS
  <2> HIDE DEF charts, joined
  <2>3. /\ Len(charts) \in Nat /\ DOMAIN charts = 1 .. Len(charts)
        /\ \A i \in 1 .. Len(charts) : charts[i] \in Charts
    BY <1>7, LenProperties, ElementOfSeq
  <2>4. new = [i \in 1 .. Len(charts) |-> [tile |-> charts[i], mount |-> at]]
    BY <2>3
  <2> HIDE DEF at, new
  <2>5. \A i \in 1 .. Len(charts) :
          new[i].tile = charts[i] /\ new[i].mount = at /\ new[i] \in TileEntry
    BY <2>1, <2>3, <2>4 DEF TileEntry
  <2>6. new \in [1 .. Len(charts) -> TileEntry]
    BY <2>4, <2>5
  <2>7. new \in Seq(TileEntry) /\ DOMAIN new = 1 .. Len(charts)
    BY <2>3, <2>6, SeqDef
  <2>8. IsInjective(new)
    <3> SUFFICES ASSUME NEW i \in 1 .. Len(charts), NEW k \in 1 .. Len(charts), new[i] = new[k]
                 PROVE  i = k
      BY <2>7 DEF IsInjective
    <3>1. charts[i] = charts[k]
      BY <2>5
    <3> QED
      BY <1>7, <2>3, <3>1 DEF IsInjective
  <2>9. \A w \in Range(new) : w.mount = at /\ w.tile \in Range(charts)
    <3> SUFFICES ASSUME NEW i \in 1 .. Len(charts)
                 PROVE  new[i].mount = at /\ new[i].tile \in Range(charts)
      BY <2>7 DEF Range
    <3> QED
      BY <2>3, <2>5 DEF Range
  <2>10. \A t \in Range(charts) : \E w \in Range(new) : w.tile = t /\ w.mount = at
    <3> SUFFICES ASSUME NEW i \in 1 .. Len(charts)
                 PROVE  \E w \in Range(new) : w.tile = charts[i] /\ w.mount = at
      BY <2>3 DEF Range
    <3>1. new[i] \in Range(new)
      BY <2>7 DEF Range
    <3> QED
      BY <2>5, <3>1
  <2>11. Range(queued) \cap Range(new) = {}
    BY <2>1, <2>9
  <2>12. /\ joined \in Seq(TileEntry) /\ IsInjective(joined)
         /\ Range(joined) = Range(queued) \cup Range(new)
    <3>1. queued \in Seq(TileEntry) /\ IsInjective(queued)
      BY <1>3
    <3> QED
      BY <2>2, <2>7, <2>8, <2>11, <3>1, ConcatOnce
  <2> QED
    BY <2>1, <2>9, <2>10, <2>12
<1>9. /\ IsFiniteSet(begun) /\ OnceLoaded(begun)
      /\ \A l \in begun : /\ LoadTyped(l) /\ l.tile \in Tables
                           /\ l.mount = rangeEnd' /\ l.oldest = news
  BY <1>3, TablesMounted
<1>10. StartNext(joined, going, occupied)
  BY <1>1
<1> HIDE DEF charts, joined, begun
<1>11. IsFiniteSet(going) /\ OnceLoaded(going)
  <2>1. IsFiniteSet(going)
    BY <1>3, <1>9, FS_Union
  <2>2. OnceLoaded(going)
    BY <1>4, <1>5, <1>9 DEF OnceLoaded
  <2> QED
    BY <2>1, <2>2
<1>12. \A w \in Range(joined) : w \in TileEntry
  BY <1>8, LenProperties, ElementOfSeq DEF Range
<1>13. \A w \in Range(joined), l \in going :
         There(w) => ~ (l.tile = w.tile /\ l.mount = w.mount)
  <2>1. \A w \in Range(joined) : w.tile \in Charts
    BY <1>12 DEF TileEntry
  <2>2. \A t \in Charts : t \notin Tables
    BY TilesAssumptions
  <2> QED
    BY <1>5, <1>9, <2>1, <2>2 DEF There
<1>14. {l \in going : l.tile \in Charts} = Served
  <2>1. \A l \in begun : l.tile \notin Charts
    BY <1>9, TilesAssumptions
  <2> QED
    BY <2>1 DEF Served
<1>15. /\ occupied \in Nat /\ occupied <= LoadPlaces
       /\ occupied = Cardinality({l \in going : l.tile \in Charts})
  <2>1. IsFiniteSet(Served)
    BY <1>3, FS_Subset DEF Served
  <2>2. Cardinality(Served) \in Nat
    BY <2>1, FS_CardinalityType
  <2> QED
    BY <1>14, <2>2 DEF TilesInv, PlacesCounted
<1> HIDE DEF going
<1>16. /\ queued' \in Seq(TileEntry) /\ IsInjective(queued')
       /\ \A w \in Range(queued') : w \in Range(joined) /\ There(w)
       /\ IsFiniteSet(tileLoads') /\ OnceLoaded(tileLoads') /\ going \subseteq tileLoads'
       /\ \A m \in tileLoads' : \/ m \in going
                                \/ /\ LoadTyped(m) /\ m.tile \in Charts
                                   /\ m.mount = rangeEnd' /\ m.oldest = news
       /\ \A w \in Range(queued'), m \in tileLoads' : ~ (m.tile = w.tile /\ m.mount = w.mount)
       /\ occupied' = Cardinality({m \in tileLoads' : m.tile \in Charts})
       /\ occupied' <= LoadPlaces /\ (queued' # <<>> => occupied' = LoadPlaces)
       /\ \A w \in Range(joined) : There(w) =>
            \/ w \in Range(queued')
            \/ \E m \in tileLoads' : m.tile = w.tile /\ m.mount = rangeEnd'
  BY <1>3, <1>8, <1>10, <1>11, <1>13, <1>15, StartsNext
<1>17. \A m \in tileLoads' : /\ LoadTyped(m) /\ m.mount <= rangeEnd'
                             /\ m.mount = rangeEnd' => m.oldest >= since'
  <2> SUFFICES ASSUME NEW m \in tileLoads'
               PROVE  /\ LoadTyped(m) /\ m.mount <= rangeEnd'
                      /\ m.mount = rangeEnd' => m.oldest >= since'
    OBVIOUS
  <2>1. CASE m \in tileLoads
    BY <1>3, <1>5, <2>1
  <2>2. CASE m \in begun
    BY <1>2, <1>3, <1>9, <2>2
  <2>3. CASE LoadTyped(m) /\ m.mount = rangeEnd' /\ m.oldest = news
    BY <1>2, <1>3, <2>3
  <2> QED
    BY <1>16, <2>1, <2>2, <2>3 DEF going
<1>18. \A t \in Charts : tiles'[t] = Blank
  BY <1>1, TilesAssumptions DEF Stays
<1>19. TilesTyped'
  <2>1. DOMAIN tiles' = Charts \cup Tables
    BY <1>1
  <2>2. \A l \in tileLoads' : LoadTyped(l)'
    BY <1>17 DEF LoadTyped
  <2>3. board' \in DOMAIN Boards \cup {0} /\ since' \in Nat /\ since' <= news' /\ news' \in Nat
    BY <1>1, <1>2, <1>3
  <2> QED
    BY <1>3, <1>16, <2>1, <2>2, <2>3 DEF TilesTyped
<1>20. LoadsApart'
  <2>1. \A w \in Range(queued') : w.mount = rangeEnd' /\ w.tile \in Range(Boards[board'])
    BY <1>16 DEF There
  <2>2. OnceLoaded(tileLoads)'
    BY <1>16 DEF OnceLoaded
  <2> QED
    BY <1>16, <1>17, <2>1, <2>2 DEF LoadsApart, Waiting
<1>21. PlacesCounted'
  BY <1>16 DEF PlacesCounted, Served
<1>22. PageServed'
  <2>1. ASSUME NEW t \in Charts \cap Range(Boards[board'])
        PROVE  (\E w \in Range(queued') : w.tile = t)
                 \/ \E m \in tileLoads' : m.tile = t /\ m.mount = rangeEnd'
    <3>1. t \in Range(charts)
      BY <1>1, <1>7, <2>1
    <3>2. PICK w \in Range(joined) : w.tile = t /\ w.mount = rangeEnd'
      BY <1>8, <3>1
    <3>3. There(w)
      BY <2>1, <3>2 DEF There
    <3> QED
      BY <1>16, <3>2, <3>3
  <2> QED
    BY <1>18, <2>1 DEF PageServed, Waiting, Loads
<1> QED
  BY <1>19, <1>20, <1>21, <1>22 DEF TilesInv

LEMMA TilesStep == TilesInv /\ [TilesNext]_tilesVars => TilesInv'
<1> SUFFICES ASSUME TilesInv, [TilesNext]_tilesVars PROVE TilesInv'
  OBVIOUS
<1>1. \/ Mount \/ News \/ UNCHANGED tilesVars
      \/ \E l \in tileLoads : RequestAnswered(l) \/ TileRequestFails(l)
  BY DEF TilesNext
<1> QED
  BY <1>1, MountStep, NewsStep, LoadStep

LEMMA TilesMeans == TilesInv => ChartsServed
<1> SUFFICES ASSUME TilesInv PROVE ChartsServed
  OBVIOUS
<1>1. occupied = Cardinality({l \in tileLoads : l.tile \in Charts}) /\ occupied <= LoadPlaces
  BY DEF TilesInv, PlacesCounted, Served
<1>2. queued # <<>> => occupied = LoadPlaces
  BY DEF TilesInv, PlacesCounted
<1>3. ASSUME board # 0, NEW t \in Range(ChartsOf(board))
      PROVE  /\ tiles[t] = Blank => Waits(t) \/ Loads(t)
             /\ tiles[t] \notin {Blank, Broken} => tiles[t] >= since
  <2>1. board \in DOMAIN Boards
    BY <1>3 DEF TilesInv, TilesTyped
  <2>2. t \in Charts \cap Range(Boards[board])
    BY <1>3, <2>1, ChartsInOrder
  <2>3. (\E w \in Range(queued) : w.tile = t) => Waits(t)
    BY DEF Range, Waits
  <2> QED
    BY <1>3, <2>2, <2>3 DEF TilesInv, PageServed, Waiting
<1> QED
  BY <1>1, <1>2, <1>3 DEF ChartsServed

\* Of any dashboards and kinds of charts, any number of places and of loads of the page,
\* and however loads overtake each other and fail: no place is lost or given twice, no
\* chart is forgotten that waits for one, none waits while a place is free, and none shows
\* less than what there was when the page was loaded.
THEOREM ChartsAreServed == TilesSpec => []ChartsServed
<1>1. TilesInit => TilesInv
  BY TilesInitInv
<1>2. TilesInv /\ [TilesNext]_tilesVars => TilesInv'
  BY TilesStep
<1> QED
  BY <1>1, <1>2, TilesMeans, PTL DEF TilesSpec

-----------------------------------------------------------------------------
(* Saved graphs and the dashboards they are placed on (Desk). *)

GraphType == [id : Graph, hidden : BOOLEAN]

\* A list of saved graphs has one of each id, and a dashboard always has a row.
Listing(g) ==
  /\ g \in Seq(GraphType)
  /\ \A i, j \in DOMAIN g : g[i].id = g[j].id => i = j
Rowed(desk) ==
  /\ desk \in Seq(Seq(Seq(Graph)))
  /\ \A d \in DOMAIN desk : desk[d] # <<>>

\* What is in V stands in one place of the desk, and nothing else does.
Laid(desk, V) ==
  /\ \A d \in DOMAIN desk : \A r \in DOMAIN desk[d] :
       /\ IsInjective(desk[d][r]) /\ Range(desk[d][r]) \subseteq V
       /\ \A e \in DOMAIN desk : \A s \in DOMAIN desk[e] :
            Range(desk[d][r]) \cap Range(desk[e][s]) # {} => d = e /\ r = s
  /\ \A v \in V : \E d \in DOMAIN desk : \E r \in DOMAIN desk[d] : v \in Range(desk[d][r])

\* What the variables hold.
GraphLists == Seq(GraphType)
Desks == Seq(Seq(Seq(Graph)))
ServerType == [graphs : GraphLists, desk : Desks, version : Nat]
DeskTyped ==
  /\ server \in ServerType
  /\ kindOf \in [Page -> {"dashboard", "markets", "kraken", "settings"}]
  /\ copy \in [Page -> [graphs : GraphLists, desk : Desks, base : Nat \cup {-1}]]
  /\ coming \in [Page -> SUBSET [server : ServerType, raw : BOOLEAN]]
  /\ requests \in SUBSET [page : Page, number : Nat, graphs : GraphLists \cup {Absent},
                          desk : Desks \cup {Absent}, stage : {"sent", "checked", "applied"}]
  /\ sent \in Nat

\* What is stored and shown are lists without two graphs of one id, on desks whose
\* dashboards have a row; a dashboard page shows what it knows and that is not hidden, once.
CopyTrue(p) ==
  /\ Listing(copy[p].graphs) /\ Rowed(copy[p].desk) /\ copy[p].base <= server.version
  /\ kindOf[p] = "dashboard" /\ Loaded(p) =>
       copy[p].desk # <<>> /\ Laid(copy[p].desk, Visible(copy[p].graphs))
CopiesTrue ==
  /\ Listing(server.graphs) /\ Rowed(server.desk)
  /\ \A p \in Page : CopyTrue(p)

\* An answer that is on its way was what is stored, and is what is stored if nothing has
\* been saved since; the markets take the lists of one only to load.
AnswerTrue(p, a) ==
  /\ Listing(a.server.graphs) /\ Rowed(a.server.desk)
  /\ a.server.version <= server.version
  /\ a.server.version = server.version => a.server = server
  /\ kindOf[p] = "dashboard" => ~ a.raw
  /\ kindOf[p] = "markets" => ~ Loaded(p)
AnswersTrue == \A p \in Page : \A a \in coming[p] : AnswerTrue(p, a)

\* A request asks for what a loaded page may have, and a dashboard page asks for a desk with
\* each graph that its list shows in one place.
RequestTrue(q) ==
  /\ Loaded(q.page) /\ q.number < sent
  /\ q.graphs = Absent \/ Listing(q.graphs)
  /\ q.desk = Absent \/ Rowed(q.desk)
  /\ q.desk = Absent => q.stage = "sent" /\ q.graphs # Absent
  /\ q.graphs = Absent => kindOf[q.page] = "dashboard"
  /\ kindOf[q.page] = "dashboard" =>
       /\ q.desk # Absent /\ q.desk # <<>>
       /\ q.graphs # Absent => Laid(q.desk, Visible(q.graphs))
RequestsTrue ==
  /\ \A q \in requests : RequestTrue(q)
  /\ \A q, r \in requests : q.number = r.number => q = r

\* The requests of a page, those that are not applied, of these the ones with a list, and
\* those that are applied and not answered.  A page is late if a later request was applied
\* before an earlier one.
OwnRequests(p) == {q \in requests : q.page = p}
Unapplied(p) == {q \in OwnRequests(p) : q.stage # "applied"}
WithLists(p) == {q \in Unapplied(p) : q.graphs # Absent}
Made(p) == {q \in OwnRequests(p) : q.stage = "applied"}
Late(p) == \E q \in Unapplied(p), r \in Made(p) : q.number < r.number
NewestOf(q, S) == \A r \in S : r.number <= q.number

\* A page that changes its copy as it asks has what the newest of its requests asks for, or
\* what is stored; the markets will have it when they are answered.
Agreed(p) ==
  IF kindOf[p] = "markets"
  THEN /\ Made(p) = {} => copy[p].graphs = server.graphs
       /\ \A q \in Made(p) : NewestOf(q, Made(p)) => q.graphs = server.graphs
  ELSE ~ Late(p) =>
       /\ WithLists(p) = {} => copy[p].graphs = server.graphs
       /\ \A q \in WithLists(p) : NewestOf(q, WithLists(p)) => copy[p].graphs = q.graphs
       /\ kindOf[p] = "dashboard" =>
            /\ Unapplied(p) = {} => copy[p].desk = Normalized(server.desk, server.graphs)
            /\ \A q \in Unapplied(p) : NewestOf(q, Unapplied(p)) => copy[p].desk = q.desk

\* A page that knows the last version that was stored, and whose requests all count.
InOrder(p) == Loaded(p) /\ p \notin astray /\ copy[p].base = server.version
PagesAgree == \A p \in Page : InOrder(p) => Agreed(p)

DeskInv == DeskTyped /\ CopiesTrue /\ AnswersTrue /\ RequestsTrue /\ PagesAgree

-----------------------------------------------------------------------------
(* What lists are made of. *)

\* Whatever is filtered, what is left is of what there was.
LEMMA SelectedTyped ==
  ASSUME NEW X, NEW s \in Seq(X), NEW S
  PROVE  Selected(s, S) \in Seq(X)
<1>1. PICK f : Selecting(f, X, s, S)
  BY SelectedSteps
<1>2. Len(s) \in 0 .. Len(s)
  BY LenProperties
<1> QED
  BY <1>1, <1>2 DEF Selecting

LEMMA SelectedAll ==
  ASSUME NEW X, NEW s \in Seq(X), NEW S, Range(s) \subseteq S
  PROVE  Selected(s, S) = s
<1>0. /\ Len(s) \in Nat /\ DOMAIN s = 1 .. Len(s)
      /\ \A n \in 1 .. Len(s) : s[n] \in X /\ s[n] \in S
  BY LenProperties, ElementOfSeq DEF Range
<1>1. PICK f : Selecting(f, X, s, S)
  BY SelectedSteps
<1>2. /\ f \in [0 .. Len(s) -> Seq(X)] /\ f[0] = <<>> /\ Selected(s, S) = f[Len(s)]
      /\ \A n \in 1 .. Len(s) : f[n] = Append(f[n - 1], s[n])
  BY <1>0, <1>1 DEF Selecting
<1> DEFINE SoFar(n) == Len(f[n]) = n /\ \A i \in 1 .. n : f[n][i] = s[i]
           N == {n \in Nat : n <= Len(s) => SoFar(n)}
<1>3. 0 \in N
  BY <1>2
<1>4. ASSUME NEW n \in Nat, n \in N PROVE n + 1 \in N
  <2> SUFFICES ASSUME n + 1 <= Len(s) PROVE SoFar(n + 1)
    OBVIOUS
  <2>1. n + 1 \in 1 .. Len(s) /\ (n + 1) - 1 = n /\ n \in 0 .. Len(s) /\ SoFar(n)
    BY <1>0, <1>4
  <2>2. f[n + 1] = Append(f[n], s[n + 1]) /\ f[n] \in Seq(X) /\ s[n + 1] \in X
    BY <1>0, <1>2, <2>1
  <2>3. /\ Len(f[n + 1]) = n + 1 /\ f[n + 1][n + 1] = s[n + 1]
        /\ \A i \in 1 .. n : f[n + 1][i] = f[n][i]
    BY <2>1, <2>2, AppendProperties
  <2>4. \A i \in 1 .. n + 1 : i \in 1 .. n \/ i = n + 1
    OBVIOUS
  <2> QED
    BY <2>1, <2>3, <2>4
<1> HIDE DEF N
<1>5. Len(s) \in N
  BY <1>0, <1>3, <1>4, NaturalsReached
<1>6. SoFar(Len(s))
  BY <1>0, <1>5 DEF N
<1>7. Selected(s, S) \in Seq(X)
  BY SelectedTyped
<1> QED
  BY <1>0, <1>2, <1>6, <1>7, SeqEqual

LEMMA SelectedNone ==
  ASSUME NEW X, NEW s \in Seq(X), NEW S, IsInjective(s), Range(s) \cap S = {}
  PROVE  Selected(s, S) = <<>>
<1>1. /\ Selected(s, S) \in Seq(X)
      /\ \A x : x \in Range(Selected(s, S)) <=> x \in Range(s) /\ x \in S
  BY SelectedIs
<1> DEFINE q == Selected(s, S)
<1>2. Range(q) = {}
  BY <1>1
<1>3. DOMAIN q = 1 .. Len(q) /\ Len(q) \in Nat
  BY <1>1, LenProperties
<1>4. Len(q) = 0
  <2> HIDE DEF q
  <2>1. 1 \in 1 .. Len(q) => q[1] \in Range(q)
    BY <1>3 DEF Range
  <2> QED
    BY <1>2, <1>3, <2>1
<1> QED
  BY <1>1, <1>4, EmptySeq

\* Two lists that share nothing, one behind the other.
LEMMA JoinedIs ==
  ASSUME NEW X, NEW s \in Seq(X), NEW t \in Seq(X)
  PROVE  /\ s \o t \in Seq(X) /\ Range(s \o t) = Range(s) \cup Range(t)
         /\ IsInjective(s) /\ IsInjective(t) /\ Range(s) \cap Range(t) = {}
              => IsInjective(s \o t)
         /\ t = <<>> => s \o t = s
<1>1. /\ s \o t \in Seq(X) /\ Len(s \o t) = Len(s) + Len(t)
      /\ Len(s) \in Nat /\ Len(t) \in Nat
      /\ \A i \in 1 .. Len(s) + Len(t) :
           (s \o t)[i] = IF i <= Len(s) THEN s[i] ELSE t[i - Len(s)]
  BY ConcatProperties, LenProperties
<1>2. DOMAIN s = 1 .. Len(s) /\ DOMAIN t = 1 .. Len(t) /\ DOMAIN (s \o t) = 1 .. Len(s) + Len(t)
  BY <1>1, LenProperties
<1> DEFINE u == s \o t
<1>3. \A i \in 1 .. Len(s) : u[i] = s[i] /\ i \in DOMAIN u
  BY <1>1, <1>2
<1>4. \A i \in 1 .. Len(t) : u[Len(s) + i] = t[i] /\ Len(s) + i \in DOMAIN u
  BY <1>1, <1>2
<1>5. \A i \in DOMAIN u : \/ i \in 1 .. Len(s) /\ u[i] = s[i]
                          \/ \E j \in 1 .. Len(t) : i = Len(s) + j /\ u[i] = t[j]
  <2> SUFFICES ASSUME NEW i \in DOMAIN u
               PROVE  \/ i \in 1 .. Len(s) /\ u[i] = s[i]
                      \/ \E j \in 1 .. Len(t) : i = Len(s) + j /\ u[i] = t[j]
    OBVIOUS
  <2>1. CASE i <= Len(s)
    BY <1>1, <1>2, <2>1
  <2>2. CASE i > Len(s)
    <3>1. i - Len(s) \in 1 .. Len(t) /\ i = Len(s) + (i - Len(s)) /\ u[i] = t[i - Len(s)]
      BY <1>1, <1>2, <2>2
    <3> QED
      BY <3>1
  <2> QED
    BY <1>1, <1>2, <2>1, <2>2
<1>6. s \o t \in Seq(X) /\ (t = <<>> => s \o t = s)
  BY <1>1, ConcatEmptySeq
<1> HIDE DEF u
<1>7. Range(u) = Range(s) \cup Range(t)
  BY <1>2, <1>3, <1>4, <1>5 DEF Range
<1>8. ASSUME IsInjective(s), IsInjective(t), Range(s) \cap Range(t) = {} PROVE IsInjective(u)
  <2>1. \A i \in 1 .. Len(s), j \in 1 .. Len(t) : s[i] # t[j]
    BY <1>2, <1>8 DEF Range
  <2>2. /\ \A i, j \in 1 .. Len(s) : s[i] = s[j] => i = j
        /\ \A i, j \in 1 .. Len(t) : t[i] = t[j] => i = j
    BY <1>2, <1>8 DEF IsInjective
  <2> QED
    BY <1>5, <2>1, <2>2 DEF IsInjective
<1> QED
  BY <1>6, <1>7, <1>8 DEF u

LEMMA AppendedIs ==
  ASSUME NEW X, NEW s \in Seq(X), NEW x \in X
  PROVE  /\ Append(s, x) \in Seq(X) /\ Range(Append(s, x)) = Range(s) \cup {x}
         /\ IsInjective(s) /\ x \notin Range(s) => IsInjective(Append(s, x))
<1>1. <<x>> \in Seq(X) /\ Append(s, x) = s \o <<x>> /\ Range(<<x>>) = {x} /\ IsInjective(<<x>>)
  BY AppendIsConcat DEF Range, IsInjective
<1> DEFINE t == <<x>>
<1>2. t \in Seq(X) /\ Range(t) = {x} /\ IsInjective(t)
  BY <1>1
<1> HIDE DEF t
<1>3. /\ s \o t \in Seq(X) /\ Range(s \o t) = Range(s) \cup Range(t)
      /\ IsInjective(s) /\ Range(s) \cap Range(t) = {} => IsInjective(s \o t)
  BY <1>2, JoinedIs
<1>4. Append(s, x) = s \o t
  BY <1>1 DEF t
<1> QED
  BY <1>2, <1>3, <1>4

LEMMA RemovedAre ==
  ASSUME NEW X, NEW s \in Seq(X), NEW i \in DOMAIN s
  PROVE  /\ RemoveAt(s, i) \in Seq(X) /\ Len(RemoveAt(s, i)) = Len(s) - 1
         /\ \A k \in 1 .. Len(s) - 1 :
              RemoveAt(s, i)[k] = IF k < i THEN s[k] ELSE s[k + 1]
<1>0. Len(s) \in Nat /\ DOMAIN s = 1 .. Len(s) /\ i \in 1 .. Len(s)
  BY LenProperties
<1> DEFINE a == SubSeq(s, 1, i - 1)
           b == SubSeq(s, i + 1, Len(s))
<1>1. a \in Seq(X) /\ Len(a) = i - 1 /\ \A k \in 1 .. i - 1 : a[k] = s[k]
  BY <1>0, SubSeqProperties
<1>2. b \in Seq(X) /\ Len(b) = Len(s) - i /\ \A k \in 1 .. Len(s) - i : b[k] = s[i + k]
  BY <1>0, SubSeqProperties
<1> HIDE DEF a, b
<1>a. /\ a \o b \in Seq(X) /\ Len(a \o b) = Len(a) + Len(b)
      /\ \A k \in 1 .. Len(a) + Len(b) : (a \o b)[k] = IF k <= Len(a) THEN a[k] ELSE b[k - Len(a)]
  BY <1>1, <1>2, ConcatProperties
<1>b. Len(a) + Len(b) = Len(s) - 1
  BY <1>0, <1>1, <1>2
<1> DEFINE u == a \o b
<1> HIDE DEF u
<1>3. /\ u \in Seq(X) /\ Len(u) = Len(s) - 1
      /\ \A k \in 1 .. Len(s) - 1 : u[k] = IF k <= i - 1 THEN a[k] ELSE b[k - (i - 1)]
  BY <1>1, <1>a, <1>b DEF u
<1>4. \A k \in 1 .. Len(s) - 1 : u[k] = IF k < i THEN s[k] ELSE s[k + 1]
  <2> SUFFICES ASSUME NEW k \in 1 .. Len(s) - 1
               PROVE  u[k] = IF k < i THEN s[k] ELSE s[k + 1]
    OBVIOUS
  <2>1. CASE k < i
    BY <1>0, <1>1, <1>3, <2>1
  <2>2. CASE k >= i
    <3>1. k - (i - 1) \in 1 .. Len(s) - i /\ i + (k - (i - 1)) = k + 1
      BY <1>0, <2>2
    <3>2. u[k] = b[k - (i - 1)]
      BY <1>0, <1>3, <2>2
    <3>3. b[k - (i - 1)] = s[i + (k - (i - 1))]
      BY <1>2, <3>1
    <3> QED
      BY <2>2, <3>1, <3>2, <3>3
  <2> QED
    BY <1>0, <2>1, <2>2
<1> QED
  BY <1>3, <1>4 DEF RemoveAt, a, b, u

\* The lists of a list, one behind the other.
Flattening(g, X, ss) ==
  /\ g \in [1 .. Len(ss) -> Seq(X)] /\ g[1] = ss[1] /\ FlattenSeq(ss) = g[Len(ss)]
  /\ \A i \in 2 .. Len(ss) : g[i] = g[i - 1] \o ss[i]

LEMMA FlattenSteps ==
  ASSUME NEW X, NEW ss \in Seq(Seq(X)), ss # <<>>
  PROVE  \E g : Flattening(g, X, ss)
<1>0. /\ Len(ss) \in Nat /\ Len(ss) >= 1 /\ DOMAIN ss = 1 .. Len(ss)
      /\ \A i \in 1 .. Len(ss) : ss[i] \in Seq(X)
  BY LenProperties, ElementOfSeq, EmptySeq
<1> DEFINE m == Len(ss) - 1
           G == [p \in (1 .. m) \X Seq(X) |-> p[2] \o ss[p[1] + 1]]
           body(f) == [i \in 1 .. Len(ss) |-> IF i = 1 THEN ss[i] ELSE f[i - 1] \o ss[i]]
<1>1. /\ m \in Nat /\ ss[1] \in Seq(X) /\ \A t \in 1 .. m : t + 1 \in 1 .. Len(ss)
      /\ \A t \in 1 .. m : ss[t + 1] \in Seq(X)
  BY <1>0
<1>2. G \in [(1 .. m) \X Seq(X) -> Seq(X)]
  BY <1>1, ConcatProperties
<1>3. \A t \in 1 .. m, q \in Seq(X) : G[<<t, q>>] = q \o ss[t + 1]
  OBVIOUS
<1> HIDE DEF G
<1>a. PICK f : Steps(f, m, Seq(X), ss[1], G)
  BY <1>1, <1>2, StepsExist
<1>4. f \in [0 .. m -> Seq(X)] /\ f[0] = ss[1] /\ \A t \in 1 .. m : f[t] = G[<<t, f[t - 1]>>]
  BY <1>a DEF Steps
<1> DEFINE g == [i \in 1 .. Len(ss) |-> f[i - 1]]
<1>5. g \in [1 .. Len(ss) -> Seq(X)] /\ g[1] = ss[1] /\ \A i \in 1 .. Len(ss) : g[i] = f[i - 1]
  BY <1>0, <1>1, <1>4
<1> HIDE DEF g
<1>6. \A i \in 2 .. Len(ss) : g[i] = g[i - 1] \o ss[i]
  <2> SUFFICES ASSUME NEW i \in 2 .. Len(ss) PROVE g[i] = g[i - 1] \o ss[i]
    OBVIOUS
  <2>1. i - 1 \in 1 .. m /\ (i - 1) - 1 \in 0 .. m /\ i \in 1 .. Len(ss) /\ i - 1 \in 1 .. Len(ss)
        /\ (i - 1) + 1 = i
    BY <1>0
  <2>2. f[i - 1] = G[<<i - 1, f[(i - 1) - 1]>>] /\ f[(i - 1) - 1] \in Seq(X)
    BY <1>4, <2>1
  <2>3. f[i - 1] = f[(i - 1) - 1] \o ss[i]
    BY <1>3, <2>1, <2>2
  <2> QED
    BY <1>5, <2>1, <2>3
<1>7. g = body(g)
  <2>1. ASSUME NEW i \in 1 .. Len(ss) PROVE g[i] = body(g)[i]
    <3>1. CASE i = 1
      BY <1>5, <3>1
    <3>2. CASE i # 1
      <4>1. i \in 2 .. Len(ss)
        BY <1>0, <3>2
      <4> QED
        BY <1>6, <3>2, <4>1
    <3> QED
      BY <3>1, <3>2
  <2> QED
    BY <1>5, <2>1
<1> DEFINE C == CHOOSE h : h = body(h)
<1>8. FlattenSeq(ss) = C[Len(ss)]
  BY <1>0 DEF FlattenSeq
<1>9. C = body(C)
  <2> HIDE DEF body
  <2> QED
    BY <1>7
<1> HIDE DEF C
<1>10. C[1] = ss[1] /\ \A i \in 2 .. Len(ss) : C[i] = C[i - 1] \o ss[i]
  <2>1. 1 \in 1 .. Len(ss) /\ \A i \in 2 .. Len(ss) : i \in 1 .. Len(ss) /\ i # 1
    BY <1>0
  <2> QED
    BY <1>9, <2>1
<1> DEFINE N == {n \in Nat : n + 1 <= Len(ss) => C[n + 1] = g[n + 1]}
<1>11. 0 \in N
  BY <1>5, <1>10
<1>12. ASSUME NEW n \in Nat, n \in N PROVE n + 1 \in N
  <2> SUFFICES ASSUME (n + 1) + 1 <= Len(ss) PROVE C[(n + 1) + 1] = g[(n + 1) + 1]
    OBVIOUS
  <2>1. (n + 1) + 1 \in 2 .. Len(ss) /\ ((n + 1) + 1) - 1 = n + 1 /\ C[n + 1] = g[n + 1]
    BY <1>0, <1>12
  <2> QED
    BY <1>6, <1>10, <2>1
<1> HIDE DEF N
<1>13. m \in N
  BY <1>1, <1>11, <1>12, NaturalsReached
<1>14. C[Len(ss)] = g[Len(ss)]
  BY <1>0, <1>13 DEF N
<1> QED
  BY <1>5, <1>6, <1>8, <1>14 DEF Flattening

LEMMA FlattenIs ==
  ASSUME NEW X, NEW ss \in Seq(Seq(X)), ss # <<>>,
         \A i \in DOMAIN ss : IsInjective(ss[i]),
         \A i, j \in DOMAIN ss : Range(ss[i]) \cap Range(ss[j]) # {} => i = j
  PROVE  /\ FlattenSeq(ss) \in Seq(X) /\ IsInjective(FlattenSeq(ss))
         /\ \A x : x \in Range(FlattenSeq(ss)) <=> \E i \in DOMAIN ss : x \in Range(ss[i])
<1>0. /\ Len(ss) \in Nat /\ Len(ss) >= 1 /\ DOMAIN ss = 1 .. Len(ss)
      /\ \A i \in 1 .. Len(ss) : ss[i] \in Seq(X)
  BY LenProperties, ElementOfSeq, EmptySeq
<1>a. PICK g : Flattening(g, X, ss)
  BY FlattenSteps
<1>1. /\ g \in [1 .. Len(ss) -> Seq(X)] /\ g[1] = ss[1] /\ FlattenSeq(ss) = g[Len(ss)]
      /\ \A i \in 2 .. Len(ss) : g[i] = g[i - 1] \o ss[i]
  BY <1>a DEF Flattening
<1> DEFINE Fine(n) == /\ IsInjective(g[n])
                      /\ \A x : x \in Range(g[n]) <=> \E i \in 1 .. n : x \in Range(ss[i])
           N == {n \in Nat : n + 1 <= Len(ss) => Fine(n + 1)}
<1>2. 0 \in N
  <2>1. \A i \in 1 .. 1 : i = 1
    OBVIOUS
  <2> QED
    BY <1>0, <1>1, <2>1
<1>3. ASSUME NEW n \in Nat, n \in N PROVE n + 1 \in N
  <2> DEFINE k == n + 1
  <2> SUFFICES ASSUME k + 1 <= Len(ss) PROVE Fine(k + 1)
    OBVIOUS
  <2>a. k \in 1 .. Len(ss) /\ k + 1 \in 2 .. Len(ss) /\ (k + 1) - 1 = k
        /\ k + 1 \in 1 .. Len(ss)
    BY <1>0
  <2>b. Fine(k)
    <3>1. n + 1 <= Len(ss)
      BY <1>0
    <3> HIDE DEF Fine
    <3> QED
      BY <1>3, <3>1
  <2>1. Fine(k) /\ k \in 1 .. Len(ss) /\ k + 1 \in 2 .. Len(ss) /\ (k + 1) - 1 = k
        /\ k + 1 \in 1 .. Len(ss)
    BY <2>a, <2>b
  <2> HIDE DEF k
  <2>2. g[k + 1] = g[k] \o ss[k + 1] /\ g[k] \in Seq(X) /\ ss[k + 1] \in Seq(X)
    BY <1>0, <1>1, <2>1
  <2>3. Range(g[k]) \cap Range(ss[k + 1]) = {}
    <3> SUFFICES ASSUME NEW x \in Range(g[k]), x \in Range(ss[k + 1]) PROVE FALSE
      OBVIOUS
    <3>1. PICK i \in 1 .. k : x \in Range(ss[i])
      BY <2>1
    <3>2. i \in DOMAIN ss /\ k + 1 \in DOMAIN ss /\ i # k + 1
      BY <1>0, <2>1
    <3> QED
      BY <3>1, <3>2
  <2>4. /\ Range(g[k + 1]) = Range(g[k]) \cup Range(ss[k + 1])
        /\ IsInjective(g[k + 1])
    <3>1. IsInjective(g[k]) /\ IsInjective(ss[k + 1])
      BY <1>0, <2>1
    <3>2. /\ Range(g[k] \o ss[k + 1]) = Range(g[k]) \cup Range(ss[k + 1])
          /\ IsInjective(g[k] \o ss[k + 1])
      BY <2>2, <2>3, <3>1, JoinedIs
    <3> QED
      BY <2>2, <3>2
  <2>5. \A i : i \in 1 .. k + 1 <=> i \in 1 .. k \/ i = k + 1
    BY <2>1, <1>0
  <2> QED
    BY <2>1, <2>4, <2>5
<1> HIDE DEF N
<1>4. Len(ss) - 1 \in Nat /\ (Len(ss) - 1) + 1 = Len(ss)
  BY <1>0
<1>5. Len(ss) - 1 \in N
  BY <1>2, <1>3, <1>4, NaturalsReached
<1>6. Fine(Len(ss))
  BY <1>4, <1>5 DEF N
<1>7. FlattenSeq(ss) \in Seq(X)
  <2>1. Len(ss) \in 1 .. Len(ss)
    BY <1>0
  <2>2. g[Len(ss)] \in Seq(X)
    BY <1>1, <2>1
  <2> QED
    BY <1>1, <2>2
<1> QED
  BY <1>0, <1>1, <1>6, <1>7

-----------------------------------------------------------------------------
(* Desks. *)

LEMMA FunctionIsSeq ==
  ASSUME NEW S, NEW n \in Nat, NEW f \in [1 .. n -> S]
  PROVE  f \in Seq(S) /\ Len(f) = n
OBVIOUS

LEMMA RowedIs ==
  ASSUME NEW desk, Rowed(desk)
  PROVE  /\ Len(desk) \in Nat /\ DOMAIN desk = 1 .. Len(desk)
         /\ desk # <<>> => 1 \in DOMAIN desk
         /\ \A d \in DOMAIN desk :
              /\ desk[d] \in Seq(Seq(Graph)) /\ desk[d] # <<>>
              /\ Len(desk[d]) \in Nat /\ DOMAIN desk[d] = 1 .. Len(desk[d])
                   /\ 1 \in DOMAIN desk[d]
              /\ \A r \in DOMAIN desk[d] : desk[d][r] \in Seq(Graph)
<1>1. desk \in Seq(Seq(Seq(Graph))) /\ \A d \in DOMAIN desk : desk[d] # <<>>
  BY DEF Rowed
<1>2. Len(desk) \in Nat /\ DOMAIN desk = 1 .. Len(desk) /\ (desk # <<>> => 1 \in DOMAIN desk)
  BY <1>1, LenProperties, EmptySeq
<1>3. ASSUME NEW d \in DOMAIN desk
      PROVE  /\ desk[d] \in Seq(Seq(Graph)) /\ desk[d] # <<>>
             /\ Len(desk[d]) \in Nat /\ DOMAIN desk[d] = 1 .. Len(desk[d]) /\ 1 \in DOMAIN desk[d]
             /\ \A r \in DOMAIN desk[d] : desk[d][r] \in Seq(Graph)
  <2>1. desk[d] \in Seq(Seq(Graph)) /\ desk[d] # <<>>
    BY <1>1, <1>2, ElementOfSeq
  <2>2. Len(desk[d]) \in Nat /\ DOMAIN desk[d] = 1 .. Len(desk[d]) /\ 1 \in DOMAIN desk[d]
    BY <2>1, LenProperties, EmptySeq
  <2> QED
    BY <2>1, <2>2, ElementOfSeq
<1> QED
  BY <1>2, <1>3

\* A desk of the same dashboards and rows.
LEMMA RowsTyped ==
  ASSUME NEW desk, Rowed(desk), NEW V, NEW N \in [DOMAIN desk -> V],
         \A d \in DOMAIN desk : N[d] \in [DOMAIN desk[d] -> Seq(Graph)]
  PROVE  /\ Rowed(N) /\ DOMAIN N = DOMAIN desk
         /\ \A d \in DOMAIN desk : DOMAIN N[d] = DOMAIN desk[d]
<1>1. /\ Len(desk) \in Nat /\ DOMAIN desk = 1 .. Len(desk)
      /\ \A d \in DOMAIN desk :
           /\ Len(desk[d]) \in Nat /\ DOMAIN desk[d] = 1 .. Len(desk[d]) /\ 1 \in DOMAIN desk[d]
  BY RowedIs
<1>2. ASSUME NEW d \in DOMAIN desk PROVE N[d] \in Seq(Seq(Graph)) /\ N[d] # <<>>
  <2>1. N[d] \in [1 .. Len(desk[d]) -> Seq(Graph)]
    BY <1>1
  <2>2. N[d] \in Seq(Seq(Graph)) /\ Len(N[d]) = Len(desk[d])
    BY <1>1, <2>1, FunctionIsSeq
  <2> QED
    BY <1>1, <2>2
<1>3. N \in [1 .. Len(desk) -> Seq(Seq(Graph))]
  BY <1>1, <1>2
<1>4. N \in Seq(Seq(Seq(Graph)))
  BY <1>1, <1>3, FunctionIsSeq
<1>5. DOMAIN N = DOMAIN desk /\ \A d \in DOMAIN desk : DOMAIN N[d] = DOMAIN desk[d]
  BY <1>1
<1> QED
  BY <1>2, <1>4, <1>5 DEF Rowed

\* Another row in place of one.
LEMMA RowPut ==
  ASSUME NEW desk, Rowed(desk), NEW d \in DOMAIN desk, NEW r \in DOMAIN desk[d],
         NEW row \in Seq(Graph)
  PROVE  LET N == [desk EXCEPT ![d][r] = row]
         IN /\ Rowed(N) /\ DOMAIN N = DOMAIN desk /\ N # <<>>
            /\ \A e \in DOMAIN desk : DOMAIN N[e] = DOMAIN desk[e]
            /\ \A e \in DOMAIN desk : \A s \in DOMAIN desk[e] :
                 N[e][s] = IF e = d /\ s = r THEN row ELSE desk[e][s]
<1> DEFINE N == [desk EXCEPT ![d][r] = row]
<1>0. \A e \in DOMAIN desk :
        /\ desk[e] = [s \in DOMAIN desk[e] |-> desk[e][s]]
        /\ \A s \in DOMAIN desk[e] : desk[e][s] \in Seq(Graph)
  BY RowedIs
<1>1. /\ DOMAIN N = DOMAIN desk /\ N = [e \in DOMAIN desk |-> N[e]]
      /\ N[d] = [desk[d] EXCEPT ![r] = row]
      /\ \A e \in DOMAIN desk : e # d => N[e] = desk[e]
  OBVIOUS
<1>2. \A e \in DOMAIN desk : \A s \in DOMAIN desk[e] :
        N[e][s] = IF e = d /\ s = r THEN row ELSE desk[e][s]
  BY <1>0, <1>1
<1>3. \A e \in DOMAIN desk : desk[e] \in [DOMAIN desk[e] -> Seq(Graph)]
  BY <1>0
<1>4. \A e \in DOMAIN desk : N[e] \in [DOMAIN desk[e] -> Seq(Graph)]
  <2> SUFFICES ASSUME NEW e \in DOMAIN desk PROVE N[e] \in [DOMAIN desk[e] -> Seq(Graph)]
    OBVIOUS
  <2>1. CASE e = d
    BY <1>1, <1>3, <2>1
  <2>2. CASE e # d
    BY <1>1, <1>3, <2>2
  <2> QED
    BY <2>1, <2>2
<1>a. N \in [DOMAIN desk -> {N[e] : e \in DOMAIN desk}]
  BY <1>1
<1>5. /\ Rowed(N) /\ DOMAIN N = DOMAIN desk
      /\ \A e \in DOMAIN desk : DOMAIN N[e] = DOMAIN desk[e]
  BY <1>4, <1>a, RowsTyped
<1> QED
  BY <1>2, <1>5, RowedIs, EmptySeq

LEMMA LaidIs ==
  ASSUME NEW desk, NEW V, Laid(desk, V)
  PROVE  /\ \A d \in DOMAIN desk : \A r \in DOMAIN desk[d] :
              IsInjective(desk[d][r]) /\ Range(desk[d][r]) \subseteq V
         /\ \A d, e \in DOMAIN desk : \A r \in DOMAIN desk[d], s \in DOMAIN desk[e] : \A x :
              x \in Range(desk[d][r]) /\ x \in Range(desk[e][s]) => d = e /\ r = s
         /\ \A v \in V : \E d \in DOMAIN desk : \E r \in DOMAIN desk[d] : v \in Range(desk[d][r])
BY DEF Laid

\* What comes to a row was nowhere.
LEMMA RowGrown ==
  ASSUME NEW desk, Rowed(desk), NEW d \in DOMAIN desk, NEW r \in DOMAIN desk[d],
         NEW V, Laid(desk, V), NEW A, A \cap V = {},
         NEW row \in Seq(Graph), IsInjective(row), Range(row) = Range(desk[d][r]) \cup A
  PROVE  Laid([desk EXCEPT ![d][r] = row], V \cup A)
<1> DEFINE N == [desk EXCEPT ![d][r] = row]
<1>1. /\ DOMAIN N = DOMAIN desk
      /\ \A e \in DOMAIN desk : DOMAIN N[e] = DOMAIN desk[e]
      /\ \A e \in DOMAIN desk : \A s \in DOMAIN desk[e] :
           N[e][s] = IF e = d /\ s = r THEN row ELSE desk[e][s]
  BY RowPut
<1> HIDE DEF N
<1>2. /\ \A e \in DOMAIN desk : \A s \in DOMAIN desk[e] :
           IsInjective(desk[e][s]) /\ Range(desk[e][s]) \subseteq V
      /\ \A e, f \in DOMAIN desk : \A s \in DOMAIN desk[e], t \in DOMAIN desk[f] : \A x :
           x \in Range(desk[e][s]) /\ x \in Range(desk[f][t]) => e = f /\ s = t
      /\ \A v \in V : \E e \in DOMAIN desk : \E s \in DOMAIN desk[e] : v \in Range(desk[e][s])
  BY LaidIs
<1>3. \A e \in DOMAIN desk : \A s \in DOMAIN desk[e] :
        Range(N[e][s]) = IF e = d /\ s = r THEN Range(desk[d][r]) \cup A ELSE Range(desk[e][s])
  BY <1>1
<1>4. \A e \in DOMAIN N : \A s \in DOMAIN N[e] :
        IsInjective(N[e][s]) /\ Range(N[e][s]) \subseteq V \cup A
  BY <1>1, <1>2, <1>3
<1>5. ASSUME NEW e \in DOMAIN N, NEW f \in DOMAIN N, NEW s \in DOMAIN N[e],
             NEW t \in DOMAIN N[f], NEW x, x \in Range(N[e][s]), x \in Range(N[f][t])
      PROVE  e = f /\ s = t
  <2>a. e \in DOMAIN desk /\ f \in DOMAIN desk /\ s \in DOMAIN desk[e] /\ t \in DOMAIN desk[f]
    BY <1>1
  <2>1. CASE x \in A
    <3>1. x \notin Range(desk[e][s]) /\ x \notin Range(desk[f][t])
      BY <1>2, <2>1, <2>a
    <3> QED
      BY <1>3, <1>5, <2>a, <3>1
  <2>2. CASE x \notin A
    <3>1. x \in Range(desk[e][s]) /\ x \in Range(desk[f][t])
      BY <1>3, <1>5, <2>2, <2>a
    <3> QED
      BY <1>2, <2>a, <3>1
  <2> QED
    BY <2>1, <2>2
<1>6. \A v \in V \cup A : \E e \in DOMAIN N : \E s \in DOMAIN N[e] : v \in Range(N[e][s])
  <2> SUFFICES ASSUME NEW v \in V \cup A
               PROVE  \E e \in DOMAIN desk : \E s \in DOMAIN desk[e] : v \in Range(N[e][s])
    BY <1>1
  <2>1. CASE v \in A
    BY <1>3, <2>1
  <2>2. CASE v \in V
    <3>1. PICK e \in DOMAIN desk : \E s \in DOMAIN desk[e] : v \in Range(desk[e][s])
      BY <1>2, <2>2
    <3>2. PICK s \in DOMAIN desk[e] : v \in Range(desk[e][s])
      BY <3>1
    <3>3. v \in Range(N[e][s])
      BY <1>3, <3>2
    <3> QED
      BY <3>3
  <2> QED
    BY <2>1, <2>2
<1>7. ASSUME NEW e \in DOMAIN N, NEW s \in DOMAIN N[e], NEW f \in DOMAIN N, NEW t \in DOMAIN N[f],
             Range(N[e][s]) \cap Range(N[f][t]) # {}
      PROVE  e = f /\ s = t
  <2>1. PICK x : x \in Range(N[e][s]) /\ x \in Range(N[f][t])
    BY <1>7
  <2> QED
    BY <1>5, <2>1
<1>8. Laid(N, V \cup A)
  BY <1>4, <1>6, <1>7 DEF Laid
<1> QED
  BY <1>8 DEF N

LEMMA PlacesAre ==
  ASSUME NEW desk
  PROVE  \A p : p \in Places(desk) <=>
           \E d \in DOMAIN desk : \E r \in DOMAIN desk[d] : \E i \in DOMAIN desk[d][r] :
               p = <<d, r, i>>
BY DEF Places

LEMMA PlacedIs ==
  ASSUME NEW desk
  PROVE  \A x : x \in Placed(desk) <=>
           \E d \in DOMAIN desk : \E r \in DOMAIN desk[d] : x \in Range(desk[d][r])
<1>1. ASSUME NEW x \in Placed(desk)
      PROVE  \E d \in DOMAIN desk : \E r \in DOMAIN desk[d] : x \in Range(desk[d][r])
  <2>1. PICK p \in Places(desk) : x = At(desk, p)
    BY <1>1 DEF Placed
  <2>2. PICK d \in DOMAIN desk : \E r \in DOMAIN desk[d] : \E i \in DOMAIN desk[d][r] :
          p = <<d, r, i>>
    BY <2>1, PlacesAre
  <2>3. PICK r \in DOMAIN desk[d] : \E i \in DOMAIN desk[d][r] : p = <<d, r, i>>
    BY <2>2
  <2>4. PICK i \in DOMAIN desk[d][r] : p = <<d, r, i>>
    BY <2>3
  <2>5. x = desk[d][r][i]
    BY <2>1, <2>4 DEF At
  <2> QED
    BY <2>5 DEF Range
<1>2. ASSUME NEW x, NEW d \in DOMAIN desk, NEW r \in DOMAIN desk[d], x \in Range(desk[d][r])
      PROVE  x \in Placed(desk)
  <2>1. PICK i \in DOMAIN desk[d][r] : x = desk[d][r][i]
    BY <1>2 DEF Range
  <2>2. <<d, r, i>> \in Places(desk) /\ x = At(desk, <<d, r, i>>)
    BY <2>1, PlacesAre DEF At
  <2> QED
    BY <2>2 DEF Placed
<1> QED
  BY <1>1, <1>2

LEMMA ListingIs ==
  ASSUME NEW graphs, Listing(graphs)
  PROVE  LET names == [i \in DOMAIN graphs |-> graphs[i].id]
         IN /\ names \in Seq(Graph) /\ IsInjective(names) /\ Range(names) = IdsOf(graphs)
            /\ Visible(graphs) \subseteq IdsOf(graphs) /\ IdsOf(graphs) \subseteq Graph
<1>1. /\ graphs \in Seq(GraphType) /\ Len(graphs) \in Nat /\ DOMAIN graphs = 1 .. Len(graphs)
      /\ \A i \in DOMAIN graphs : graphs[i].id \in Graph
      /\ \A i, j \in DOMAIN graphs : graphs[i].id = graphs[j].id => i = j
  <2>1. graphs \in Seq(GraphType) /\ \A i, j \in DOMAIN graphs : graphs[i].id = graphs[j].id =>
          i = j
    BY DEF Listing
  <2>2. Len(graphs) \in Nat /\ DOMAIN graphs = 1 .. Len(graphs)
        /\ \A i \in 1 .. Len(graphs) : graphs[i] \in GraphType
    BY <2>1, LenProperties, ElementOfSeq
  <2> QED
    BY <2>1, <2>2 DEF GraphType
<1> DEFINE names == [i \in DOMAIN graphs |-> graphs[i].id]
<1>2. names \in [1 .. Len(graphs) -> Graph]
  BY <1>1
<1>3. names \in Seq(Graph)
  BY <1>1, <1>2, FunctionIsSeq
<1>4. IsInjective(names)
  BY <1>1 DEF IsInjective
<1>5. Range(names) = IdsOf(graphs)
  BY DEF Range, IdsOf
<1>6. Visible(graphs) \subseteq IdsOf(graphs) /\ IdsOf(graphs) \subseteq Graph
  BY <1>1 DEF Visible, IdsOf
<1> QED
  BY <1>3, <1>4, <1>5, <1>6

\* What stood nowhere comes to the first row, and nothing comes where all stands.
LEMMA UnplacedAre ==
  ASSUME NEW desk, Rowed(desk), desk # <<>>, NEW graphs, Listing(graphs)
  PROVE  /\ Rowed(WithUnplaced(desk, graphs)) /\ WithUnplaced(desk, graphs) # <<>>
         /\ \A W \in SUBSET Visible(graphs) :
              Laid(desk, W) => Laid(WithUnplaced(desk, graphs), Visible(graphs))
         /\ Laid(desk, Visible(graphs)) => WithUnplaced(desk, graphs) = desk
<1> DEFINE names == [i \in DOMAIN graphs |-> graphs[i].id]
           A == Visible(graphs) \ Placed(desk)
           more == Selected(names, A)
           row == desk[1][1] \o more
<1>1. names \in Seq(Graph) /\ IsInjective(names) /\ Range(names) = IdsOf(graphs)
      /\ Visible(graphs) \subseteq IdsOf(graphs)
  BY ListingIs
<1>2. 1 \in DOMAIN desk /\ 1 \in DOMAIN desk[1] /\ desk[1][1] \in Seq(Graph)
  BY RowedIs
<1>0. WithUnplaced(desk, graphs) = [desk EXCEPT ![1][1] = row]
  BY DEF WithUnplaced
<1> HIDE DEF names
<1>3. /\ more \in Seq(Graph) /\ IsInjective(more)
      /\ \A x : x \in Range(more) <=> x \in Range(names) /\ x \in A
  BY <1>1, SelectedIs
<1>4. Range(more) = A
  BY <1>1, <1>3
<1>5. A = {} => more = <<>>
  <2>1. A = {} => Range(names) \cap A = {}
    OBVIOUS
  <2> QED
    BY <1>1, <2>1, SelectedNone
<1> HIDE DEF more
<1>6. row \in Seq(Graph) /\ Range(row) = Range(desk[1][1]) \cup A
      /\ (IsInjective(desk[1][1]) /\ Range(desk[1][1]) \cap A = {} => IsInjective(row))
      /\ (more = <<>> => row = desk[1][1])
  BY <1>2, <1>3, <1>4, JoinedIs
<1> HIDE DEF row
<1>7. Rowed([desk EXCEPT ![1][1] = row]) /\ [desk EXCEPT ![1][1] = row] # <<>>
  BY <1>2, <1>6, RowPut
<1>8. ASSUME NEW W \in SUBSET Visible(graphs), Laid(desk, W)
      PROVE  Laid([desk EXCEPT ![1][1] = row], Visible(graphs))
  <2>1. Placed(desk) = W
    <3>1. \A x : x \in Placed(desk) <=> x \in W
      BY <1>8, LaidIs, PlacedIs
    <3> QED
      BY <3>1
  <2>2. IsInjective(desk[1][1]) /\ Range(desk[1][1]) \subseteq W
    BY <1>2, <1>8, LaidIs
  <2>3. A \cap W = {} /\ W \cup A = Visible(graphs)
    BY <2>1
  <2> HIDE DEF A
  <2>4. IsInjective(row)
    BY <1>6, <2>2, <2>3
  <2>5. Laid([desk EXCEPT ![1][1] = row], W \cup A)
    BY <1>2, <1>6, <1>8, <2>3, <2>4, RowGrown
  <2> QED
    BY <2>3, <2>5
<1>9. ASSUME Laid(desk, Visible(graphs)) PROVE [desk EXCEPT ![1][1] = row] = desk
  <2>1. \A x : x \in Visible(graphs) => x \in Placed(desk)
    BY <1>9, LaidIs, PlacedIs
  <2>2. row = desk[1][1]
    BY <1>5, <1>6, <2>1
  <2>3. desk \in Seq(Seq(Seq(Graph))) /\ desk[1] \in Seq(Seq(Graph))
    BY <1>2, RowedIs DEF Rowed
  <2>4. [desk[1] EXCEPT ![1] = row] = desk[1]
    BY <1>2, <2>2, <2>3
  <2> QED
    BY <1>2, <2>3, <2>4
<1> QED
  BY <1>0, <1>7, <1>8, <1>9

LEMMA SomeIs ==
  ASSUME NEW desk, Rowed(desk)
  PROVE  Rowed(Some(desk)) /\ Some(desk) # <<>> /\ (desk # <<>> => Some(desk) = desk)
<1> DEFINE one == << << <<>> >> >>
<1>1. /\ <<>> \in Seq(Graph) /\ << <<>> >> \in Seq(Seq(Graph)) /\ one \in Seq(Seq(Seq(Graph)))
      /\ \A d \in DOMAIN one : one[d] # <<>>
  OBVIOUS
<1> QED
  BY <1>1 DEF Some, Rowed

-----------------------------------------------------------------------------
(* What a page and the server make of a desk. *)

PlaceType == Nat \X Nat \X Nat

LEMMA FirstAlone ==
  ASSUME NEW desk, Rowed(desk), NEW graphs,
         NEW p \in FirstPlaces(desk, graphs), NEW q \in FirstPlaces(desk, graphs),
         At(desk, p) = At(desk, q)
  PROVE  p = q
<1>1. p \in Places(desk) /\ q \in Places(desk) /\ ~ Earlier(p, q) /\ ~ Earlier(q, p)
  BY DEF FirstPlaces
<1>2. ASSUME NEW o \in Places(desk)
      PROVE  o = <<o[1], o[2], o[3]>> /\ o[1] \in Nat /\ o[2] \in Nat /\ o[3] \in Nat
  <2>1. PICK d \in DOMAIN desk : \E r \in DOMAIN desk[d] : \E i \in DOMAIN desk[d][r] :
          o = <<d, r, i>>
    BY <1>2, PlacesAre
  <2>2. PICK r \in DOMAIN desk[d] : \E i \in DOMAIN desk[d][r] : o = <<d, r, i>>
    BY <2>1
  <2>3. PICK i \in DOMAIN desk[d][r] : o = <<d, r, i>>
    BY <2>2
  <2>4. d \in Nat /\ r \in Nat /\ desk[d][r] \in Seq(Graph)
    BY RowedIs
  <2>5. i \in Nat
    BY <2>4, LenProperties
  <2> QED
    BY <2>3, <2>4, <2>5
<1>3. p[1] = q[1] /\ p[2] = q[2] /\ p[3] = q[3]
  BY <1>1, <1>2 DEF Earlier
<1> QED
  BY <1>1, <1>2, <1>3

\* What is left of a row when each graph keeps its first place.
FirstOf(desk, graphs, d, r) ==
  LET kept == Selected([i \in DOMAIN desk[d][r] |-> <<d, r, i>>], FirstPlaces(desk, graphs))
  IN [k \in DOMAIN kept |-> At(desk, kept[k])]

\* The graphs that have their first place in a row.
FirstIn(desk, graphs, d, r) ==
  {desk[d][r][i] : i \in {j \in DOMAIN desk[d][r] : <<d, r, j>> \in FirstPlaces(desk, graphs)}}

LEMMA FirstOfIs ==
  ASSUME NEW desk, Rowed(desk), NEW graphs, NEW d \in DOMAIN desk, NEW r \in DOMAIN desk[d]
  PROVE  /\ FirstOf(desk, graphs, d, r) \in Seq(Graph) /\ IsInjective(FirstOf(desk, graphs, d, r))
         /\ Range(FirstOf(desk, graphs, d, r)) = FirstIn(desk, graphs, d, r)
         /\ (\A i \in DOMAIN desk[d][r] : <<d, r, i>> \in FirstPlaces(desk, graphs))
              => FirstOf(desk, graphs, d, r) = desk[d][r]
<1> DEFINE row == desk[d][r]
           all == [i \in DOMAIN row |-> <<d, r, i>>]
           F == FirstPlaces(desk, graphs)
           kept == Selected(all, F)
           left == [k \in DOMAIN kept |-> At(desk, kept[k])]
<1>0. FirstOf(desk, graphs, d, r) = left
  BY DEF FirstOf
<1>1. row \in Seq(Graph) /\ d \in Nat /\ r \in Nat
  BY RowedIs
<1>2. Len(row) \in Nat /\ DOMAIN row = 1 .. Len(row) /\ \A i \in DOMAIN row : row[i] \in Graph
  BY <1>1, LenProperties, ElementOfSeq
<1>a. all = [i \in 1 .. Len(row) |-> <<d, r, i>>]
  BY <1>2
<1>3. /\ all \in Seq(PlaceType) /\ DOMAIN all = DOMAIN row
      /\ \A i \in DOMAIN row : all[i] = <<d, r, i>>
  <2>1. all \in [1 .. Len(row) -> PlaceType]
    BY <1>1, <1>2 DEF PlaceType
  <2> QED
    BY <1>2, <2>1, FunctionIsSeq
<1>4. /\ \A p : p \in F => p \in Places(desk)
      /\ \A p, q \in F : At(desk, p) = At(desk, q) => p = q
      /\ \A i \in DOMAIN row : At(desk, <<d, r, i>>) = row[i]
  BY FirstAlone DEF FirstPlaces, At
<1> HIDE DEF F, all
<1>5. IsInjective(all)
  BY <1>3 DEF IsInjective
<1>6. /\ kept \in Seq(PlaceType) /\ IsInjective(kept)
      /\ \A x : x \in Range(kept) <=> x \in Range(all) /\ x \in F
  BY <1>3, <1>5, SelectedIs
<1>7. Range(all) \subseteq F => kept = all
  BY <1>3, SelectedAll
<1> HIDE DEF kept
<1>8. Len(kept) \in Nat /\ DOMAIN kept = 1 .. Len(kept)
  BY <1>6, LenProperties
<1>9. \A k \in DOMAIN kept : \E i \in DOMAIN row : <<d, r, i>> \in F /\ kept[k] = <<d, r, i>>
  <2> SUFFICES ASSUME NEW k \in DOMAIN kept
               PROVE  \E i \in DOMAIN row : <<d, r, i>> \in F /\ kept[k] = <<d, r, i>>
    OBVIOUS
  <2>1. kept[k] \in Range(all) /\ kept[k] \in F
    BY <1>6 DEF Range
  <2>2. PICK i \in DOMAIN all : kept[k] = all[i]
    BY <2>1 DEF Range
  <2> QED
    BY <1>3, <2>1, <2>2
<1>10. \A i \in DOMAIN row : <<d, r, i>> \in F => \E k \in DOMAIN kept : kept[k] = <<d, r, i>>
  <2> SUFFICES ASSUME NEW i \in DOMAIN row, <<d, r, i>> \in F
               PROVE  \E k \in DOMAIN kept : kept[k] = <<d, r, i>>
    OBVIOUS
  <2>1. <<d, r, i>> \in Range(all)
    BY <1>3 DEF Range
  <2>2. <<d, r, i>> \in Range(kept)
    BY <1>6, <2>1
  <2> QED
    BY <2>2 DEF Range
<1>11. left \in Seq(Graph)
  <2>1. ASSUME NEW k \in DOMAIN kept PROVE At(desk, kept[k]) \in Graph
    <3>1. PICK i \in DOMAIN row : <<d, r, i>> \in F /\ kept[k] = <<d, r, i>>
      BY <1>9
    <3>2. At(desk, kept[k]) = row[i]
      BY <1>4, <3>1
    <3> QED
      BY <1>2, <3>2
  <2>2. left \in [1 .. Len(kept) -> Graph]
    BY <1>8, <2>1
  <2> QED
    BY <1>8, <2>2, FunctionIsSeq
<1>12. IsInjective(left)
  <2> SUFFICES ASSUME NEW k \in DOMAIN kept, NEW l \in DOMAIN kept,
                      At(desk, kept[k]) = At(desk, kept[l])
               PROVE  k = l
    BY DEF IsInjective
  <2>1. kept[k] \in F /\ kept[l] \in F
    BY <1>9
  <2>2. kept[k] = kept[l]
    BY <1>4, <2>1
  <2> QED
    BY <1>6, <2>2 DEF IsInjective
<1>13. \A x : x \in Range(left) <=> \E i \in DOMAIN row : <<d, r, i>> \in F /\ x = row[i]
  <2>1. ASSUME NEW x, x \in Range(left)
        PROVE  \E i \in DOMAIN row : <<d, r, i>> \in F /\ x = row[i]
    <3>1. PICK k \in DOMAIN kept : x = At(desk, kept[k])
      BY <2>1 DEF Range
    <3>2. PICK i \in DOMAIN row : <<d, r, i>> \in F /\ kept[k] = <<d, r, i>>
      BY <1>9
    <3> QED
      BY <1>4, <3>1, <3>2
  <2>2. ASSUME NEW x, NEW i \in DOMAIN row, <<d, r, i>> \in F, x = row[i]
        PROVE  x \in Range(left)
    <3>1. PICK k \in DOMAIN kept : kept[k] = <<d, r, i>>
      BY <1>10, <2>2
    <3>2. left[k] = x
      BY <1>4, <2>2, <3>1
    <3> QED
      BY <3>2 DEF Range
  <2> QED
    BY <2>1, <2>2
<1>14. ASSUME \A i \in DOMAIN row : <<d, r, i>> \in F PROVE left = row
  <2>1. kept = all
    BY <1>3, <1>7, <1>14 DEF Range
  <2>2. DOMAIN left = DOMAIN row /\ \A i \in DOMAIN row : left[i] = row[i]
    BY <1>3, <1>4, <2>1
  <2>3. left \in Seq(Graph) /\ row \in Seq(Graph)
    BY <1>1, <1>11
  <2> HIDE DEF left, row
  <2>4. Len(left) = Len(row)
    BY <2>2, <2>3, LenProperties
  <2> QED
    BY <2>2, <2>3, <2>4, LenProperties, SeqEqual
<1>15. Range(left) = FirstIn(desk, graphs, d, r)
  BY <1>13 DEF FirstIn, F
<1> QED
  BY <1>0, <1>11, <1>12, <1>14, <1>15 DEF F

\* The desk of what is left of its rows.
FirstRows(desk, graphs) ==
  [d \in DOMAIN desk |-> [r \in DOMAIN desk[d] |-> FirstOf(desk, graphs, d, r)]]

\* A page that reads what is stored shows each graph that is not hidden once.
LEMMA NormalizedIs ==
  ASSUME NEW desk, Rowed(desk), NEW graphs, Listing(graphs)
  PROVE  /\ Rowed(Normalized(desk, graphs)) /\ Normalized(desk, graphs) # <<>>
         /\ Laid(Normalized(desk, graphs), Visible(graphs))
<1> DEFINE some == Some(desk)
           N == FirstRows(some, graphs)
           F == FirstPlaces(some, graphs)
           W == {At(some, p) : p \in F}
<1>0. Normalized(desk, graphs) = WithUnplaced(N, graphs)
  BY DEF Normalized, EachRow, FirstRows, FirstOf
<1>1. Rowed(some) /\ some # <<>>
  BY SomeIs
<1> HIDE DEF some, W
<1>2. ASSUME NEW d \in DOMAIN some, NEW r \in DOMAIN some[d]
      PROVE  /\ N[d][r] \in Seq(Graph) /\ IsInjective(N[d][r])
             /\ Range(N[d][r]) = FirstIn(some, graphs, d, r)
  <2>1. N[d][r] = FirstOf(some, graphs, d, r)
    BY DEF FirstRows
  <2> HIDE DEF N, F
  <2>2. FirstOf(some, graphs, d, r) \in Seq(Graph)
    BY <1>1, FirstOfIs
  <2>3. IsInjective(FirstOf(some, graphs, d, r))
    BY <1>1, FirstOfIs
  <2>4. Range(FirstOf(some, graphs, d, r)) = FirstIn(some, graphs, d, r)
    BY <1>1, FirstOfIs
  <2> QED
    BY <2>1, <2>2, <2>3, <2>4
<1>c. ASSUME NEW d, NEW r, NEW x \in FirstIn(some, graphs, d, r)
      PROVE  \E i \in DOMAIN some[d][r] : <<d, r, i>> \in F /\ x = some[d][r][i]
  BY DEF FirstIn
<1>d. ASSUME NEW d, NEW r, NEW i \in DOMAIN some[d][r], <<d, r, i>> \in F
      PROVE  some[d][r][i] \in FirstIn(some, graphs, d, r)
  BY <1>d DEF FirstIn
<1>b. DOMAIN N = DOMAIN some /\ \A d \in DOMAIN some : DOMAIN N[d] = DOMAIN some[d]
  BY DEF FirstRows
<1>3. Rowed(N) /\ N # <<>>
  <2>1. ASSUME NEW d \in DOMAIN some PROVE N[d] \in [DOMAIN some[d] -> Seq(Graph)]
    <3>1. N[d] = [r \in DOMAIN some[d] |-> N[d][r]]
      BY DEF FirstRows
    <3>2. \A r \in DOMAIN some[d] : N[d][r] \in Seq(Graph)
      BY <1>2
    <3> HIDE DEF N
    <3> QED
      BY <3>1, <3>2
  <2>2. N \in [DOMAIN some -> {N[d] : d \in DOMAIN some}]
    BY DEF FirstRows
  <2>3. Rowed(N) /\ 1 \in DOMAIN N
    <3> HIDE DEF N
    <3> QED
      BY <1>1, <1>b, <2>1, <2>2, RowsTyped, RowedIs
  <2> QED
    BY <2>3, EmptySeq
<1>4. W \subseteq Visible(graphs)
  BY DEF FirstPlaces, W
<1>5. \A d \in DOMAIN some : \A r \in DOMAIN some[d] : \A i \in DOMAIN some[d][r] :
        At(some, <<d, r, i>>) = some[d][r][i]
  BY DEF At
<1>6. \A p \in F : \E d \in DOMAIN some : \E r \in DOMAIN some[d] : \E i \in DOMAIN some[d][r] :
        p = <<d, r, i>>
  BY PlacesAre DEF FirstPlaces
<1>7. \A p, q \in F : At(some, p) = At(some, q) => p = q
  BY <1>1, FirstAlone
<1> HIDE DEF N, F
<1>8. Laid(N, W)
  <2>1. ASSUME NEW d \in DOMAIN some, NEW r \in DOMAIN some[d], NEW e \in DOMAIN some,
               NEW s \in DOMAIN some[e], NEW x, x \in Range(N[d][r]), x \in Range(N[e][s])
        PROVE  d = e /\ r = s
    <3>a. x \in FirstIn(some, graphs, d, r) /\ x \in FirstIn(some, graphs, e, s)
      BY <1>2, <2>1
    <3>1. PICK i \in DOMAIN some[d][r] : <<d, r, i>> \in F /\ x = some[d][r][i]
      BY <1>c, <3>a
    <3>2. PICK j \in DOMAIN some[e][s] : <<e, s, j>> \in F /\ x = some[e][s][j]
      BY <1>c, <3>a
    <3>b. At(some, <<d, r, i>>) = x /\ At(some, <<e, s, j>>) = x
      BY <1>5, <3>1, <3>2
    <3>3. <<d, r, i>> = <<e, s, j>>
      BY <1>7, <3>1, <3>2, <3>b
    <3> QED
      BY <3>3
  <2>2. ASSUME NEW d \in DOMAIN some, NEW r \in DOMAIN some[d]
        PROVE  IsInjective(N[d][r]) /\ Range(N[d][r]) \subseteq W
    <3>1. ASSUME NEW x \in Range(N[d][r]) PROVE x \in W
      <4>1. PICK i \in DOMAIN some[d][r] : <<d, r, i>> \in F /\ x = some[d][r][i]
        BY <1>2, <1>c, <3>1
      <4> QED
        BY <1>5, <4>1 DEF W
    <3> QED
      BY <1>2, <3>1
  <2>3. ASSUME NEW v \in W
        PROVE  \E d \in DOMAIN some : \E r \in DOMAIN some[d] : v \in Range(N[d][r])
    <3>1. PICK p \in F : v = At(some, p)
      BY DEF W
    <3>2. PICK d \in DOMAIN some : \E r \in DOMAIN some[d] : \E i \in DOMAIN some[d][r] :
            p = <<d, r, i>>
      BY <1>6
    <3>3. PICK r \in DOMAIN some[d] : \E i \in DOMAIN some[d][r] : p = <<d, r, i>>
      BY <3>2
    <3>4. PICK i \in DOMAIN some[d][r] : p = <<d, r, i>>
      BY <3>3
    <3>5. v \in Range(N[d][r])
      BY <1>2, <1>5, <1>d, <3>1, <3>4
    <3> QED
      BY <3>5
  <2>4. ASSUME NEW d \in DOMAIN some, NEW r \in DOMAIN some[d], NEW e \in DOMAIN some,
               NEW s \in DOMAIN some[e], Range(N[d][r]) \cap Range(N[e][s]) # {}
        PROVE  d = e /\ r = s
    <3>1. PICK x : x \in Range(N[d][r]) /\ x \in Range(N[e][s])
      BY <2>4
    <3> QED
      BY <2>1, <3>1
  <2> QED
    BY <1>b, <2>2, <2>3, <2>4 DEF Laid
<1> QED
  BY <1>0, <1>3, <1>4, <1>8, UnplacedAre

\* A desk is its rows.
LEMMA DeskEqual ==
  ASSUME NEW desk, Rowed(desk), NEW N, Rowed(N), DOMAIN N = DOMAIN desk,
         \A d \in DOMAIN desk : DOMAIN N[d] = DOMAIN desk[d],
         \A d \in DOMAIN desk : \A r \in DOMAIN desk[d] : N[d][r] = desk[d][r]
  PROVE  N = desk
<1>1. ASSUME NEW d \in DOMAIN desk PROVE N[d] = desk[d]
  <2>1. N[d] \in Seq(Seq(Graph)) /\ desk[d] \in Seq(Seq(Graph))
    BY RowedIs
  <2>2. Len(N[d]) = Len(desk[d]) /\ \A r \in 1 .. Len(desk[d]) : N[d][r] = desk[d][r]
    BY <2>1, LenProperties
  <2> QED
    BY <2>1, <2>2, SeqEqual
<1>2. N \in Seq(Seq(Seq(Graph))) /\ desk \in Seq(Seq(Seq(Graph)))
  BY DEF Rowed
<1>3. Len(N) = Len(desk) /\ \A d \in 1 .. Len(desk) : N[d] = desk[d]
  BY <1>1, <1>2, LenProperties
<1> QED
  BY <1>2, <1>3, SeqEqual

\* What is laid out needs no first places.
LEMMA NormalizedSame ==
  ASSUME NEW desk, Rowed(desk), desk # <<>>, NEW graphs, Listing(graphs),
         Laid(desk, Visible(graphs))
  PROVE  Normalized(desk, graphs) = desk
<1> DEFINE N == FirstRows(desk, graphs)
<1>0. Normalized(desk, graphs) = WithUnplaced(N, graphs)
  BY SomeIs DEF Normalized, EachRow, FirstRows, FirstOf
<1>1. ASSUME NEW d \in DOMAIN desk, NEW r \in DOMAIN desk[d]
      PROVE  FirstOf(desk, graphs, d, r) = desk[d][r]
  <2>0. d \in Nat /\ r \in Nat /\ desk[d][r] \in Seq(Graph)
    BY RowedIs
  <2>1. ASSUME NEW i \in DOMAIN desk[d][r]
        PROVE  <<d, r, i>> \in FirstPlaces(desk, graphs)
    <3>1. <<d, r, i>> \in Places(desk)
      BY PlacesAre
    <3>2. At(desk, <<d, r, i>>) = desk[d][r][i] /\ desk[d][r][i] \in Range(desk[d][r])
      BY DEF At, Range
    <3>3. At(desk, <<d, r, i>>) \in Visible(graphs)
      BY <3>2, LaidIs
    <3>4. ASSUME NEW q \in Places(desk), Earlier(q, <<d, r, i>>)
          PROVE  At(desk, q) # At(desk, <<d, r, i>>)
      <4>1. PICK e \in DOMAIN desk : \E s \in DOMAIN desk[e] : \E j \in DOMAIN desk[e][s] :
              q = <<e, s, j>>
        BY PlacesAre
      <4>2. PICK s \in DOMAIN desk[e] : \E j \in DOMAIN desk[e][s] : q = <<e, s, j>>
        BY <4>1
      <4>3. PICK j \in DOMAIN desk[e][s] : q = <<e, s, j>>
        BY <4>2
      <4>4. At(desk, q) = desk[e][s][j] /\ desk[e][s][j] \in Range(desk[e][s])
        BY <4>3 DEF At, Range
      <4> SUFFICES ASSUME desk[e][s][j] = desk[d][r][i] PROVE FALSE
        BY <3>2, <4>4
      <4>5. e = d /\ s = r
        BY <3>2, <4>4, LaidIs
      <4>6. i = j
        BY <4>5, LaidIs DEF IsInjective
      <4>8. i \in Nat
        BY <2>0, LenProperties
      <4> QED
        BY <3>4, <4>3, <4>5, <4>6, <2>0, <4>8 DEF Earlier
    <3> QED
      BY <3>1, <3>3, <3>4 DEF FirstPlaces
  <2> QED
    BY <2>1, FirstOfIs
<1>2. DOMAIN N = DOMAIN desk /\ \A d \in DOMAIN desk : DOMAIN N[d] = DOMAIN desk[d]
  BY DEF FirstRows
<1>3. \A d \in DOMAIN desk : \A r \in DOMAIN desk[d] : N[d][r] = desk[d][r]
  BY <1>1 DEF FirstRows
<1>4. ASSUME NEW d \in DOMAIN desk PROVE N[d] = [r \in DOMAIN desk[d] |-> N[d][r]]
  BY DEF FirstRows
<1>5. N = [d \in DOMAIN desk |-> N[d]]
  BY DEF FirstRows
<1> HIDE DEF N
<1>6. Rowed(N)
  <2>1. ASSUME NEW d \in DOMAIN desk PROVE N[d] \in [DOMAIN desk[d] -> Seq(Graph)]
    <3>1. \A r \in DOMAIN desk[d] : N[d][r] \in Seq(Graph)
      BY <1>3, RowedIs
    <3> QED
      BY <1>4, <3>1
  <2>2. N \in [DOMAIN desk -> {N[d] : d \in DOMAIN desk}]
    BY <1>5
  <2> QED
    BY <1>2, <2>1, <2>2, RowsTyped
<1>7. N = desk
  BY <1>2, <1>3, <1>6, DeskEqual
<1> QED
  BY <1>0, <1>7, UnplacedAre

\* Rows that are made one by one.
LEMMA RowByRow ==
  ASSUME NEW desk, Rowed(desk), NEW N,
         N = [d \in DOMAIN desk |-> N[d]],
         \A d \in DOMAIN desk : N[d] = [r \in DOMAIN desk[d] |-> N[d][r]],
         \A d \in DOMAIN desk : \A r \in DOMAIN desk[d] : N[d][r] \in Seq(Graph)
  PROVE  /\ Rowed(N) /\ DOMAIN N = DOMAIN desk
         /\ \A d \in DOMAIN desk : DOMAIN N[d] = DOMAIN desk[d]
         /\ desk # <<>> => N # <<>>
<1>1. ASSUME NEW d \in DOMAIN desk PROVE N[d] \in [DOMAIN desk[d] -> Seq(Graph)]
  <2>1. \A r \in DOMAIN desk[d] : N[d][r] \in Seq(Graph)
    OBVIOUS
  <2>2. N[d] = [r \in DOMAIN desk[d] |-> N[d][r]]
    OBVIOUS
  <2> QED
    BY <2>1, <2>2
<1>2. N \in [DOMAIN desk -> {N[d] : d \in DOMAIN desk}]
  OBVIOUS
<1>3. /\ Rowed(N) /\ DOMAIN N = DOMAIN desk
      /\ \A d \in DOMAIN desk : DOMAIN N[d] = DOMAIN desk[d]
  BY <1>1, <1>2, RowsTyped
<1>4. desk # <<>> => 1 \in DOMAIN N
  BY <1>3, RowedIs
<1> QED
  BY <1>3, <1>4, EmptySeq

\* Without a graph.
LEMMA TakeIs ==
  ASSUME NEW desk, Rowed(desk), NEW id
  PROVE  /\ Rowed(Take(desk, id)) /\ DOMAIN Take(desk, id) = DOMAIN desk
         /\ \A d \in DOMAIN desk : DOMAIN Take(desk, id)[d] = DOMAIN desk[d]
         /\ desk # <<>> => Take(desk, id) # <<>>
         /\ \A V : Laid(desk, V) => Laid(Take(desk, id), V \ {id})
<1> DEFINE N == Take(desk, id)
<1>1. ASSUME NEW d \in DOMAIN desk, NEW r \in DOMAIN desk[d]
      PROVE  N[d][r] = Selected(desk[d][r], Range(desk[d][r]) \ {id})
  BY DEF Take, EachRow
<1>2. ASSUME NEW d \in DOMAIN desk PROVE N[d] = [r \in DOMAIN desk[d] |-> N[d][r]]
  BY DEF Take, EachRow
<1>3. N = [d \in DOMAIN desk |-> N[d]]
  BY DEF Take, EachRow
<1> HIDE DEF N
<1>4. ASSUME NEW d \in DOMAIN desk, NEW r \in DOMAIN desk[d] PROVE N[d][r] \in Seq(Graph)
  <2>1. desk[d][r] \in Seq(Graph)
    BY RowedIs
  <2>2. Selected(desk[d][r], Range(desk[d][r]) \ {id}) \in Seq(Graph)
    BY <2>1, SelectedTyped
  <2> QED
    BY <1>1, <2>2
<1>5. /\ Rowed(N) /\ DOMAIN N = DOMAIN desk
      /\ \A d \in DOMAIN desk : DOMAIN N[d] = DOMAIN desk[d]
      /\ desk # <<>> => N # <<>>
  BY <1>2, <1>3, <1>4, RowByRow
<1>6. ASSUME NEW V, Laid(desk, V) PROVE Laid(N, V \ {id})
  <2>1. ASSUME NEW d \in DOMAIN desk, NEW r \in DOMAIN desk[d]
        PROVE  /\ IsInjective(N[d][r])
               /\ \A x : x \in Range(N[d][r]) <=> x \in Range(desk[d][r]) /\ x # id
    <3>1. desk[d][r] \in Seq(Graph) /\ IsInjective(desk[d][r])
      BY <1>6, RowedIs, LaidIs
    <3>2. LET left == Selected(desk[d][r], Range(desk[d][r]) \ {id})
          IN /\ IsInjective(left)
             /\ \A x : x \in Range(left) <=> x \in Range(desk[d][r])
                  /\ x \in Range(desk[d][r]) \ {id}
      BY <3>1, SelectedIs
    <3> QED
      BY <1>1, <3>2
  <2>2. ASSUME NEW d \in DOMAIN desk, NEW r \in DOMAIN desk[d]
        PROVE  IsInjective(N[d][r]) /\ Range(N[d][r]) \subseteq V \ {id}
    <3>1. Range(desk[d][r]) \subseteq V
      BY <1>6, LaidIs
    <3> QED
      BY <2>1, <3>1
  <2>3. ASSUME NEW d \in DOMAIN desk, NEW r \in DOMAIN desk[d], NEW e \in DOMAIN desk,
               NEW s \in DOMAIN desk[e], Range(N[d][r]) \cap Range(N[e][s]) # {}
        PROVE  d = e /\ r = s
    <3>1. PICK x : x \in Range(N[d][r]) /\ x \in Range(N[e][s])
      BY <2>3
    <3>2. x \in Range(desk[d][r]) /\ x \in Range(desk[e][s])
      BY <2>1, <3>1
    <3> QED
      BY <1>6, <3>2, LaidIs
  <2>4. ASSUME NEW v \in V \ {id}
        PROVE  \E d \in DOMAIN desk : \E r \in DOMAIN desk[d] : v \in Range(N[d][r])
    <3>1. PICK d \in DOMAIN desk : \E r \in DOMAIN desk[d] : v \in Range(desk[d][r])
      BY <1>6, LaidIs
    <3>2. PICK r \in DOMAIN desk[d] : v \in Range(desk[d][r])
      BY <3>1
    <3>3. v \in Range(N[d][r])
      BY <2>1, <3>2
    <3> QED
      BY <3>3
  <2> QED
    <3>1. \A d \in DOMAIN N : \A r \in DOMAIN N[d] : IsInjective(N[d][r])
            /\ Range(N[d][r]) \subseteq V \ {id}
      BY <1>5, <2>2
    <3>2. \A d \in DOMAIN N : \A r \in DOMAIN N[d] : \A e \in DOMAIN N : \A s \in DOMAIN N[e] :
            Range(N[d][r]) \cap Range(N[e][s]) # {} => d = e /\ r = s
      BY <1>5, <2>3
    <3>3. \A v \in V \ {id} : \E d \in DOMAIN N : \E r \in DOMAIN N[d] : v \in Range(N[d][r])
      BY <1>5, <2>4
    <3> QED
      BY <3>1, <3>2, <3>3 DEF Laid
<1>7. \A V : Laid(desk, V) => Laid(N, V \ {id})
  BY <1>6
<1> QED
  BY <1>5, <1>7 DEF N

\* What the server makes of the dashboards.
LEMMA ArrangedIs ==
  ASSUME NEW desk, Rowed(desk), NEW graphs, Listing(graphs)
  PROVE  /\ Rowed(Arranged(desk, graphs)) /\ Arranged(desk, graphs) # <<>>
         /\ desk # <<>> /\ Laid(desk, Visible(graphs)) => Arranged(desk, graphs) = desk
<1> DEFINE some == Some(desk)
           N == EachRow(some, LAMBDA d, r : Selected(some[d][r], IdsOf(graphs)))
<1>0. Arranged(desk, graphs) = WithUnplaced(N, graphs)
  BY DEF Arranged
<1>1. Rowed(some) /\ some # <<>> /\ (desk # <<>> => some = desk)
  BY SomeIs
<1> HIDE DEF some
<1>2. ASSUME NEW d \in DOMAIN some, NEW r \in DOMAIN some[d]
      PROVE  N[d][r] = Selected(some[d][r], IdsOf(graphs))
  BY DEF EachRow
<1>3. ASSUME NEW d \in DOMAIN some PROVE N[d] = [r \in DOMAIN some[d] |-> N[d][r]]
  BY DEF EachRow
<1>4. N = [d \in DOMAIN some |-> N[d]]
  BY DEF EachRow
<1> HIDE DEF N
<1>5. ASSUME NEW d \in DOMAIN some, NEW r \in DOMAIN some[d] PROVE N[d][r] \in Seq(Graph)
  <2>1. some[d][r] \in Seq(Graph)
    BY <1>1, RowedIs
  <2> QED
    BY <1>2, <2>1, SelectedTyped
<1>6. /\ Rowed(N) /\ DOMAIN N = DOMAIN some /\ N # <<>>
      /\ \A d \in DOMAIN some : DOMAIN N[d] = DOMAIN some[d]
  BY <1>1, <1>3, <1>4, <1>5, RowByRow
<1>7. ASSUME desk # <<>>, Laid(desk, Visible(graphs)) PROVE N = desk
  <2>1. some = desk
    BY <1>1, <1>7
  <2>2. ASSUME NEW d \in DOMAIN desk, NEW r \in DOMAIN desk[d] PROVE N[d][r] = desk[d][r]
    <3>1. desk[d][r] \in Seq(Graph) /\ Range(desk[d][r]) \subseteq Visible(graphs)
      BY <1>7, RowedIs, LaidIs
    <3>2. Range(desk[d][r]) \subseteq IdsOf(graphs)
      BY <3>1, ListingIs
    <3> QED
      BY <1>2, <2>1, <3>1, <3>2, SelectedAll
  <2> QED
    BY <1>6, <2>1, <2>2, DeskEqual
<1> QED
  BY <1>0, <1>6, <1>7, UnplacedAre

-----------------------------------------------------------------------------
(* What the user makes of a desk. *)

LEMMA LaidBy ==
  ASSUME NEW desk, NEW V,
         \A d \in DOMAIN desk : \A r \in DOMAIN desk[d] : IsInjective(desk[d][r]),
         \A d \in DOMAIN desk : \A r \in DOMAIN desk[d] : \A x \in Range(desk[d][r]) : x \in V,
         \A d \in DOMAIN desk : \A r \in DOMAIN desk[d] : \A e \in DOMAIN desk :
           \A s \in DOMAIN desk[e] : \A x :
             x \in Range(desk[d][r]) /\ x \in Range(desk[e][s]) => d = e /\ r = s,
         \A v \in V : \E d \in DOMAIN desk : \E r \in DOMAIN desk[d] : v \in Range(desk[d][r])
  PROVE  Laid(desk, V)
<1>1. \A d \in DOMAIN desk : \A r \in DOMAIN desk[d] : Range(desk[d][r]) \subseteq V
  OBVIOUS
<1>2. ASSUME NEW d \in DOMAIN desk, NEW r \in DOMAIN desk[d], NEW e \in DOMAIN desk,
             NEW s \in DOMAIN desk[e], Range(desk[d][r]) \cap Range(desk[e][s]) # {}
      PROVE  d = e /\ r = s
  <2>1. PICK x : x \in Range(desk[d][r]) /\ x \in Range(desk[e][s])
    BY <1>2
  <2> QED
    BY <2>1
<1> QED
  BY <1>1, <1>2 DEF Laid

\* A desk of rows of another one, each from a place of its own.
Derived(N, desk, f, g) ==
  /\ \A d \in DOMAIN N : f[d] \in DOMAIN desk
  /\ \A d \in DOMAIN N : \A r \in DOMAIN N[d] : g[d][r] \in DOMAIN desk[f[d]]
  /\ \A d \in DOMAIN N : \A r \in DOMAIN N[d] : N[d][r] = desk[f[d]][g[d][r]]
  /\ \A d, e \in DOMAIN N : f[d] = f[e] => d = e
  /\ \A d \in DOMAIN N : \A r, s \in DOMAIN N[d] : g[d][r] = g[d][s] => r = s

LEMMA LaidFrom ==
  ASSUME NEW desk, NEW V, Laid(desk, V), NEW N, NEW f, NEW g, Derived(N, desk, f, g)
  PROVE  Laid(N, Placed(N))
<1> DEFINE W == Placed(N)
<1>a. \A v : v \in W <=> \E d \in DOMAIN N : \E r \in DOMAIN N[d] : v \in Range(N[d][r])
  BY PlacedIs
<1> HIDE DEF W
<1>b. /\ \A d \in DOMAIN N : f[d] \in DOMAIN desk
      /\ \A d \in DOMAIN N : \A r \in DOMAIN N[d] : g[d][r] \in DOMAIN desk[f[d]]
      /\ \A d \in DOMAIN N : \A r \in DOMAIN N[d] : N[d][r] = desk[f[d]][g[d][r]]
      /\ \A d, e \in DOMAIN N : f[d] = f[e] => d = e
      /\ \A d \in DOMAIN N : \A r, s \in DOMAIN N[d] : g[d][r] = g[d][s] => r = s
  BY DEF Derived
<1>1. ASSUME NEW d \in DOMAIN N, NEW r \in DOMAIN N[d] PROVE IsInjective(N[d][r])
  BY <1>b, LaidIs
<1>2. ASSUME NEW d \in DOMAIN N, NEW r \in DOMAIN N[d], NEW x \in Range(N[d][r]) PROVE x \in W
  BY <1>a
<1>3. ASSUME NEW d \in DOMAIN N, NEW r \in DOMAIN N[d], NEW e \in DOMAIN N, NEW s \in DOMAIN N[e],
             NEW x, x \in Range(N[d][r]), x \in Range(N[e][s])
      PROVE  d = e /\ r = s
  <2>1. x \in Range(desk[f[d]][g[d][r]]) /\ x \in Range(desk[f[e]][g[e][s]])
    BY <1>b, <1>3
  <2>2. f[d] = f[e] /\ g[d][r] = g[e][s]
    BY <1>b, <2>1, LaidIs
  <2> QED
    BY <1>b, <2>2
<1>4. \A v \in W : \E d \in DOMAIN N : \E r \in DOMAIN N[d] : v \in Range(N[d][r])
  BY <1>a
<1>5. Laid(N, W)
  BY <1>1, <1>2, <1>3, <1>4, LaidBy
<1> QED
  BY <1>5 DEF W

\* A graph is put into a row, and stands nowhere else.
LEMMA MovedIs ==
  ASSUME NEW desk, Rowed(desk), NEW V, Laid(desk, V), NEW id \in V, id \in Graph,
         NEW d \in DOMAIN desk, NEW r \in DOMAIN desk[d]
  PROVE  /\ Rowed(Moved(desk, id, d, r)) /\ Moved(desk, id, d, r) # <<>>
         /\ Laid(Moved(desk, id, d, r), V)
<1> DEFINE N == Take(desk, id)
           row == Append(N[d][r], id)
<1>1. Rowed(N) /\ d \in DOMAIN N /\ r \in DOMAIN N[d] /\ Laid(N, V \ {id})
  BY TakeIs
<1>2. Moved(desk, id, d, r) = [N EXCEPT ![d][r] = row]
  BY DEF Moved
<1> HIDE DEF N
<1>3. N[d][r] \in Seq(Graph) /\ IsInjective(N[d][r]) /\ id \notin Range(N[d][r])
  <2>1. N[d][r] \in Seq(Graph)
    BY <1>1, RowedIs
  <2>2. IsInjective(N[d][r]) /\ Range(N[d][r]) \subseteq V \ {id}
    BY <1>1, LaidIs
  <2> QED
    BY <2>1, <2>2
<1>4. row \in Seq(Graph) /\ IsInjective(row) /\ Range(row) = Range(N[d][r]) \cup {id}
  BY <1>3, AppendedIs
<1> HIDE DEF row
<1>5. Rowed([N EXCEPT ![d][r] = row]) /\ [N EXCEPT ![d][r] = row] # <<>>
  BY <1>1, <1>4, RowPut
<1>6. Laid([N EXCEPT ![d][r] = row], (V \ {id}) \cup {id})
  BY <1>1, <1>4, RowGrown
<1>7. (V \ {id}) \cup {id} = V
  OBVIOUS
<1> QED
  BY <1>2, <1>5, <1>6, <1>7

\* Two neighbours of a row change places.
LEMMA SwappedIs ==
  ASSUME NEW desk, Rowed(desk), NEW V, Laid(desk, V), NEW d \in DOMAIN desk,
         NEW r \in DOMAIN desk[d],
         NEW i \in DOMAIN desk[d][r], i + 1 \in DOMAIN desk[d][r]
  PROVE  LET row == desk[d][r]
             N == [desk EXCEPT ![d][r] = [row EXCEPT ![i] = row[i + 1], ![i + 1] = row[i]]]
         IN Rowed(N) /\ N # <<>> /\ Laid(N, V)
<1> DEFINE row == desk[d][r]
           new == [row EXCEPT ![i] = row[i + 1], ![i + 1] = row[i]]
<1>1. row \in Seq(Graph) /\ IsInjective(row)
  BY RowedIs, LaidIs
<1>2. i \in DOMAIN row /\ i + 1 \in DOMAIN row /\ i # i + 1
  BY <1>1, LenProperties
<1> HIDE DEF row
<1>3. /\ DOMAIN new = DOMAIN row
      /\ \A k \in DOMAIN row : new[k] = IF k = i THEN row[i + 1] ELSE IF k = i + 1 THEN row[i]
           ELSE row[k]
  BY <1>1, <1>2
<1>4. new \in Seq(Graph)
  BY <1>1, <1>2
<1> HIDE DEF new
<1>5. IsInjective(new)
  <2> SUFFICES ASSUME NEW k \in DOMAIN row, NEW l \in DOMAIN row, new[k] = new[l] PROVE k = l
    BY <1>3 DEF IsInjective
  <2> QED
    BY <1>1, <1>2, <1>3 DEF IsInjective
<1>6. Range(new) = Range(row)
  <2>1. ASSUME NEW k \in DOMAIN row PROVE new[k] \in Range(row)
    BY <1>2, <1>3 DEF Range
  <2>2. ASSUME NEW k \in DOMAIN row PROVE row[k] \in Range(new)
    <3>1. PICK l \in DOMAIN row : new[l] = row[k]
      BY <1>2, <1>3
    <3> QED
      BY <1>3, <3>1 DEF Range
  <2> QED
    BY <1>3, <2>1, <2>2 DEF Range
<1>7. Rowed([desk EXCEPT ![d][r] = new]) /\ [desk EXCEPT ![d][r] = new] # <<>>
  BY <1>4, RowPut
<1>8. Laid([desk EXCEPT ![d][r] = new], V \cup {})
  BY <1>4, <1>5, <1>6, RowGrown DEF row
<1> QED
  BY <1>7, <1>8 DEF row, new

\* A dashboard in place of another one.
LEMMA DashboardPut ==
  ASSUME NEW desk, Rowed(desk), NEW d \in DOMAIN desk, NEW lines \in Seq(Seq(Graph)), lines # <<>>
  PROVE  LET N == [desk EXCEPT ![d] = lines]
         IN /\ Rowed(N) /\ N # <<>> /\ DOMAIN N = DOMAIN desk
            /\ \A e \in DOMAIN desk : N[e] = IF e = d THEN lines ELSE desk[e]
<1> DEFINE N == [desk EXCEPT ![d] = lines]
<1>1. desk \in Seq(Seq(Seq(Graph))) /\ \A e \in DOMAIN desk : desk[e] # <<>>
  BY DEF Rowed
<1>2. DOMAIN N = DOMAIN desk /\ \A e \in DOMAIN desk : N[e] = IF e = d THEN lines ELSE desk[e]
  BY <1>1
<1>3. N \in Seq(Seq(Seq(Graph)))
  BY <1>1
<1> HIDE DEF N
<1>4. Rowed(N)
  BY <1>1, <1>2, <1>3 DEF Rowed
<1>5. N # <<>>
  BY <1>2, EmptySeq
<1> QED
  BY <1>2, <1>4, <1>5 DEF N

\* An empty row.
LEMMA RowAppended ==
  ASSUME NEW desk, Rowed(desk), NEW V, Laid(desk, V), NEW d \in DOMAIN desk
  PROVE  LET N == [desk EXCEPT ![d] = Append(desk[d], <<>>)]
         IN Rowed(N) /\ N # <<>> /\ Laid(N, V)
<1> DEFINE lines == Append(desk[d], <<>>)
           N == [desk EXCEPT ![d] = lines]
<1>1. desk[d] \in Seq(Seq(Graph)) /\ Len(desk[d]) \in Nat /\ DOMAIN desk[d] = 1 .. Len(desk[d])
  BY RowedIs
<1>2. <<>> \in Seq(Graph)
  OBVIOUS
<1>3. /\ lines \in Seq(Seq(Graph)) /\ DOMAIN lines = 1 .. Len(desk[d]) + 1
      /\ \A r \in DOMAIN desk[d] : lines[r] = desk[d][r]
      /\ lines[Len(desk[d]) + 1] = <<>>
  BY <1>1, <1>2, AppendProperties
<1>4. lines # <<>>
  BY <1>1, <1>3, EmptySeq
<1> HIDE DEF lines
<1>5. /\ Rowed(N) /\ N # <<>> /\ DOMAIN N = DOMAIN desk
      /\ \A e \in DOMAIN desk : N[e] = IF e = d THEN lines ELSE desk[e]
  BY <1>3, <1>4, DashboardPut
<1> HIDE DEF N
<1>6. \A x : x \notin Range(<<>>)
  BY EmptySeq DEF Range
<1>7. IsInjective(<<>>)
  BY EmptySeq DEF IsInjective
<1>8. ASSUME NEW e \in DOMAIN N, NEW r \in DOMAIN N[e]
      PROVE  N[e][r] = <<>> \/ (r \in DOMAIN desk[e] /\ N[e][r] = desk[e][r])
  <2>1. CASE e = d
    <3>1. N[e] = lines /\ r \in 1 .. Len(desk[d]) + 1
      BY <1>3, <1>5, <2>1
    <3>2. CASE r = Len(desk[d]) + 1
      BY <1>3, <3>1, <3>2
    <3>3. CASE r # Len(desk[d]) + 1
      <4>1. r \in DOMAIN desk[d]
        BY <1>1, <3>1, <3>3
      <4> QED
        BY <1>3, <2>1, <3>1, <4>1
    <3> QED
      BY <3>2, <3>3
  <2>2. CASE e # d
    BY <1>5, <2>2
  <2> QED
    BY <2>1, <2>2
<1>9. ASSUME NEW e \in DOMAIN desk, NEW r \in DOMAIN desk[e]
      PROVE  e \in DOMAIN N /\ r \in DOMAIN N[e] /\ N[e][r] = desk[e][r]
  <2>1. CASE e = d
    BY <1>1, <1>3, <1>5, <2>1
  <2>2. CASE e # d
    BY <1>5, <2>2
  <2> QED
    BY <2>1, <2>2
<1>10. ASSUME NEW e \in DOMAIN N, NEW r \in DOMAIN N[e], NEW x \in Range(N[e][r])
       PROVE  r \in DOMAIN desk[e] /\ x \in Range(desk[e][r])
  BY <1>6, <1>8
<1>11. Laid(N, V)
  <2>1. ASSUME NEW e \in DOMAIN N, NEW r \in DOMAIN N[e] PROVE IsInjective(N[e][r])
    BY <1>5, <1>7, <1>8, LaidIs
  <2>2. ASSUME NEW e \in DOMAIN N, NEW r \in DOMAIN N[e], NEW x \in Range(N[e][r]) PROVE x \in V
    BY <1>5, <1>10, LaidIs
  <2>3. ASSUME NEW e \in DOMAIN N, NEW r \in DOMAIN N[e], NEW g \in DOMAIN N,
               NEW s \in DOMAIN N[g],
               NEW x, x \in Range(N[e][r]), x \in Range(N[g][s])
        PROVE  e = g /\ r = s
    <3>1. r \in DOMAIN desk[e] /\ x \in Range(desk[e][r]) /\ s \in DOMAIN desk[g]
            /\ x \in Range(desk[g][s])
      BY <1>10, <2>3
    <3> QED
      BY <1>5, <3>1, LaidIs
  <2>4. ASSUME NEW v \in V PROVE \E e \in DOMAIN N : \E r \in DOMAIN N[e] : v \in Range(N[e][r])
    <3>1. PICK e \in DOMAIN desk : \E r \in DOMAIN desk[e] : v \in Range(desk[e][r])
      BY LaidIs
    <3>2. PICK r \in DOMAIN desk[e] : v \in Range(desk[e][r])
      BY <3>1
    <3>3. e \in DOMAIN N /\ r \in DOMAIN N[e] /\ v \in Range(N[e][r])
      BY <1>9, <3>2
    <3> QED
      BY <3>3
  <2> QED
    BY <2>1, <2>2, <2>3, <2>4, LaidBy
<1> QED
  BY <1>5, <1>11 DEF N, lines

\* A row is removed, and what stood in it goes behind the first of those that stay.
LEMMA RowRemoved ==
  ASSUME NEW desk, Rowed(desk), NEW V, Laid(desk, V), NEW d \in DOMAIN desk,
         NEW r \in DOMAIN desk[d],
         RemoveAt(desk[d], r) # <<>>
  PROVE  LET lines == RemoveAt(desk[d], r)
             N == [desk EXCEPT ![d] = [lines EXCEPT ![1] = lines[1] \o desk[d][r]]]
         IN Rowed(N) /\ N # <<>> /\ Laid(N, V)
<1> DEFINE lines == RemoveAt(desk[d], r)
           M == [desk EXCEPT ![d] = lines]
           gone == Range(desk[d][r])
           row == lines[1] \o desk[d][r]
           N == [M EXCEPT ![d][1] = row]
           m == Len(desk[d]) - 1
<1>1. /\ desk[d] \in Seq(Seq(Graph)) /\ Len(desk[d]) \in Nat /\ DOMAIN desk[d] = 1 .. Len(desk[d])
      /\ desk[d][r] \in Seq(Graph)
  BY RowedIs
<1>2. /\ lines \in Seq(Seq(Graph)) /\ Len(lines) = m
      /\ \A k \in 1 .. m : lines[k] = IF k < r THEN desk[d][k] ELSE desk[d][k + 1]
  BY <1>1, RemovedAre
<1>3. lines # <<>>
  OBVIOUS
<1>w. [lines EXCEPT ![1] = lines[1] \o desk[d][r]] = [lines EXCEPT ![1] = row]
  OBVIOUS
<1> HIDE DEF lines
<1>4. m \in Nat /\ DOMAIN lines = 1 .. m /\ 1 \in 1 .. m /\ r \in 1 .. m + 1
  BY <1>1, <1>2, <1>3, LenProperties, EmptySeq
<1>5. /\ Rowed(M) /\ M # <<>> /\ DOMAIN M = DOMAIN desk
      /\ \A e \in DOMAIN desk : M[e] = IF e = d THEN lines ELSE desk[e]
  BY <1>2, <1>3, DashboardPut
<1>x. N = [desk EXCEPT ![d] = [lines EXCEPT ![1] = row]]
  BY <1>1
<1> HIDE DEF M, m
<1> DEFINE f == [e \in DOMAIN M |-> e]
           g == [e \in DOMAIN M |-> [k \in DOMAIN M[e] |->
                   IF e = d THEN IF k < r THEN k ELSE k + 1 ELSE k]]
<1>6. \A e \in DOMAIN M : f[e] \in DOMAIN desk /\ f[e] = e
  BY <1>5
<1>7. ASSUME NEW e \in DOMAIN M, NEW k \in DOMAIN M[e]
      PROVE  g[e][k] = IF e = d THEN IF k < r THEN k ELSE k + 1 ELSE k
  OBVIOUS
<1> HIDE DEF f, g
<1>8. ASSUME NEW e \in DOMAIN M, NEW k \in DOMAIN M[e]
      PROVE  g[e][k] \in DOMAIN desk[e] /\ M[e][k] = desk[e][g[e][k]]
  <2>1. CASE e = d
    <3>1. k \in 1 .. m
      BY <1>4, <1>5, <2>1
    <3>2. g[e][k] = IF k < r THEN k ELSE k + 1
      BY <1>7, <2>1
    <3>3. g[e][k] \in 1 .. m + 1
      BY <1>4, <3>1, <3>2
    <3>4. DOMAIN desk[d] = 1 .. m + 1
      BY <1>1 DEF m
    <3>5. M[e][k] = IF k < r THEN desk[d][k] ELSE desk[d][k + 1]
      BY <1>2, <1>5, <2>1, <3>1
    <3> QED
      BY <2>1, <3>2, <3>3, <3>4, <3>5
  <2>2. CASE e # d
    BY <1>5, <1>7, <2>2
  <2> QED
    BY <2>1, <2>2
<1>9. ASSUME NEW e \in DOMAIN M, NEW k \in DOMAIN M[e], NEW l \in DOMAIN M[e], g[e][k] = g[e][l]
      PROVE  k = l
  <2>1. CASE e = d
    <3>1. k \in 1 .. m /\ l \in 1 .. m
      BY <1>4, <1>5, <2>1
    <3> QED
      BY <1>4, <1>7, <1>9, <2>1, <3>1
  <2>2. CASE e # d
    BY <1>7, <1>9, <2>2
  <2> QED
    BY <2>1, <2>2
<1>10. ASSUME NEW v
       PROVE  v \in V \ gone <=> \E e \in DOMAIN M : \E k \in DOMAIN M[e] : v \in Range(M[e][k])
  <2>1. ASSUME NEW e \in DOMAIN M, NEW k \in DOMAIN M[e], v \in Range(M[e][k])
        PROVE  v \in V \ gone
    <3>1. e \in DOMAIN desk /\ g[e][k] \in DOMAIN desk[e] /\ v \in Range(desk[e][g[e][k]])
      BY <1>5, <1>8, <2>1
    <3>2. v \in V
      BY <3>1, LaidIs
    <3>3. ASSUME v \in gone PROVE FALSE
      <4>1. e = d /\ g[e][k] = r
        BY <3>1, <3>3, LaidIs
      <4>2. k \in 1 .. m
        BY <1>4, <1>5, <4>1
      <4> QED
        BY <1>4, <1>7, <4>1, <4>2
    <3> QED
      BY <3>2, <3>3
  <2>2. ASSUME v \in V \ gone
        PROVE  \E e \in DOMAIN M : \E k \in DOMAIN M[e] : v \in Range(M[e][k])
    <3>1. PICK e \in DOMAIN desk : \E k \in DOMAIN desk[e] : v \in Range(desk[e][k])
      BY <2>2, LaidIs
    <3>2. PICK k \in DOMAIN desk[e] : v \in Range(desk[e][k])
      BY <3>1
    <3>3. CASE e = d
      <4>1. k # r /\ k \in 1 .. m + 1
        BY <1>1, <2>2, <3>2, <3>3 DEF m
      <4>2. PICK l \in 1 .. m : k = IF l < r THEN l ELSE l + 1
        <5>1. CASE k < r
          BY <1>4, <4>1, <5>1
        <5>2. CASE k > r
          <6>1. k - 1 \in 1 .. m /\ ~ (k - 1 < r) /\ k = (k - 1) + 1
            BY <1>4, <4>1, <5>2
          <6> QED
            BY <6>1
        <5> QED
          BY <1>4, <4>1, <5>1, <5>2
      <4>3. M[d][l] = desk[d][k] /\ l \in DOMAIN M[d]
        BY <1>2, <1>4, <1>5, <4>2
      <4> QED
        BY <1>5, <3>2, <3>3, <4>3
    <3>4. CASE e # d
      BY <1>5, <3>2, <3>4
    <3> QED
      BY <3>3, <3>4
  <2> QED
    BY <2>1, <2>2
<1> HIDE DEF gone
<1>11. Laid(M, V \ gone)
  <2>1. \A e \in DOMAIN M : f[e] \in DOMAIN desk
    BY <1>6
  <2>2. \A e \in DOMAIN M : \A k \in DOMAIN M[e] : g[e][k] \in DOMAIN desk[f[e]]
    BY <1>6, <1>8
  <2>3. \A e \in DOMAIN M : \A k \in DOMAIN M[e] : M[e][k] = desk[f[e]][g[e][k]]
    BY <1>6, <1>8
  <2>4. \A e, h \in DOMAIN M : f[e] = f[h] => e = h
    BY <1>6
  <2>5. \A e \in DOMAIN M : \A k, l \in DOMAIN M[e] : g[e][k] = g[e][l] => k = l
    BY <1>9
  <2>6. Derived(M, desk, f, g)
    BY <2>1, <2>2, <2>3, <2>4, <2>5 DEF Derived
  <2>7. \A v : v \in V \ gone <=> v \in Placed(M)
    BY <1>10, PlacedIs
  <2>8. V \ gone = Placed(M)
    BY <2>7
  <2> QED
    BY <2>6, <2>8, LaidFrom
<1>12. d \in DOMAIN M /\ 1 \in DOMAIN M[d] /\ M[d][1] = lines[1]
  BY <1>4, <1>5
<1>13. /\ row \in Seq(Graph) /\ IsInjective(row)
       /\ Range(row) = Range(M[d][1]) \cup gone
  <2>1. M[d][1] \in Seq(Graph)
    BY <1>5, <1>12, RowedIs
  <2>2. IsInjective(M[d][1]) /\ Range(M[d][1]) \subseteq V \ gone
    BY <1>11, <1>12, LaidIs
  <2>3. IsInjective(desk[d][r])
    BY LaidIs
  <2>4. Range(M[d][1]) \cap Range(desk[d][r]) = {}
    BY <2>2 DEF gone
  <2> QED
    BY <1>1, <1>12, <2>1, <2>2, <2>3, <2>4, JoinedIs DEF gone
<1> HIDE DEF row
<1>14. Rowed(N) /\ N # <<>>
  <2>1. Rowed(M) /\ row \in Seq(Graph)
    BY <1>5, <1>13
  <2> QED
    BY <1>12, <2>1, RowPut
<1>15. Laid(N, (V \ gone) \cup gone)
  BY <1>5, <1>11, <1>12, <1>13, RowGrown
<1>16. gone \subseteq V
  BY LaidIs DEF gone
<1>17. (V \ gone) \cup gone = V
  BY <1>16
<1> QED
  BY <1>14, <1>15, <1>17, <1>w, <1>x DEF lines

\* An empty dashboard.
LEMMA DashboardAdded ==
  ASSUME NEW desk, Rowed(desk), NEW V, Laid(desk, V)
  PROVE  LET N == Append(desk, << <<>> >>)
         IN Rowed(N) /\ N # <<>> /\ Laid(N, V)
<1> DEFINE one == << <<>> >>
           N == Append(desk, one)
<1>1. one \in Seq(Seq(Graph)) /\ one # <<>> /\ DOMAIN one = {1} /\ one[1] = <<>>
  <2>1. <<>> \in Seq(Graph)
    OBVIOUS
  <2>2. one \in Seq(Seq(Graph)) /\ DOMAIN one = {1} /\ one[1] = <<>>
    BY <2>1
  <2> QED
    BY <2>2, EmptySeq
<1> HIDE DEF one
<1>2. desk \in Seq(Seq(Seq(Graph))) /\ Len(desk) \in Nat /\ DOMAIN desk = 1 .. Len(desk)
  BY RowedIs DEF Rowed
<1>3. /\ N \in Seq(Seq(Seq(Graph))) /\ DOMAIN N = 1 .. Len(desk) + 1
      /\ \A e \in DOMAIN desk : N[e] = desk[e]
      /\ N[Len(desk) + 1] = one
  BY <1>1, <1>2, AppendProperties
<1> HIDE DEF N
<1>4. ASSUME NEW e \in DOMAIN N PROVE (e \in DOMAIN desk /\ N[e] = desk[e]) \/ N[e] = one
  BY <1>2, <1>3
<1>5. Rowed(N) /\ N # <<>>
  <2>1. \A e \in DOMAIN N : N[e] # <<>>
    BY <1>1, <1>4, RowedIs
  <2>2. N # <<>>
    BY <1>2, <1>3, EmptySeq
  <2> QED
    BY <1>3, <2>1, <2>2 DEF Rowed
<1>6. \A x : x \notin Range(<<>>)
  BY EmptySeq DEF Range
<1>7. IsInjective(<<>>)
  BY EmptySeq DEF IsInjective
<1>8. ASSUME NEW e \in DOMAIN N, NEW r \in DOMAIN N[e]
      PROVE  N[e][r] = <<>> \/ (e \in DOMAIN desk /\ r \in DOMAIN desk[e] /\ N[e][r] = desk[e][r])
  BY <1>1, <1>4
<1>9. ASSUME NEW e \in DOMAIN desk, NEW r \in DOMAIN desk[e]
      PROVE  e \in DOMAIN N /\ r \in DOMAIN N[e] /\ N[e][r] = desk[e][r]
  BY <1>2, <1>3
<1>10. ASSUME NEW e \in DOMAIN N, NEW r \in DOMAIN N[e], NEW x \in Range(N[e][r])
       PROVE  e \in DOMAIN desk /\ r \in DOMAIN desk[e] /\ x \in Range(desk[e][r])
  BY <1>6, <1>8
<1>11. Laid(N, V)
  <2>1. ASSUME NEW e \in DOMAIN N, NEW r \in DOMAIN N[e] PROVE IsInjective(N[e][r])
    BY <1>7, <1>8, LaidIs
  <2>2. ASSUME NEW e \in DOMAIN N, NEW r \in DOMAIN N[e], NEW x \in Range(N[e][r]) PROVE x \in V
    BY <1>10, LaidIs
  <2>3. ASSUME NEW e \in DOMAIN N, NEW r \in DOMAIN N[e], NEW g \in DOMAIN N,
               NEW s \in DOMAIN N[g],
               NEW x, x \in Range(N[e][r]), x \in Range(N[g][s])
        PROVE  e = g /\ r = s
    <3>1. /\ e \in DOMAIN desk /\ r \in DOMAIN desk[e] /\ x \in Range(desk[e][r])
          /\ g \in DOMAIN desk /\ s \in DOMAIN desk[g] /\ x \in Range(desk[g][s])
      BY <1>10, <2>3
    <3> QED
      BY <3>1, LaidIs
  <2>4. ASSUME NEW v \in V PROVE \E e \in DOMAIN N : \E r \in DOMAIN N[e] : v \in Range(N[e][r])
    <3>1. PICK e \in DOMAIN desk : \E r \in DOMAIN desk[e] : v \in Range(desk[e][r])
      BY LaidIs
    <3>2. PICK r \in DOMAIN desk[e] : v \in Range(desk[e][r])
      BY <3>1
    <3>3. e \in DOMAIN N /\ r \in DOMAIN N[e] /\ v \in Range(N[e][r])
      BY <1>9, <3>2
    <3> QED
      BY <3>3
  <2> QED
    BY <2>1, <2>2, <2>3, <2>4, LaidBy
<1> QED
  BY <1>5, <1>11 DEF N, one

\* Whole dashboards, each from a place of its own.
PlacesFrom(N, desk, f) ==
  /\ \A e \in DOMAIN N : f[e] \in DOMAIN desk /\ N[e] = desk[f[e]]
  /\ \A d, e \in DOMAIN N : f[d] = f[e] => d = e

LEMMA DashboardsFrom ==
  ASSUME NEW desk, Rowed(desk), NEW V, Laid(desk, V), NEW N \in Seq(Seq(Seq(Graph))),
         NEW f, PlacesFrom(N, desk, f)
  PROVE  Rowed(N) /\ Laid(N, Placed(N))
<1>0. /\ \A e \in DOMAIN N : f[e] \in DOMAIN desk /\ N[e] = desk[f[e]]
      /\ \A d, e \in DOMAIN N : f[d] = f[e] => d = e
  BY DEF PlacesFrom
<1>1. Rowed(N)
  BY <1>0, RowedIs DEF Rowed
<1> DEFINE g == [e \in DOMAIN N |-> [r \in DOMAIN N[e] |-> r]]
<1>2. \A e \in DOMAIN N : \A r \in DOMAIN N[e] : g[e][r] = r
  OBVIOUS
<1> HIDE DEF g
<1>3. Derived(N, desk, f, g)
  <2>1. \A d \in DOMAIN N : f[d] \in DOMAIN desk
    BY <1>0
  <2>2. \A d \in DOMAIN N : \A r \in DOMAIN N[d] : g[d][r] \in DOMAIN desk[f[d]]
    BY <1>0, <1>2
  <2>3. \A d \in DOMAIN N : \A r \in DOMAIN N[d] : N[d][r] = desk[f[d]][g[d][r]]
    BY <1>0, <1>2
  <2>4. \A d \in DOMAIN N : \A r, s \in DOMAIN N[d] : g[d][r] = g[d][s] => r = s
    BY <1>2
  <2> QED
    BY <1>0, <2>1, <2>2, <2>3, <2>4 DEF Derived
<1> QED
  BY <1>1, <1>3, LaidFrom

\* Two neighbours change places.
LEMMA DashboardsSwapped ==
  ASSUME NEW desk, Rowed(desk), NEW V, Laid(desk, V), NEW d \in DOMAIN desk, d + 1 \in DOMAIN desk
  PROVE  LET N == [desk EXCEPT ![d] = desk[d + 1], ![d + 1] = desk[d]]
         IN Rowed(N) /\ N # <<>> /\ Laid(N, V)
<1> DEFINE N == [desk EXCEPT ![d] = desk[d + 1], ![d + 1] = desk[d]]
           f == [e \in DOMAIN desk |-> IF e = d THEN d + 1 ELSE IF e = d + 1 THEN d ELSE e]
<1>1. desk \in Seq(Seq(Seq(Graph))) /\ Len(desk) \in Nat /\ DOMAIN desk = 1 .. Len(desk)
  BY RowedIs DEF Rowed
<1>2. d \in Nat /\ d # d + 1
  BY <1>1
<1>3. /\ DOMAIN N = DOMAIN desk
      /\ \A e \in DOMAIN desk : N[e] = IF e = d THEN desk[d + 1] ELSE IF e = d + 1 THEN desk[d]
           ELSE desk[e]
  BY <1>1, <1>2
<1>4. N \in Seq(Seq(Seq(Graph)))
  BY <1>1, <1>2
<1>5. \A e \in DOMAIN desk : f[e] = IF e = d THEN d + 1 ELSE IF e = d + 1 THEN d ELSE e
  OBVIOUS
<1> HIDE DEF N, f
<1>6. \A e \in DOMAIN N : f[e] \in DOMAIN desk /\ N[e] = desk[f[e]]
  BY <1>3, <1>5
<1>7. \A c, e \in DOMAIN N : f[c] = f[e] => c = e
  <2> SUFFICES ASSUME NEW c \in DOMAIN desk, NEW e \in DOMAIN desk, f[c] = f[e] PROVE c = e
    BY <1>3
  <2> QED
    BY <1>2, <1>5
<1>8. Rowed(N) /\ Laid(N, Placed(N))
  <2>1. PlacesFrom(N, desk, f)
    BY <1>6, <1>7 DEF PlacesFrom
  <2> QED
    BY <1>4, <2>1, DashboardsFrom
<1>9. N # <<>>
  BY <1>3, EmptySeq
<1>10. Placed(N) = V
  <2>1. ASSUME NEW v \in Placed(N) PROVE v \in V
    <3>1. PICK e \in DOMAIN N : \E r \in DOMAIN N[e] : v \in Range(N[e][r])
      BY PlacedIs
    <3>2. PICK r \in DOMAIN N[e] : v \in Range(N[e][r])
      BY <3>1
    <3>3. N[e] = desk[f[e]] /\ f[e] \in DOMAIN desk
      BY <1>6
    <3> QED
      BY <3>2, <3>3, LaidIs
  <2>2. ASSUME NEW v \in V PROVE v \in Placed(N)
    <3>1. PICK e \in DOMAIN desk : \E r \in DOMAIN desk[e] : v \in Range(desk[e][r])
      BY LaidIs
    <3>2. PICK r \in DOMAIN desk[e] : v \in Range(desk[e][r])
      BY <3>1
    <3>3. PICK c \in DOMAIN N : f[c] = e
      BY <1>2, <1>3, <1>5
    <3>4. N[c] = desk[e]
      BY <1>6, <3>3
    <3> QED
      BY <3>2, <3>4, PlacedIs
  <2> QED
    BY <2>1, <2>2
<1> QED
  BY <1>8, <1>9, <1>10 DEF N

\* A dashboard is removed, and what stood in it goes behind the first row of those that stay.
LEMMA DashboardRemoved ==
  ASSUME NEW desk, Rowed(desk), NEW V, Laid(desk, V), NEW d \in DOMAIN desk,
         RemoveAt(desk, d) # <<>>
  PROVE  LET rest == RemoveAt(desk, d)
             removed == FlattenSeq(desk[d])
             there == UNION {Range(rest[1][r]) : r \in DOMAIN rest[1]}
             N == [rest EXCEPT ![1][1] = rest[1][1] \o Selected(removed, Range(removed) \ there)]
         IN Rowed(N) /\ N # <<>> /\ Laid(N, V)
<1> DEFINE rest == RemoveAt(desk, d)
           removed == FlattenSeq(desk[d])
           there == UNION {Range(rest[1][r]) : r \in DOMAIN rest[1]}
           gone == Range(removed)
           more == Selected(removed, gone \ there)
           row == rest[1][1] \o more
           N == [rest EXCEPT ![1][1] = row]
           m == Len(desk) - 1
<1>1. /\ desk \in Seq(Seq(Seq(Graph))) /\ Len(desk) \in Nat /\ DOMAIN desk = 1 .. Len(desk)
      /\ desk[d] \in Seq(Seq(Graph)) /\ desk[d] # <<>>
  BY RowedIs DEF Rowed
<1>2. /\ rest \in Seq(Seq(Seq(Graph))) /\ Len(rest) = m
      /\ \A k \in 1 .. m : rest[k] = IF k < d THEN desk[k] ELSE desk[k + 1]
  BY <1>1, RemovedAre
<1>3. rest # <<>>
  OBVIOUS
<1>4. /\ removed \in Seq(Graph) /\ IsInjective(removed)
      /\ \A x : x \in gone <=> \E r \in DOMAIN desk[d] : x \in Range(desk[d][r])
  <2>1. ASSUME NEW r \in DOMAIN desk[d] PROVE IsInjective(desk[d][r])
    BY LaidIs
  <2>2. ASSUME NEW r \in DOMAIN desk[d], NEW s \in DOMAIN desk[d],
               Range(desk[d][r]) \cap Range(desk[d][s]) # {}
        PROVE  r = s
    <3>1. PICK x : x \in Range(desk[d][r]) /\ x \in Range(desk[d][s])
      BY <2>2
    <3> QED
      BY <3>1, LaidIs
  <2> QED
    BY <1>1, <2>1, <2>2, FlattenIs
<1> HIDE DEF rest, removed
<1>5. m \in Nat /\ DOMAIN rest = 1 .. m /\ 1 \in 1 .. m /\ d \in 1 .. m + 1
  BY <1>1, <1>2, <1>3, LenProperties, EmptySeq
<1> HIDE DEF m
<1> DEFINE f == [e \in DOMAIN rest |-> IF e < d THEN e ELSE e + 1]
<1>6. \A e \in DOMAIN rest : f[e] = IF e < d THEN e ELSE e + 1
  OBVIOUS
<1> HIDE DEF f
<1>7. \A e \in DOMAIN rest : f[e] \in DOMAIN desk /\ rest[e] = desk[f[e]] /\ f[e] # d
  <2> SUFFICES ASSUME NEW e \in 1 .. m
               PROVE  f[e] \in DOMAIN desk /\ rest[e] = desk[f[e]] /\ f[e] # d
    BY <1>5
  <2>1. DOMAIN desk = 1 .. m + 1
    BY <1>1 DEF m
  <2>2. f[e] = IF e < d THEN e ELSE e + 1
    BY <1>5, <1>6
  <2>3. rest[e] = IF e < d THEN desk[e] ELSE desk[e + 1]
    BY <1>2
  <2> QED
    BY <1>5, <2>1, <2>2, <2>3
<1>8. \A c, e \in DOMAIN rest : f[c] = f[e] => c = e
  BY <1>5, <1>6
<1>9. Rowed(rest) /\ Laid(rest, Placed(rest))
  <2>1. PlacesFrom(rest, desk, f)
    BY <1>7, <1>8 DEF PlacesFrom
  <2> QED
    BY <1>2, <2>1, DashboardsFrom
<1> HIDE DEF gone
<1>10. Placed(rest) = V \ gone
  <2>1. ASSUME NEW v \in Placed(rest) PROVE v \in V \ gone
    <3>1. PICK e \in DOMAIN rest : \E r \in DOMAIN rest[e] : v \in Range(rest[e][r])
      BY PlacedIs
    <3>2. PICK r \in DOMAIN rest[e] : v \in Range(rest[e][r])
      BY <3>1
    <3>3. rest[e] = desk[f[e]] /\ f[e] \in DOMAIN desk /\ f[e] # d
      BY <1>7
    <3>4. v \in V
      BY <3>2, <3>3, LaidIs
    <3>5. ASSUME v \in gone PROVE FALSE
      <4>1. PICK s \in DOMAIN desk[d] : v \in Range(desk[d][s])
        BY <1>4, <3>5
      <4> QED
        BY <3>2, <3>3, <4>1, LaidIs
    <3> QED
      BY <3>4, <3>5
  <2>2. ASSUME NEW v \in V, v \notin gone PROVE v \in Placed(rest)
    <3>1. PICK e \in DOMAIN desk : \E r \in DOMAIN desk[e] : v \in Range(desk[e][r])
      BY LaidIs
    <3>2. PICK r \in DOMAIN desk[e] : v \in Range(desk[e][r])
      BY <3>1
    <3>3. e # d
      BY <1>4, <2>2, <3>2
    <3>4. PICK c \in DOMAIN rest : f[c] = e
      <4>1. e \in 1 .. m + 1
        BY <1>1 DEF m
      <4>2. CASE e < d
        BY <1>5, <1>6, <4>1, <4>2
      <4>3. CASE e > d
        <5>1. e - 1 \in 1 .. m /\ ~ (e - 1 < d) /\ (e - 1) + 1 = e
          BY <1>5, <4>1, <4>3
        <5> QED
          BY <1>5, <1>6, <5>1
      <4> QED
        BY <1>5, <3>3, <4>1, <4>2, <4>3
    <3>5. rest[c] = desk[e]
      BY <1>7, <3>4
    <3> QED
      BY <3>2, <3>5, PlacedIs
  <2> QED
    BY <2>1, <2>2
<1>11. 1 \in DOMAIN rest /\ 1 \in DOMAIN rest[1] /\ rest[1][1] \in Seq(Graph)
  BY <1>5, <1>9, RowedIs
<1>12. there \cap gone = {}
  <2>1. ASSUME NEW x \in there, x \in gone PROVE FALSE
    <3>1. PICK r \in DOMAIN rest[1] : x \in Range(rest[1][r])
      OBVIOUS
    <3>2. x \in V \ gone
      BY <1>9, <1>10, <1>11, <3>1, LaidIs
    <3> QED
      BY <2>1, <3>2
  <2> QED
    BY <2>1
<1> HIDE DEF there
<1>13. gone \ there = gone
  BY <1>12
<1>14. more = removed
  <2>1. Range(removed) \subseteq gone
    BY DEF gone
  <2> QED
    BY <1>4, <1>13, <2>1, SelectedAll
<1> HIDE DEF more
<1>15. row \in Seq(Graph) /\ IsInjective(row) /\ Range(row) = Range(rest[1][1]) \cup gone
  <2>1. IsInjective(rest[1][1]) /\ Range(rest[1][1]) \subseteq V \ gone
    BY <1>9, <1>10, <1>11, LaidIs
  <2>2. Range(rest[1][1]) \cap Range(removed) = {}
    BY <2>1 DEF gone
  <2> QED
    BY <1>4, <1>11, <1>14, <2>1, <2>2, JoinedIs DEF gone
<1> HIDE DEF row
<1>16. Rowed(N) /\ N # <<>>
  <2>1. Rowed(rest) /\ row \in Seq(Graph)
    BY <1>9, <1>15
  <2> QED
    BY <1>11, <2>1, RowPut
<1>17. Laid(N, (V \ gone) \cup gone)
  <2>1. Laid(rest, V \ gone) /\ gone \cap (V \ gone) = {}
    BY <1>9, <1>10
  <2> QED
    BY <1>9, <1>11, <1>15, <2>1, RowGrown
<1>18. gone \subseteq V
  <2>1. ASSUME NEW x \in gone PROVE x \in V
    <3>1. PICK s \in DOMAIN desk[d] : x \in Range(desk[d][s])
      BY <1>4
    <3> QED
      BY <3>1, LaidIs
  <2> QED
    BY <2>1
<1>19. (V \ gone) \cup gone = V
  BY <1>18
<1> QED
  BY <1>16, <1>17, <1>19 DEF rest, removed, there, gone, more, row

-----------------------------------------------------------------------------
(* What becomes of a list of graphs. *)

LEMMA ListingTyped ==
  ASSUME NEW graphs, Listing(graphs)
  PROVE  /\ graphs \in Seq(GraphType) /\ Len(graphs) \in Nat /\ DOMAIN graphs = 1 .. Len(graphs)
         /\ \A i \in DOMAIN graphs : graphs[i] \in GraphType
         /\ \A i, j \in DOMAIN graphs : graphs[i].id = graphs[j].id => i = j
  <1>1. graphs \in Seq(GraphType) /\ \A i, j \in DOMAIN graphs : graphs[i].id = graphs[j].id =>
          i = j
    BY DEF Listing
  <1> QED
    BY <1>1, LenProperties, ElementOfSeq

\* A graph is hidden.
LEMMA HiddenIs ==
  ASSUME NEW graphs, Listing(graphs), NEW id \in Graph
  PROVE  Listing(Hidden(graphs, id)) /\ Visible(Hidden(graphs, id)) = Visible(graphs) \ {id}
<1> DEFINE new == Hidden(graphs, id)
<1>1. /\ graphs \in Seq(GraphType) /\ Len(graphs) \in Nat /\ DOMAIN graphs = 1 .. Len(graphs)
      /\ \A i \in DOMAIN graphs : graphs[i] \in GraphType
      /\ \A i, j \in DOMAIN graphs : graphs[i].id = graphs[j].id => i = j
  BY ListingTyped
<1>2. /\ DOMAIN new = DOMAIN graphs
      /\ \A i \in DOMAIN graphs : new[i] = IF graphs[i].id = id THEN [id |-> id, hidden |-> TRUE]
           ELSE graphs[i]
  BY DEF Hidden, Saved
<1>3. new = [i \in DOMAIN graphs |-> new[i]]
  BY DEF Hidden
<1> HIDE DEF new
<1>4. ASSUME NEW i \in DOMAIN graphs
      PROVE  /\ new[i] \in GraphType /\ new[i].id = graphs[i].id
             /\ ~ new[i].hidden <=> ~ graphs[i].hidden /\ graphs[i].id # id
  <2>1. CASE graphs[i].id = id
    <3>1. new[i] = [id |-> id, hidden |-> TRUE]
      BY <1>2, <2>1
    <3> QED
      BY <2>1, <3>1 DEF GraphType
  <2>2. CASE graphs[i].id # id
    <3>1. new[i] = graphs[i]
      BY <1>2, <2>2
    <3> QED
      BY <1>1, <2>2, <3>1
  <2> QED
    BY <2>1, <2>2
<1>5. new \in [1 .. Len(graphs) -> GraphType]
  BY <1>1, <1>3, <1>4
<1>6. Listing(new)
  <2>1. new \in Seq(GraphType)
    BY <1>1, <1>5, FunctionIsSeq
  <2> QED
    BY <1>1, <1>2, <1>4, <2>1 DEF Listing
<1>7. Visible(new) = Visible(graphs) \ {id}
  <2>1. ASSUME NEW x \in Visible(new) PROVE x \in Visible(graphs) \ {id}
    <3>1. PICK i \in DOMAIN new : ~ new[i].hidden /\ x = new[i].id
      BY DEF Visible
    <3> QED
      BY <1>2, <1>4, <3>1 DEF Visible
  <2>2. ASSUME NEW x \in Visible(graphs), x # id PROVE x \in Visible(new)
    <3>1. PICK i \in DOMAIN graphs : ~ graphs[i].hidden /\ x = graphs[i].id
      BY DEF Visible
    <3> QED
      BY <1>2, <1>4, <2>2, <3>1 DEF Visible
  <2> QED
    BY <2>1, <2>2
<1> QED
  BY <1>6, <1>7 DEF new

\* A graph is removed.
LEMMA DroppedIs ==
  ASSUME NEW graphs, Listing(graphs), NEW id
  PROVE  Listing(Dropped(graphs, id)) /\ Visible(Dropped(graphs, id)) = Visible(graphs) \ {id}
<1> DEFINE kept == {g \in Range(graphs) : g.id # id}
           new == Selected(graphs, kept)
<1>0. Dropped(graphs, id) = new
  BY DEF Dropped
<1>1. /\ graphs \in Seq(GraphType) /\ Len(graphs) \in Nat /\ DOMAIN graphs = 1 .. Len(graphs)
      /\ \A i \in DOMAIN graphs : graphs[i] \in GraphType
      /\ \A i, j \in DOMAIN graphs : graphs[i].id = graphs[j].id => i = j
  BY ListingTyped
<1>2. IsInjective(graphs)
  BY <1>1 DEF IsInjective
<1>3. \A g, h \in Range(graphs) : g.id = h.id => g = h
  BY <1>1 DEF Range
<1> HIDE DEF kept
<1>4. new \in Seq(GraphType)
  BY <1>1, SelectedTyped
<1>5. IsInjective(new) /\ \A x : x \in Range(new) <=> x \in Range(graphs) /\ x \in kept
  BY <1>1, <1>2, SelectedIs
<1> HIDE DEF new
<1>6. ASSUME NEW x PROVE x \in Range(new) <=> x \in Range(graphs) /\ x.id # id
  BY <1>5 DEF kept
<1>7. Listing(new)
  <2> SUFFICES ASSUME NEW i \in DOMAIN new, NEW j \in DOMAIN new, new[i].id = new[j].id
               PROVE  i = j
    BY <1>4 DEF Listing
  <2>1. new[i] \in Range(graphs) /\ new[j] \in Range(graphs)
    BY <1>5 DEF Range
  <2>2. new[i] = new[j]
    BY <1>3, <2>1
  <2> QED
    BY <1>5, <2>2 DEF IsInjective
<1>8. ASSUME NEW s, NEW x
      PROVE  x \in Visible(s) <=> \E g \in Range(s) : ~ g.hidden /\ x = g.id
  BY DEF Visible, Range
<1>9. Visible(new) = Visible(graphs) \ {id}
  <2>1. ASSUME NEW x \in Visible(new) PROVE x \in Visible(graphs) \ {id}
    <3>1. PICK g \in Range(new) : ~ g.hidden /\ x = g.id
      BY <1>8
    <3> QED
      BY <1>6, <1>8, <3>1
  <2>2. ASSUME NEW x \in Visible(graphs), x # id PROVE x \in Visible(new)
    <3>1. PICK g \in Range(graphs) : ~ g.hidden /\ x = g.id
      BY <1>8
    <3> QED
      BY <1>6, <1>8, <2>2, <3>1
  <2> QED
    BY <2>1, <2>2
<1> QED
  BY <1>0, <1>7, <1>9

\* A graph is saved in place of the one that has its name, or behind the others.
LEMMA SavedIs ==
  ASSUME NEW graphs, Listing(graphs), NEW id \in Graph
  PROVE  /\ Listing([i \in DOMAIN graphs |-> IF graphs[i].id = id THEN Saved(id, FALSE)
              ELSE graphs[i]])
         /\ id \notin IdsOf(graphs) => Listing(Append(graphs, Saved(id, FALSE)))
<1> DEFINE new == [i \in DOMAIN graphs |-> IF graphs[i].id = id THEN Saved(id, FALSE)
      ELSE graphs[i]]
           more == Append(graphs, Saved(id, FALSE))
<1>1. /\ graphs \in Seq(GraphType) /\ Len(graphs) \in Nat /\ DOMAIN graphs = 1 .. Len(graphs)
      /\ \A i \in DOMAIN graphs : graphs[i] \in GraphType
      /\ \A i, j \in DOMAIN graphs : graphs[i].id = graphs[j].id => i = j
  BY ListingTyped
<1>2. Saved(id, FALSE) \in GraphType /\ Saved(id, FALSE).id = id
  BY DEF Saved, GraphType
<1>3. ASSUME NEW i \in DOMAIN graphs PROVE new[i] \in GraphType /\ new[i].id = graphs[i].id
  BY <1>1, <1>2
<1>4. Listing(new)
  <2>1. new \in [1 .. Len(graphs) -> GraphType]
    BY <1>1, <1>2
  <2>2. new \in Seq(GraphType)
    BY <1>1, <2>1, FunctionIsSeq
  <2>3. DOMAIN new = DOMAIN graphs
    OBVIOUS
  <2> HIDE DEF new
  <2> QED
    BY <1>1, <1>3, <2>2, <2>3 DEF Listing
<1>5. ASSUME id \notin IdsOf(graphs) PROVE Listing(more)
  <2>1. /\ more \in Seq(GraphType) /\ DOMAIN more = 1 .. Len(graphs) + 1
        /\ \A i \in 1 .. Len(graphs) : more[i] = graphs[i]
        /\ more[Len(graphs) + 1] = Saved(id, FALSE)
    <3> DEFINE one == Saved(id, FALSE)
    <3>1. one \in GraphType
      BY <1>2
    <3> HIDE DEF one
    <3>2. /\ Append(graphs, one) \in Seq(GraphType)
          /\ Len(Append(graphs, one)) = Len(graphs) + 1
          /\ \A i \in 1 .. Len(graphs) : Append(graphs, one)[i] = graphs[i]
          /\ Append(graphs, one)[Len(graphs) + 1] = one
      BY <1>1, <3>1, AppendProperties
    <3>3. DOMAIN Append(graphs, one) = 1 .. Len(graphs) + 1
      BY <3>2, LenProperties
    <3> QED
      BY <3>2, <3>3 DEF one
  <2> HIDE DEF more
  <2>2. \A i \in DOMAIN graphs : graphs[i].id # id
    BY <1>5 DEF IdsOf
  <2>3. \A i \in 1 .. Len(graphs) : more[i].id = graphs[i].id /\ more[i].id # id
    BY <1>1, <2>1, <2>2
  <2>4. more[Len(graphs) + 1].id = id
    BY <1>2, <2>1
  <2>5. ASSUME NEW i \in DOMAIN more, NEW j \in DOMAIN more, more[i].id = more[j].id PROVE i = j
    <3>1. i \in 1 .. Len(graphs) \/ i = Len(graphs) + 1
      BY <1>1, <2>1
    <3>2. j \in 1 .. Len(graphs) \/ j = Len(graphs) + 1
      BY <1>1, <2>1
    <3> QED
      BY <1>1, <2>3, <2>4, <2>5, <3>1, <3>2
  <2> QED
    BY <2>1, <2>5 DEF Listing
<1> QED
  BY <1>4, <1>5

\* A draft shows or hides a graph.
LEMMA ToggledIs ==
  ASSUME NEW graphs, Listing(graphs), NEW i \in DOMAIN graphs
  PROVE  Listing([graphs EXCEPT ![i].hidden = ~ graphs[i].hidden])
<1> DEFINE new == [graphs EXCEPT ![i].hidden = ~ graphs[i].hidden]
           row == [graphs[i] EXCEPT !.hidden = ~ graphs[i].hidden]
<1>1. /\ graphs \in Seq(GraphType) /\ Len(graphs) \in Nat /\ DOMAIN graphs = 1 .. Len(graphs)
      /\ \A j \in DOMAIN graphs : graphs[j] \in GraphType
      /\ \A j, k \in DOMAIN graphs : graphs[j].id = graphs[k].id => j = k
  BY ListingTyped
<1>2. row \in GraphType /\ row.id = graphs[i].id
  BY <1>1 DEF GraphType
<1>3. new = [graphs EXCEPT ![i] = row]
  BY <1>1
<1> HIDE DEF new, row
<1>4. new \in Seq(GraphType) /\ DOMAIN new = DOMAIN graphs
  BY <1>1, <1>2, <1>3
<1>5. \A j \in DOMAIN graphs : new[j] = IF j = i THEN row ELSE graphs[j]
  BY <1>1, <1>3
<1>6. \A j \in DOMAIN graphs : new[j].id = graphs[j].id
  BY <1>2, <1>5
<1> QED
  BY <1>1, <1>4, <1>6 DEF Listing, new

-----------------------------------------------------------------------------
(* The steps. *)

CopyType == [graphs : GraphLists, desk : Desks, base : Nat \cup {-1}]

LEMMA ListingIn == ASSUME NEW g, Listing(g) PROVE g \in GraphLists /\ g # Absent
BY DeskAssumptions DEF Listing, GraphLists, GraphType, DeskAssumptions
LEMMA RowedIn == ASSUME NEW k, Rowed(k) PROVE k \in Desks /\ k # Absent
BY DeskAssumptions DEF Rowed, Desks, DeskAssumptions

\* A page's copy gets another list and another desk.
LEMMA BecomeIs ==
  ASSUME copy \in [Page -> CopyType], NEW p \in Page, NEW g \in GraphLists, NEW k \in Desks,
         Become(p, g, k)
  PROVE  /\ copy' \in [Page -> CopyType]
         /\ copy'[p].graphs = g /\ copy'[p].desk = k
         /\ \A x \in Page : x # p => copy'[x] = copy[x]
         /\ \A x \in Page : copy'[x].base = copy[x].base /\ (Loaded(x)' <=> Loaded(x))
<1> DEFINE new == [copy[p] EXCEPT !.graphs = g, !.desk = k]
<1>1. copy[p] \in CopyType
  OBVIOUS
<1>2. new \in CopyType /\ new.graphs = g /\ new.desk = k /\ new.base = copy[p].base
  BY <1>1 DEF CopyType
<1>3. copy' = [copy EXCEPT ![p] = new]
  BY DEF Become
<1> HIDE DEF new
<1>4. copy' \in [Page -> CopyType] /\ copy'[p] = new /\ \A x \in Page : x # p =>
        copy'[x] = copy[x]
  BY <1>2, <1>3
<1>5. ASSUME NEW x \in Page PROVE copy'[x].base = copy[x].base
  <2>1. CASE x = p
    BY <1>2, <1>4, <2>1
  <2>2. CASE x # p
    BY <1>4, <2>2
  <2> QED
    BY <2>1, <2>2
<1> QED
  BY <1>2, <1>4, <1>5 DEF Loaded

\* What a page agrees on depends on its copy and its own requests.
LEMMA AgreedSame ==
  ASSUME NEW p, Agreed(p), copy'[p] = copy[p], kindOf'[p] = kindOf[p],
         server'.graphs = server.graphs, server'.desk = server.desk,
             OwnRequests(p)' = OwnRequests(p)
  PROVE  Agreed(p)'
<1>1. Unapplied(p)' = Unapplied(p) /\ WithLists(p)' = WithLists(p) /\ Made(p)' = Made(p)
  BY DEF Unapplied, WithLists, Made
<1>2. Late(p)' <=> Late(p)
  BY <1>1 DEF Late
<1> QED
  BY <1>1, <1>2 DEF Agreed, NewestOf

LEMMA MineOthers ==
  ASSUME NEW p, \A x : x \in requests' /\ x.page = p <=> x \in requests /\ x.page = p
  PROVE  OwnRequests(p)' = OwnRequests(p)
BY DEF OwnRequests

\* A request is sent.
Sending(p, g, k) ==
  /\ sent' = sent + 1
  /\ requests' = requests \cup
       {[page |-> p, number |-> sent, graphs |-> g, desk |-> k, stage |-> "sent"]}
  /\ UNCHANGED <<server, kindOf, coming, astray>>

LEMMA SentTyped ==
  ASSUME DeskTyped, NEW p \in Page, NEW g \in GraphLists \cup {Absent},
         NEW k \in Desks \cup {Absent},
         copy' \in [Page -> CopyType], Sending(p, g, k)
  PROVE  DeskTyped'
BY DEF DeskTyped, Sending, CopyType

\* What is asked for is what the page has become.
AskedFor(p, g, k) ==
  \/ kindOf[p] = "markets" /\ copy'[p] = copy[p] /\ Listing(g) /\ k = Absent
  \/ /\ kindOf[p] # "markets" /\ Listing(copy'[p].graphs) /\ Rowed(copy'[p].desk)
     /\ \/ g = copy'[p].graphs
        \/ g = Absent /\ kindOf[p] = "dashboard" /\ copy'[p].graphs = copy[p].graphs
     /\ \/ k = copy'[p].desk
        \/ k = Absent /\ kindOf[p] # "dashboard" /\ g # Absent
     /\ kindOf[p] = "dashboard" =>
          copy'[p].desk # <<>> /\ Laid(copy'[p].desk, Visible(copy'[p].graphs))

LEMMA SendKeeps ==
  ASSUME DeskInv, NEW p \in Page, Loaded(p), NEW g, NEW k, Sending(p, g, k),
         copy' \in [Page -> CopyType], \A x \in Page : x # p => copy'[x] = copy[x],
         \A x \in Page : copy'[x].base = copy[x].base, AskedFor(p, g, k)
  PROVE  DeskInv'
<1> DEFINE new == [page |-> p, number |-> sent, graphs |-> g, desk |-> k, stage |-> "sent"]
<1>1. DeskTyped /\ CopiesTrue /\ AnswersTrue /\ RequestsTrue /\ PagesAgree
  BY DEF DeskInv
<1>2. /\ sent' = sent + 1 /\ requests' = requests \cup {new} /\ server' = server
      /\ kindOf' = kindOf /\ coming' = coming /\ astray' = astray
  BY DEF Sending
<1>3. /\ new.page = p /\ new.number = sent /\ new.graphs = g /\ new.desk = k /\ new.stage = "sent"
  OBVIOUS
<1>4. /\ g = Absent \/ Listing(g)
      /\ k = Absent \/ Rowed(k)
      /\ k = Absent => g # Absent
      /\ g = Absent => kindOf[p] = "dashboard"
      /\ kindOf[p] = "dashboard" =>
           /\ k # Absent /\ k # <<>>
           /\ g # Absent => Laid(k, Visible(g))
  BY ListingIn, RowedIn DEF AskedFor
<1>5. DeskTyped'
  <2>1. g \in GraphLists \cup {Absent} /\ k \in Desks \cup {Absent}
    BY <1>4, ListingIn, RowedIn
  <2> QED
    BY <1>1, <2>1, SentTyped
<1> HIDE DEF new
<1>6. \A x \in Page : Loaded(x)' <=> Loaded(x)
  BY DEF Loaded
<1>7. CopiesTrue'
  <2>1. Listing(server'.graphs) /\ Rowed(server'.desk)
    BY <1>1, <1>2 DEF CopiesTrue
  <2>2. ASSUME NEW x \in Page PROVE CopyTrue(x)'
    <3>1. CopyTrue(x)
      BY <1>1 DEF CopiesTrue
    <3>2. CASE x # p
      BY <1>2, <1>6, <3>1, <3>2 DEF CopyTrue
    <3>3. CASE x = p
      <4>1. Listing(copy'[p].graphs) /\ Rowed(copy'[p].desk)
        BY <3>1, <3>3 DEF AskedFor, CopyTrue
      <4>2. kindOf[p] = "dashboard" => copy'[p].desk # <<>>
              /\ Laid(copy'[p].desk, Visible(copy'[p].graphs))
        BY DEF AskedFor
      <4>3. Visible(copy[p].graphs)' = Visible(copy'[p].graphs)
        BY DEF Visible
      <4> QED
        BY <1>2, <3>1, <3>3, <4>1, <4>2 DEF CopyTrue
    <3> QED
      BY <3>2, <3>3
  <2> QED
    BY <2>1, <2>2 DEF CopiesTrue
<1>8. AnswersTrue'
  BY <1>1, <1>2, <1>6 DEF AnswersTrue, AnswerTrue
<1>9. RequestsTrue'
  <2>1. sent \in Nat /\ \A q \in requests : q.number \in Nat /\ q.page \in Page
    BY <1>1 DEF DeskTyped
  <2>2. ASSUME NEW q \in requests' PROVE RequestTrue(q)'
    <3>1. CASE q = new
      <4>1. Loaded(q.page)'
        BY <1>3, <1>6, <3>1
      <4>2. q.number < sent'
        BY <1>2, <1>3, <2>1, <3>1
      <4> QED
        BY <1>2, <1>3, <1>4, <3>1, <4>1, <4>2 DEF RequestTrue
    <3>2. CASE q \in requests
      <4>1. RequestTrue(q)
        BY <1>1, <3>2 DEF RequestsTrue
      <4>2. q.number < sent + 1
        BY <2>1, <3>2, <4>1 DEF RequestTrue
      <4> QED
        BY <1>2, <1>6, <2>1, <3>2, <4>1, <4>2 DEF RequestTrue
    <3> QED
      BY <1>2, <3>1, <3>2
  <2>4. \A q \in requests : q.number < sent
    BY <1>1 DEF RequestsTrue, RequestTrue
  <2>5. ASSUME NEW q \in requests', NEW r \in requests', q.number = r.number PROVE q = r
    BY <1>1, <1>2, <1>3, <2>1, <2>4, <2>5 DEF RequestsTrue
  <2> QED
    BY <2>2, <2>5 DEF RequestsTrue
<1>10. PagesAgree'
  <2> SUFFICES ASSUME NEW x \in Page, InOrder(x)' PROVE Agreed(x)'
    BY DEF PagesAgree
  <2>1. InOrder(x) /\ Agreed(x)
    BY <1>1, <1>2, <1>6 DEF InOrder, PagesAgree
  <2>2. CASE x # p
    <3>1. OwnRequests(x)' = OwnRequests(x)
      BY <1>2, <1>3, <2>2 DEF OwnRequests
    <3> QED
      BY <1>2, <2>1, <2>2, <3>1, AgreedSame
  <2>3. CASE x = p
    <3>1. OwnRequests(x)' = OwnRequests(x) \cup {new}
      BY <1>2, <1>3, <2>3 DEF OwnRequests
    <3>2. Unapplied(x)' = Unapplied(x) \cup {new} /\ Made(x)' = Made(x)
      BY <1>3, <3>1 DEF Unapplied, Made
    <3>3. WithLists(x)' = IF g = Absent THEN WithLists(x) ELSE WithLists(x) \cup {new}
      BY <1>3, <3>2 DEF WithLists
    <3>4. \A q \in OwnRequests(x) : q.number \in Nat /\ q.number < sent
      BY <1>1 DEF DeskTyped, RequestsTrue, RequestTrue, OwnRequests
    <3>5. sent \in Nat
      BY <1>1 DEF DeskTyped
    <3>6. Late(x) => Late(x)'
      BY <3>2 DEF Late
    <3>7. CASE kindOf[x] = "markets"
      <4>1. copy'[x] = copy[x]
        BY <2>3, <3>7 DEF AskedFor
      <4> QED
        BY <1>2, <2>1, <2>3, <3>2, <3>7, <4>1 DEF Agreed, NewestOf
    <3>8. CASE kindOf[x] # "markets"
      <4> SUFFICES ASSUME ~ Late(x)'
                   PROVE  /\ WithLists(x)' = {} => copy'[x].graphs = server'.graphs
                          /\ \A q \in WithLists(x)' : NewestOf(q, WithLists(x)') =>
                               copy'[x].graphs = q.graphs
                          /\ kindOf'[x] = "dashboard" =>
                               /\ Unapplied(x)' = {} => copy'[x].desk = Normalized(server'.desk, server'.graphs)
                               /\ \A q \in Unapplied(x)' : NewestOf(q, Unapplied(x)') =>
                                    copy'[x].desk = q.desk
        BY <1>2, <2>3, <3>8 DEF Agreed, NewestOf
      <4>1. /\ WithLists(x) = {} => copy[x].graphs = server.graphs
            /\ \A q \in WithLists(x) : NewestOf(q, WithLists(x)) => copy[x].graphs = q.graphs
        BY <2>1, <3>6, <3>8 DEF Agreed
      <4>2. ASSUME NEW S, NEW q \in S \cup {new}, NewestOf(q, S \cup {new}),
                   S \subseteq OwnRequests(x)
            PROVE  q = new
        BY <1>3, <3>4, <3>5, <4>2 DEF NewestOf
      <4>3. WithLists(x) \subseteq OwnRequests(x) /\ Unapplied(x) \subseteq OwnRequests(x)
        BY DEF WithLists, Unapplied
      <4>4. WithLists(x)' = {} => copy'[x].graphs = server'.graphs
        <5> SUFFICES ASSUME WithLists(x)' = {} PROVE copy'[x].graphs = server'.graphs
          OBVIOUS
        <5>1. g = Absent /\ WithLists(x) = {}
          BY <3>3
        <5>2. copy'[x].graphs = copy[x].graphs
          BY <2>3, <3>8, <5>1, ListingIn DEF AskedFor
        <5> QED
          BY <1>2, <4>1, <5>1, <5>2
      <4>5. ASSUME NEW q \in WithLists(x)', NewestOf(q, WithLists(x)')
            PROVE  copy'[x].graphs = q.graphs
        <5>1. CASE g = Absent
          <6>1. copy'[x].graphs = copy[x].graphs
            BY <2>3, <3>8, <5>1, ListingIn DEF AskedFor
          <6>2. WithLists(x)' = WithLists(x)
            BY <3>3, <5>1
          <6> QED
            BY <4>1, <4>5, <6>1, <6>2
        <5>2. CASE g # Absent
          <6>1. q = new
            BY <3>3, <4>2, <4>3, <4>5, <5>2
          <6> QED
            BY <1>3, <2>3, <3>8, <5>2, <6>1 DEF AskedFor
        <5> QED
          BY <5>1, <5>2
      <4>6. Unapplied(x)' # {}
        BY <3>2
      <4>7. ASSUME NEW q \in Unapplied(x)', NewestOf(q, Unapplied(x)'), kindOf[x] = "dashboard"
            PROVE  copy'[x].desk = q.desk
        <5>1. q = new
          BY <3>2, <4>2, <4>3, <4>7
        <5> QED
          BY <1>3, <2>3, <3>8, <4>7, <5>1 DEF AskedFor
      <4> QED
        BY <1>2, <4>4, <4>5, <4>6, <4>7
    <3> QED
      BY <3>7, <3>8
  <2> QED
    BY <2>2, <2>3
<1> QED
  BY <1>5, <1>7, <1>8, <1>9, <1>10 DEF DeskInv

LEMMA CopyIs ==
  ASSUME DeskInv, NEW p \in Page
  PROVE  /\ copy \in [Page -> CopyType]
              /\ kindOf \in [Page -> {"dashboard", "markets", "kraken", "settings"}]
         /\ Listing(copy[p].graphs) /\ Rowed(copy[p].desk)
         /\ kindOf[p] = "dashboard" /\ Loaded(p) =>
              copy[p].desk # <<>> /\ Laid(copy[p].desk, Visible(copy[p].graphs))
BY DEF DeskInv, DeskTyped, CopyType, CopiesTrue, CopyTrue

\* The page becomes what it asks for.
LEMMA BecomesKeeps ==
  ASSUME DeskInv, NEW p \in Page, Loaded(p), kindOf[p] # "markets", NEW G, NEW K, NEW g, NEW k,
         Listing(G), Rowed(K), Become(p, G, K), Send(p, g, k), astray' = astray,
         g = G \/ (g = Absent /\ kindOf[p] = "dashboard" /\ G = copy[p].graphs),
         k = K \/ (k = Absent /\ kindOf[p] # "dashboard" /\ g # Absent),
         kindOf[p] = "dashboard" => K # <<>> /\ Laid(K, Visible(G))
  PROVE  DeskInv'
<1>1. /\ copy' \in [Page -> CopyType] /\ copy'[p].graphs = G /\ copy'[p].desk = K
      /\ \A x \in Page : x # p => copy'[x] = copy[x]
      /\ \A x \in Page : copy'[x].base = copy[x].base
  BY CopyIs, ListingIn, RowedIn, BecomeIs
<1>2. Sending(p, g, k)
  BY DEF Send, Sending
<1>3. AskedFor(p, g, k)
  BY <1>1 DEF AskedFor
<1> QED
  BY <1>1, <1>2, <1>3, SendKeeps

LEMMA EditKeeps ==
  ASSUME DeskInv, NEW p \in Page, EditDashboards(p)
  PROVE  DeskInv'
<1> DEFINE desk == copy[p].desk
           V == Visible(copy[p].graphs)
<1>1. ASSUME NEW N, Rearrange(p, N)
      PROVE  /\ Rowed(desk) /\ desk # <<>> /\ Laid(desk, V)
             /\ Rowed(N) /\ N # <<>> /\ Laid(N, V) => DeskInv'
  <2>1. /\ Loaded(p) /\ kindOf[p] = "dashboard" /\ Become(p, copy[p].graphs, N)
        /\ Send(p, Absent, N) /\ astray' = astray
    BY <1>1 DEF Rearrange, Editing, Send
  <2>2. Listing(copy[p].graphs) /\ Rowed(desk) /\ desk # <<>> /\ Laid(desk, V)
    BY <2>1, CopyIs
  <2>3. ASSUME Rowed(N), N # <<>>, Laid(N, V) PROVE DeskInv'
    BY <2>1, <2>2, <2>3, BecomesKeeps
  <2> QED
    BY <2>2, <2>3
<1>2. V \subseteq Graph
  BY CopyIs, ListingIs
<1> HIDE DEF V
<1>3. ASSUME MoveItem(p) PROVE DeskInv'
  <2>1. PICK id \in Placed(desk), d \in DOMAIN desk :
          \E r \in DOMAIN desk[d] : Rearrange(p, Moved(desk, id, d, r))
    BY <1>3 DEF MoveItem
  <2>2. PICK r \in DOMAIN desk[d] : Rearrange(p, Moved(desk, id, d, r))
    BY <2>1
  <2>3. Rowed(desk) /\ Laid(desk, V)
    BY <1>1, <2>2
  <2>4. id \in V
    <3>1. PICK e \in DOMAIN desk : \E s \in DOMAIN desk[e] : id \in Range(desk[e][s])
      BY PlacedIs
    <3> QED
      BY <2>3, <3>1, LaidIs
  <2> HIDE DEF desk
  <2>5. /\ Rowed(Moved(desk, id, d, r)) /\ Moved(desk, id, d, r) # <<>>
        /\ Laid(Moved(desk, id, d, r), V)
    BY <1>2, <2>3, <2>4, MovedIs
  <2> QED
    BY <1>1, <2>2, <2>5
<1>4. ASSUME MoveWithinRow(p) PROVE DeskInv'
  <2>1. PICK q \in Places(desk) :
          LET row == desk[q[1]][q[2]]
              i == q[3]
          IN /\ i + 1 \in DOMAIN row
             /\ Rearrange(p, [desk EXCEPT ![q[1]][q[2]] = [row EXCEPT ![i] = row[i + 1], ![i + 1] = row[i]]])
    BY <1>4 DEF MoveWithinRow
  <2>2. PICK d \in DOMAIN desk : \E r \in DOMAIN desk[d] : \E i \in DOMAIN desk[d][r] :
          q = <<d, r, i>>
    BY PlacesAre
  <2>3. PICK r \in DOMAIN desk[d] : \E i \in DOMAIN desk[d][r] : q = <<d, r, i>>
    BY <2>2
  <2>4. PICK i \in DOMAIN desk[d][r] : q = <<d, r, i>>
    BY <2>3
  <2> DEFINE row == desk[d][r]
             N == [desk EXCEPT ![d][r] = [row EXCEPT ![i] = row[i + 1], ![i + 1] = row[i]]]
  <2>5. q[1] = d /\ q[2] = r /\ q[3] = i
    BY <2>4
  <2>6. i + 1 \in DOMAIN row /\ Rearrange(p, N)
    BY <2>1, <2>5
  <2>7. Rowed(desk) /\ Laid(desk, V)
    BY <1>1, <2>6
  <2> HIDE DEF desk
  <2>8. Rowed(N) /\ N # <<>> /\ Laid(N, V)
    BY <2>6, <2>7, SwappedIs
  <2> QED
    BY <1>1, <2>6, <2>8
<1>5. ASSUME AddRow(p) PROVE DeskInv'
  <2>1. PICK d \in DOMAIN desk : Rearrange(p, [desk EXCEPT ![d] = Append(desk[d], <<>>)])
    BY <1>5 DEF AddRow
  <2> DEFINE N == [desk EXCEPT ![d] = Append(desk[d], <<>>)]
  <2>2. Rowed(desk) /\ Laid(desk, V)
    BY <1>1, <2>1
  <2> HIDE DEF desk
  <2>3. Rowed(N) /\ N # <<>> /\ Laid(N, V)
    BY <2>2, RowAppended
  <2> QED
    BY <1>1, <2>1, <2>3
<1>6. ASSUME RemoveRow(p) PROVE DeskInv'
  <2>1. PICK d \in DOMAIN desk : \E r \in DOMAIN desk[d] :
          LET lines == RemoveAt(desk[d], r)
          IN /\ lines # <<>>
             /\ Rearrange(p, [desk EXCEPT ![d] = [lines EXCEPT ![1] = lines[1] \o desk[d][r]]])
    BY <1>6 DEF RemoveRow
  <2>2. PICK r \in DOMAIN desk[d] :
          LET lines == RemoveAt(desk[d], r)
          IN /\ lines # <<>>
             /\ Rearrange(p, [desk EXCEPT ![d] = [lines EXCEPT ![1] = lines[1] \o desk[d][r]]])
    BY <2>1
  <2> DEFINE lines == RemoveAt(desk[d], r)
             N == [desk EXCEPT ![d] = [lines EXCEPT ![1] = lines[1] \o desk[d][r]]]
  <2>3. lines # <<>> /\ Rearrange(p, N)
    BY <2>2
  <2>4. Rowed(desk) /\ Laid(desk, V)
    BY <1>1, <2>3
  <2> HIDE DEF desk
  <2>5. Rowed(N) /\ N # <<>> /\ Laid(N, V)
    BY <2>3, <2>4, RowRemoved
  <2> QED
    BY <1>1, <2>3, <2>5
<1>7. ASSUME AddDashboard(p) PROVE DeskInv'
  <2> DEFINE N == Append(desk, << <<>> >>)
  <2>1. Rearrange(p, N)
    BY <1>7 DEF AddDashboard
  <2>2. Rowed(desk) /\ Laid(desk, V)
    BY <1>1, <2>1
  <2> HIDE DEF desk
  <2>3. Rowed(N) /\ N # <<>> /\ Laid(N, V)
    BY <2>2, DashboardAdded
  <2> QED
    BY <1>1, <2>1, <2>3
<1>8. ASSUME RemoveDashboard(p) PROVE DeskInv'
  <2>1. PICK d \in DOMAIN desk :
          LET rest == RemoveAt(desk, d)
              removed == FlattenSeq(desk[d])
              there == UNION {Range(rest[1][r]) : r \in DOMAIN rest[1]}
          IN /\ rest # <<>>
             /\ Rearrange(p, [rest EXCEPT ![1][1] =
                                rest[1][1] \o Selected(removed, Range(removed) \ there)])
    BY <1>8 DEF RemoveDashboard
  <2> DEFINE rest == RemoveAt(desk, d)
             removed == FlattenSeq(desk[d])
             there == UNION {Range(rest[1][r]) : r \in DOMAIN rest[1]}
             N == [rest EXCEPT ![1][1] = rest[1][1] \o Selected(removed, Range(removed) \ there)]
  <2>2. rest # <<>> /\ Rearrange(p, N)
    BY <2>1
  <2>3. Rowed(desk) /\ Laid(desk, V)
    BY <1>1, <2>2
  <2> HIDE DEF desk
  <2>4. Rowed(N) /\ N # <<>> /\ Laid(N, V)
    BY <2>2, <2>3, DashboardRemoved
  <2> QED
    BY <1>1, <2>2, <2>4
<1>9. ASSUME MoveDashboard(p) PROVE DeskInv'
  <2>1. PICK d \in DOMAIN desk :
          /\ d + 1 \in DOMAIN desk
          /\ Rearrange(p, [desk EXCEPT ![d] = desk[d + 1], ![d + 1] = desk[d]])
    BY <1>9 DEF MoveDashboard
  <2> DEFINE N == [desk EXCEPT ![d] = desk[d + 1], ![d + 1] = desk[d]]
  <2>2. Rowed(desk) /\ Laid(desk, V)
    BY <1>1, <2>1
  <2> HIDE DEF desk
  <2>3. Rowed(N) /\ N # <<>> /\ Laid(N, V)
    BY <2>1, <2>2, DashboardsSwapped
  <2> QED
    BY <1>1, <2>1, <2>3
<1>10. ASSUME HideOrRemove(p) PROVE DeskInv'
  <2>1. PICK id \in Visible(copy[p].graphs), hide \in BOOLEAN :
          LET graphs == IF hide THEN Hidden(copy[p].graphs, id) ELSE Dropped(copy[p].graphs, id)
          IN Become(p, graphs, Take(desk, id)) /\ Send(p, graphs, Take(desk, id))
              /\ UNCHANGED used
    BY <1>10 DEF HideOrRemove
  <2> DEFINE graphs == IF hide THEN Hidden(copy[p].graphs, id) ELSE Dropped(copy[p].graphs, id)
             N == Take(desk, id)
  <2>2. Loaded(p) /\ kindOf[p] = "dashboard" /\ Become(p, graphs, N) /\ Send(p, graphs, N)
          /\ astray' = astray
    BY <1>10, <2>1 DEF HideOrRemove, Editing, Send
  <2>3. Listing(copy[p].graphs) /\ Rowed(desk) /\ desk # <<>> /\ Laid(desk, V) /\ id \in Graph
    BY <1>2, <2>2, CopyIs DEF V
  <2>4. Listing(graphs) /\ Visible(graphs) = V \ {id}
    BY <2>3, HiddenIs, DroppedIs DEF V
  <2> HIDE DEF desk, graphs
  <2>5. Rowed(N) /\ N # <<>> /\ Laid(N, V \ {id})
    BY <2>3, TakeIs
  <2> HIDE DEF N
  <2> QED
    BY <2>2, <2>4, <2>5, BecomesKeeps
<1> QED
  BY <1>3, <1>4, <1>5, <1>6, <1>7, <1>8, <1>9, <1>10 DEF EditDashboards

LEMMA SaveGraphKeeps ==
  ASSUME DeskInv, NEW p \in Page, SaveGraph(p)
  PROVE  DeskInv'
<1>1. PICK id \in Graph :
        LET graphs == IF id \in IdsOf(copy[p].graphs)
                      THEN [i \in DOMAIN copy[p].graphs |->
                              IF copy[p].graphs[i].id = id THEN Saved(id, FALSE)
                              ELSE copy[p].graphs[i]]
                      ELSE Append(copy[p].graphs, Saved(id, FALSE))
        IN /\ Send(p, graphs, Absent)
           /\ IF kindOf[p] = "markets" THEN UNCHANGED copy ELSE Become(p, graphs, copy[p].desk)
  BY DEF SaveGraph
<1> DEFINE graphs == IF id \in IdsOf(copy[p].graphs)
                     THEN [i \in DOMAIN copy[p].graphs |->
                             IF copy[p].graphs[i].id = id THEN Saved(id, FALSE)
                             ELSE copy[p].graphs[i]]
                     ELSE Append(copy[p].graphs, Saved(id, FALSE))
<1>2. /\ Loaded(p) /\ kindOf[p] # "dashboard" /\ Send(p, graphs, Absent)
      /\ IF kindOf[p] = "markets" THEN UNCHANGED copy ELSE Become(p, graphs, copy[p].desk)
  BY <1>1 DEF SaveGraph, Editing
<1>3. Listing(copy[p].graphs) /\ Rowed(copy[p].desk) /\ copy \in [Page -> CopyType]
  BY CopyIs
<1>4. Listing(graphs)
  BY <1>3, SavedIs
<1> HIDE DEF graphs
<1>5. CASE kindOf[p] = "markets"
  <2>1. copy' = copy
    BY <1>2, <1>5
  <2>2. Sending(p, graphs, Absent)
    BY <1>2 DEF Send, Sending
  <2>3. AskedFor(p, graphs, Absent)
    BY <1>4, <1>5, <2>1 DEF AskedFor
  <2>4. copy' \in [Page -> CopyType] /\ (\A x \in Page : x # p => copy'[x] = copy[x])
        /\ \A x \in Page : copy'[x].base = copy[x].base
    BY <1>3, <2>1
  <2> QED
    BY <1>2, <2>2, <2>3, <2>4, SendKeeps
<1>6. CASE kindOf[p] # "markets"
  <2>1. Become(p, graphs, copy[p].desk) /\ astray' = astray
    BY <1>2, <1>6 DEF Send
  <2>2. graphs # Absent
    BY <1>4, ListingIn
  <2> QED
    BY <1>2, <1>3, <1>4, <1>6, <2>1, <2>2, BecomesKeeps
<1> QED
  BY <1>5, <1>6

LEMMA SaveDraftKeeps ==
  ASSUME DeskInv, NEW p \in Page, SaveDraft(p)
  PROVE  DeskInv'
<1> DEFINE desk == Normalized(copy[p].desk, copy[p].graphs)
<1>1. /\ Loaded(p) /\ kindOf[p] = "settings" /\ Become(p, copy[p].graphs, desk)
      /\ Send(p, copy[p].graphs, desk) /\ astray' = astray
  BY DEF SaveDraft, Editing, Send
<1>2. Listing(copy[p].graphs) /\ Rowed(copy[p].desk)
  BY CopyIs
<1>3. Rowed(desk)
  BY <1>2, NormalizedIs
<1> HIDE DEF desk
<1> QED
  BY <1>1, <1>2, <1>3, BecomesKeeps

\* A copy that holds what nobody saved is not in order.
LEMMA DraftKeeps ==
  ASSUME DeskInv, NEW p \in Page, Draft(p)
  PROVE  DeskInv'
<1>1. Listing(copy[p].graphs) /\ Rowed(copy[p].desk) /\ copy \in [Page -> CopyType]
  BY CopyIs
<1>2. PICK G, K : Listing(G) /\ Rowed(K) /\ Become(p, G, K)
  <2>1. PICK id \in IdsOf(copy[p].graphs) :
          \/ \E i \in DOMAIN copy[p].graphs :
               /\ copy[p].graphs[i].id = id
               /\ Become(p, [copy[p].graphs EXCEPT ![i].hidden = ~ copy[p].graphs[i].hidden], copy[p].desk)
          \/ Become(p, Dropped(copy[p].graphs, id), Take(copy[p].desk, id))
    BY DEF Draft
  <2>2. CASE Become(p, Dropped(copy[p].graphs, id), Take(copy[p].desk, id))
    <3>1. Listing(Dropped(copy[p].graphs, id)) /\ Rowed(Take(copy[p].desk, id))
      BY <1>1, DroppedIs, TakeIs
    <3> QED
      BY <2>2, <3>1
  <2>3. CASE \E i \in DOMAIN copy[p].graphs :
               Become(p, [copy[p].graphs EXCEPT ![i].hidden = ~ copy[p].graphs[i].hidden], copy[p].desk)
    <3>1. PICK i \in DOMAIN copy[p].graphs :
            Become(p, [copy[p].graphs EXCEPT ![i].hidden = ~ copy[p].graphs[i].hidden], copy[p].desk)
      BY <2>3
    <3>2. Listing([copy[p].graphs EXCEPT ![i].hidden = ~ copy[p].graphs[i].hidden])
      BY <1>1, ToggledIs
    <3> QED
      BY <1>1, <3>1, <3>2
  <2> QED
    BY <2>1, <2>2, <2>3
<1>3. /\ copy' \in [Page -> CopyType] /\ copy'[p].graphs = G /\ copy'[p].desk = K
      /\ \A x \in Page : x # p => copy'[x] = copy[x]
      /\ \A x \in Page : copy'[x].base = copy[x].base /\ (Loaded(x)' <=> Loaded(x))
  BY <1>1, <1>2, ListingIn, RowedIn, BecomeIs
<1>4. /\ kindOf[p] = "settings" /\ astray' = astray \cup {p} /\ server' = server
           /\ kindOf' = kindOf
      /\ coming' = coming /\ requests' = requests /\ sent' = sent
  BY DEF Draft, Editing
<1>5. DeskTyped /\ CopiesTrue /\ AnswersTrue /\ RequestsTrue /\ PagesAgree
  BY DEF DeskInv
<1>6. DeskTyped'
  BY <1>3, <1>4, <1>5 DEF DeskTyped, CopyType
<1>7. CopiesTrue'
  <2>1. Listing(server'.graphs) /\ Rowed(server'.desk)
    BY <1>4, <1>5 DEF CopiesTrue
  <2>2. ASSUME NEW x \in Page PROVE CopyTrue(x)'
    <3>1. CopyTrue(x)
      BY <1>5 DEF CopiesTrue
    <3>2. CASE x # p
      BY <1>3, <1>4, <3>1, <3>2 DEF CopyTrue
    <3>3. CASE x = p
      BY <1>2, <1>3, <1>4, <3>1, <3>3 DEF CopyTrue
    <3> QED
      BY <3>2, <3>3
  <2> QED
    BY <2>1, <2>2 DEF CopiesTrue
<1>8. AnswersTrue'
  BY <1>3, <1>4, <1>5 DEF AnswersTrue, AnswerTrue
<1>9. RequestsTrue'
  <2>1. ASSUME NEW q \in requests PROVE RequestTrue(q)'
    <3>1. RequestTrue(q) /\ q.page \in Page
      BY <1>5 DEF RequestsTrue, DeskTyped
    <3> QED
      BY <1>3, <1>4, <3>1 DEF RequestTrue
  <2> QED
    BY <1>4, <1>5, <2>1 DEF RequestsTrue
<1>10. PagesAgree'
  <2> SUFFICES ASSUME NEW x \in Page, InOrder(x)' PROVE Agreed(x)'
    BY DEF PagesAgree
  <2>1. x # p
    BY <1>4 DEF InOrder
  <2>2. Agreed(x)
    BY <1>3, <1>4, <1>5, <2>1 DEF InOrder, PagesAgree
  <2>3. OwnRequests(x)' = OwnRequests(x)
    BY <1>4 DEF OwnRequests
  <2> QED
    BY <1>3, <1>4, <2>1, <2>2, <2>3, AgreedSame
<1> QED
  BY <1>6, <1>7, <1>8, <1>9, <1>10 DEF DeskInv

\* A page asks for the settings.
LEMMA AskKeeps ==
  ASSUME DeskInv, NEW p \in Page, NEW raw \in BOOLEAN,
         coming' = [coming EXCEPT ![p] = {[server |-> server, raw |-> raw]}],
         UNCHANGED <<server, kindOf, copy, requests, astray, sent>>,
         kindOf[p] = "dashboard" => ~ raw, kindOf[p] = "markets" => ~ Loaded(p)
  PROVE  DeskInv'
<1>1. DeskTyped /\ CopiesTrue /\ AnswersTrue /\ RequestsTrue /\ PagesAgree
  BY DEF DeskInv
<1>2. DeskTyped'
  BY <1>1 DEF DeskTyped
<1>3. CopiesTrue'
  BY <1>1 DEF CopiesTrue, CopyTrue, Loaded
<1>4. AnswersTrue'
  <2>1. ASSUME NEW x \in Page, NEW a \in coming'[x] PROVE AnswerTrue(x, a)'
    <3>1. CASE x = p
      <4>1. a = [server |-> server, raw |-> raw]
        BY <1>1, <3>1 DEF DeskTyped
      <4>2. a.server = server /\ a.raw = raw
        BY <4>1
      <4>3. server.version \in Nat
        BY <1>1 DEF DeskTyped, ServerType
      <4> QED
        BY <1>1, <3>1, <4>2, <4>3 DEF AnswerTrue, CopiesTrue, Loaded
    <3>2. CASE x # p
      <4>1. AnswerTrue(x, a)
        BY <1>1, <3>2 DEF DeskTyped, AnswersTrue
      <4> QED
        BY <4>1 DEF AnswerTrue, Loaded
    <3> QED
      BY <3>1, <3>2
  <2> QED
    BY <2>1 DEF AnswersTrue
<1>5. RequestsTrue'
  BY <1>1 DEF RequestsTrue, RequestTrue, Loaded
<1>6. PagesAgree'
  <2> SUFFICES ASSUME NEW x \in Page, InOrder(x)' PROVE Agreed(x)'
    BY DEF PagesAgree
  <2>1. Agreed(x)
    BY <1>1 DEF InOrder, PagesAgree, Loaded
  <2>2. OwnRequests(x)' = OwnRequests(x)
    BY DEF OwnRequests
  <2> QED
    BY <2>1, <2>2, AgreedSame
<1> QED
  BY <1>2, <1>3, <1>4, <1>5, <1>6 DEF DeskInv

\* The answer replaces the copy.
LEMMA ArriveKeeps ==
  ASSUME DeskInv, NEW p \in Page, Arrive(p)
  PROVE  DeskInv'
<1>1. DeskTyped /\ CopiesTrue /\ AnswersTrue /\ RequestsTrue /\ PagesAgree
  BY DEF DeskInv
<1>2. PICK a \in coming[p] :
        copy' = [copy EXCEPT ![p] =
          [graphs |-> a.server.graphs,
           desk |-> IF a.raw THEN a.server.desk ELSE Normalized(a.server.desk, a.server.graphs),
           base |-> a.server.version]]
  BY DEF Arrive
<1> DEFINE G == a.server.graphs
           K == IF a.raw THEN a.server.desk ELSE Normalized(a.server.desk, a.server.graphs)
           new == [graphs |-> G, desk |-> K, base |-> a.server.version]
<1>3. /\ coming' = [coming EXCEPT ![p] = {}] /\ server' = server /\ kindOf' = kindOf
      /\ requests' = requests /\ sent' = sent
      /\ astray' = IF \E q \in requests : q.page = p /\ q.stage # "applied"
                   THEN astray \cup {p} ELSE astray \ {p}
  BY DEF Arrive
<1>4. AnswerTrue(p, a) /\ a.server.version \in Nat /\ server.version \in Nat
  <2>1. a \in [server : ServerType, raw : BOOLEAN]
    BY <1>1 DEF DeskTyped
  <2> QED
    BY <1>1, <2>1 DEF AnswersTrue, DeskTyped, ServerType
<1>5. Listing(G) /\ Rowed(a.server.desk)
  BY <1>4 DEF AnswerTrue
<1>6. /\ Rowed(K)
      /\ ~ a.raw => K # <<>> /\ Laid(K, Visible(G))
           /\ K = Normalized(a.server.desk, a.server.graphs)
  BY <1>5, NormalizedIs
<1>7. copy \in [Page -> CopyType] /\ copy' = [copy EXCEPT ![p] = new]
  BY <1>2, CopyIs
<1>8. new.graphs = G /\ new.desk = K /\ new.base = a.server.version
  OBVIOUS
<1>9. new \in CopyType
  BY <1>4, <1>5, <1>6, ListingIn, RowedIn DEF CopyType
<1> HIDE DEF G, K, new
<1>10. copy' \in [Page -> CopyType] /\ copy'[p] = new /\ \A x \in Page : x # p =>
         copy'[x] = copy[x]
  BY <1>7, <1>9
<1>11. copy'[p].graphs = G /\ copy'[p].desk = K /\ copy'[p].base = a.server.version
  BY <1>8, <1>10
<1>12. \A x \in Page : Loaded(x) => Loaded(x)'
  <2> SUFFICES ASSUME NEW x \in Page, Loaded(x) PROVE copy'[x].base >= 0
    BY DEF Loaded
  <2>1. CASE x = p
    BY <1>4, <1>11, <2>1
  <2>2. CASE x # p
    BY <1>10, <2>2 DEF Loaded
  <2> QED
    BY <2>1, <2>2
<1>13. DeskTyped'
  BY <1>1, <1>3, <1>10 DEF DeskTyped, CopyType
<1>14. CopiesTrue'
  <2>1. Listing(server'.graphs) /\ Rowed(server'.desk)
    BY <1>1, <1>3 DEF CopiesTrue
  <2>2. ASSUME NEW x \in Page PROVE CopyTrue(x)'
    <3>1. CopyTrue(x)
      BY <1>1 DEF CopiesTrue
    <3>2. CASE x # p
      BY <1>3, <1>10, <3>1, <3>2 DEF CopyTrue, Loaded
    <3>3. CASE x = p
      <4>1. copy'[x].graphs = G /\ copy'[x].desk = K /\ copy'[x].base <= server'.version
        BY <1>3, <1>4, <1>11, <3>3 DEF AnswerTrue
      <4>2. kindOf'[x] = "dashboard" => K # <<>> /\ Laid(K, Visible(G))
        BY <1>3, <1>4, <1>6, <3>3 DEF AnswerTrue
      <4>3. Visible(copy[x].graphs)' = Visible(copy'[x].graphs)
        BY DEF Visible
      <4> QED
        BY <1>5, <1>6, <4>1, <4>2, <4>3 DEF CopyTrue, G
    <3> QED
      BY <3>2, <3>3
  <2> QED
    BY <2>1, <2>2 DEF CopiesTrue
<1>15. AnswersTrue'
  <2>1. ASSUME NEW x \in Page, NEW b \in coming'[x] PROVE AnswerTrue(x, b)'
    <3>1. x # p /\ b \in coming[x]
      BY <1>1, <1>3 DEF DeskTyped
    <3>2. AnswerTrue(x, b)
      BY <1>1, <3>1 DEF AnswersTrue
    <3> QED
      BY <1>3, <1>10, <3>1, <3>2 DEF AnswerTrue, Loaded
  <2> QED
    BY <2>1 DEF AnswersTrue
<1>16. RequestsTrue'
  <2>1. ASSUME NEW q \in requests PROVE RequestTrue(q)'
    <3>1. RequestTrue(q) /\ q.page \in Page
      BY <1>1 DEF RequestsTrue, DeskTyped
    <3> QED
      BY <1>3, <1>12, <3>1 DEF RequestTrue
  <2> QED
    BY <1>1, <1>3, <2>1 DEF RequestsTrue
<1>17. PagesAgree'
  <2> SUFFICES ASSUME NEW x \in Page, InOrder(x)' PROVE Agreed(x)'
    BY DEF PagesAgree
  <2>1. OwnRequests(x)' = OwnRequests(x)
    BY <1>3 DEF OwnRequests
  <2>2. CASE x # p
    <3>1. InOrder(x)
      BY <1>3, <1>10, <2>2 DEF InOrder, Loaded
    <3>2. Agreed(x)
      BY <1>1, <3>1 DEF PagesAgree
    <3> QED
      BY <1>3, <1>10, <2>1, <2>2, <3>2, AgreedSame
  <2>3. CASE x = p
    <3>1. a.server = server
      BY <1>3, <1>4, <1>11, <2>3 DEF InOrder, AnswerTrue
    <3>2. \A q \in requests : q.page = x => q.stage = "applied"
      BY <1>3, <2>3 DEF InOrder
    <3>3. copy'[x].graphs = server'.graphs /\ copy'[x].desk = K
      BY <1>3, <1>11, <2>3, <3>1 DEF G
    <3>4. Unapplied(x)' = {} /\ WithLists(x)' = {}
      BY <1>3, <3>2 DEF Unapplied, WithLists, OwnRequests
    <3>5. CASE kindOf[x] = "markets"
      <4>1. ~ Loaded(x)
        BY <1>4, <2>3, <3>5 DEF AnswerTrue
      <4>2. \A q \in requests : q.page # x
        BY <1>1, <4>1 DEF RequestsTrue, RequestTrue
      <4>3. Made(x)' = {}
        BY <1>3, <4>2 DEF Made, OwnRequests
      <4> QED
        BY <1>3, <3>3, <3>5, <4>3 DEF Agreed
    <3>6. CASE kindOf[x] # "markets"
      <4>1. kindOf[x] = "dashboard" => copy'[x].desk = Normalized(server'.desk, server'.graphs)
        BY <1>3, <1>4, <1>6, <2>3, <3>1, <3>3 DEF AnswerTrue
      <4> QED
        BY <1>3, <3>3, <3>4, <3>6, <4>1 DEF Agreed
    <3> QED
      BY <3>5, <3>6
  <2> QED
    BY <2>2, <2>3
<1> QED
  BY <1>13, <1>14, <1>15, <1>16, <1>17 DEF DeskInv

\* A request that is gone, answered or not.
LEMMA GoneKeeps ==
  ASSUME DeskInv, NEW q \in requests, requests' = requests \ {q},
         server' = server, kindOf' = kindOf, coming' = coming, sent' = sent,
         astray \subseteq astray',
         IF kindOf[q.page] = "markets" /\ q.stage = "applied"
         THEN Become(q.page, q.graphs, copy[q.page].desk)
         ELSE copy' = copy,
         q.stage = "applied" =>
           ((\E r \in requests : r.page = q.page /\ r.number < q.number) => q.page \in astray'),
         q.stage # "applied" => kindOf[q.page] = "markets" \/ q.page \in astray'
  PROVE  DeskInv'
<1> DEFINE p == q.page
<1>1. DeskTyped /\ CopiesTrue /\ AnswersTrue /\ RequestsTrue /\ PagesAgree
  BY DEF DeskInv
<1>2. /\ p \in Page /\ RequestTrue(q) /\ q.number \in Nat
      /\ \A r \in requests : r.number \in Nat
  BY <1>1 DEF DeskTyped, RequestsTrue
<1>3. Listing(copy[p].graphs) /\ Rowed(copy[p].desk) /\ copy \in [Page -> CopyType]
  BY <1>2, CopyIs
<1>4. /\ copy' \in [Page -> CopyType] /\ Listing(copy'[p].graphs) /\ Rowed(copy'[p].desk)
      /\ \A x \in Page : x # p => copy'[x] = copy[x]
      /\ \A x \in Page : copy'[x].base = copy[x].base /\ (Loaded(x)' <=> Loaded(x))
      /\ kindOf[p] = "markets" /\ q.stage = "applied" => copy'[p].graphs = q.graphs
           /\ Listing(q.graphs)
  <2>1. CASE kindOf[p] = "markets" /\ q.stage = "applied"
    <3>1. Listing(q.graphs)
      BY <1>2, <2>1 DEF RequestTrue
    <3>2. Become(p, q.graphs, copy[p].desk)
      BY <2>1
    <3>3. q.graphs \in GraphLists /\ copy[p].desk \in Desks
      BY <1>3, <3>1, ListingIn, RowedIn
    <3> HIDE DEF p
    <3>4. /\ copy' \in [Page -> CopyType] /\ copy'[p].graphs = q.graphs
               /\ copy'[p].desk = copy[p].desk
          /\ \A x \in Page : x # p => copy'[x] = copy[x]
          /\ \A x \in Page : copy'[x].base = copy[x].base /\ (Loaded(x)' <=> Loaded(x))
      BY <1>2, <1>3, <3>2, <3>3, BecomeIs
    <3> QED
      BY <1>3, <3>1, <3>4
  <2>2. CASE ~ (kindOf[p] = "markets" /\ q.stage = "applied")
    <3>1. copy' = copy
      BY <2>2
    <3> QED
      BY <1>3, <2>2, <3>1 DEF Loaded
  <2> QED
    BY <2>1, <2>2
<1>a. kindOf[p] # "markets" => copy' = copy
  OBVIOUS
<1>5. DeskTyped'
  BY <1>1, <1>4 DEF DeskTyped, CopyType
<1> HIDE DEF p
<1>6. CopiesTrue'
  <2>1. Listing(server'.graphs) /\ Rowed(server'.desk)
    BY <1>1 DEF CopiesTrue
  <2>2. ASSUME NEW x \in Page PROVE CopyTrue(x)'
    <3>1. CopyTrue(x)
      BY <1>1 DEF CopiesTrue
    <3>2. CASE x # p
      BY <1>4, <3>1, <3>2 DEF CopyTrue
    <3>3. CASE x = p
      <4>1. CASE kindOf[p] = "markets"
        BY <1>4, <3>1, <3>3, <4>1 DEF CopyTrue
      <4>2. CASE kindOf[p] # "markets"
        BY <1>4, <1>a, <3>1, <3>3, <4>2 DEF CopyTrue
      <4> QED
        BY <4>1, <4>2
    <3> QED
      BY <3>2, <3>3
  <2> QED
    BY <2>1, <2>2 DEF CopiesTrue
<1>7. AnswersTrue'
  BY <1>1, <1>4 DEF AnswersTrue, AnswerTrue
<1>8. RequestsTrue'
  <2>1. ASSUME NEW r \in requests PROVE RequestTrue(r)'
    <3>1. RequestTrue(r) /\ r.page \in Page
      BY <1>1 DEF RequestsTrue, DeskTyped
    <3> QED
      BY <1>4, <3>1 DEF RequestTrue
  <2> QED
    BY <1>1, <2>1 DEF RequestsTrue
<1>9. PagesAgree'
  <2> SUFFICES ASSUME NEW x \in Page, InOrder(x)' PROVE Agreed(x)'
    BY DEF PagesAgree
  <2>1. InOrder(x)
    BY <1>4 DEF InOrder
  <2>2. Agreed(x)
    BY <1>1, <2>1 DEF PagesAgree
  <2>3. CASE x # p
    <3>1. OwnRequests(x)' = OwnRequests(x)
      BY <2>3 DEF OwnRequests, p
    <3> QED
      BY <1>4, <2>2, <2>3, <3>1, AgreedSame
  <2>4. CASE x = p
    <3>1. x \notin astray'
      BY DEF InOrder
    <3>2. q \in OwnRequests(x)
      BY <2>4 DEF OwnRequests, p
    <3>3. OwnRequests(x)' = OwnRequests(x) \ {q}
      BY DEF OwnRequests
    <3>4. Made(x)' = Made(x) \ {q} /\ Unapplied(x)' = Unapplied(x) \ {q}
            /\ WithLists(x)' = WithLists(x) \ {q}
      BY <3>3 DEF Made, Unapplied, WithLists
    <3>5. q.stage = "applied" => \A r \in requests : r.page = x => ~ (r.number < q.number)
      BY <2>4, <3>1 DEF p
    <3>6. CASE kindOf[x] = "markets"
      <4>1. /\ Made(x) = {} => copy[x].graphs = server.graphs
            /\ \A r \in Made(x) : NewestOf(r, Made(x)) => r.graphs = server.graphs
        BY <2>2, <3>6 DEF Agreed
      <4>2. CASE q.stage # "applied"
        <5>1. Made(x)' = Made(x)
          BY <3>4, <4>2 DEF Made
        <5>2. copy' = copy
          BY <4>2
        <5> QED
          BY <3>6, <4>1, <5>1, <5>2 DEF Agreed, NewestOf
      <4>3. CASE q.stage = "applied"
        <5>1. q \in Made(x)
          BY <3>2, <4>3 DEF Made
        <5>2. copy'[x].graphs = q.graphs
          BY <1>4, <2>4, <3>6, <4>3
        <5>3. ASSUME Made(x)' = {} PROVE copy'[x].graphs = server'.graphs
          <6>1. NewestOf(q, Made(x))
            BY <1>2, <3>4, <5>3 DEF NewestOf
          <6> QED
            BY <4>1, <5>1, <5>2, <6>1
        <5>4. ASSUME NEW r \in Made(x)', NewestOf(r, Made(x)') PROVE r.graphs = server'.graphs
          <6>1. r \in Made(x) /\ r \in requests /\ r.page = x
            BY <3>4, <5>4 DEF Made, OwnRequests
          <6>2. q.number <= r.number
            BY <1>2, <3>5, <4>3, <6>1
          <6>3. NewestOf(r, Made(x))
            BY <3>4, <5>4, <6>2 DEF NewestOf
          <6> QED
            BY <4>1, <6>1, <6>3
        <5> QED
          BY <3>6, <5>3, <5>4 DEF Agreed, NewestOf
      <4> QED
        BY <4>2, <4>3
    <3>7. CASE kindOf[x] # "markets"
      <4>1. q.stage = "applied" /\ copy' = copy
        BY <1>a, <2>4, <3>1, <3>7 DEF p
      <4>2. Unapplied(x)' = Unapplied(x) /\ WithLists(x)' = WithLists(x)
        BY <3>4, <4>1 DEF Unapplied, WithLists
      <4>3. Late(x) => Late(x)'
        <5> SUFFICES ASSUME NEW r \in Unapplied(x), NEW s \in Made(x), r.number < s.number
                     PROVE  Late(x)'
          BY DEF Late
        <5>1. r \in requests /\ r.page = x
          BY DEF Unapplied, OwnRequests
        <5>2. s # q
          BY <3>5, <4>1, <5>1
        <5> QED
          BY <3>4, <4>2, <5>2 DEF Late
      <4> QED
        BY <2>2, <3>7, <4>1, <4>2, <4>3 DEF Agreed, NewestOf
    <3> QED
      BY <3>6, <3>7
  <2> QED
    BY <2>3, <2>4
<1> QED
  BY <1>5, <1>6, <1>7, <1>8, <1>9 DEF DeskInv

LEMMA AnswerKeeps ==
  ASSUME DeskInv, NEW q \in requests, Answer(q)
  PROVE  DeskInv'
<1>1. q.stage = "applied" /\ requests' = requests \ {q}
  BY DEF Answer
<1>2. server' = server /\ kindOf' = kindOf /\ coming' = coming /\ sent' = sent
  BY DEF Answer
<1>3. IF kindOf[q.page] = "markets" THEN Become(q.page, q.graphs, copy[q.page].desk)
        ELSE copy' = copy
  BY DEF Answer
<1>4. astray' = IF \E r \in requests : r.page = q.page /\ r.number < q.number
                THEN astray \cup {q.page} ELSE astray
  BY DEF Answer
<1>5. astray \subseteq astray' /\ ((\E r \in requests : r.page = q.page /\ r.number < q.number) =>
        q.page \in astray')
  BY <1>4
<1> QED
  BY <1>1, <1>2, <1>3, <1>5, GoneKeeps

LEMMA FailKeeps ==
  ASSUME DeskInv, NEW q \in requests, FailRequest(q)
  PROVE  DeskInv'
<1>1. q.stage = "sent" /\ requests' = requests \ {q} /\ copy' = copy
  BY DEF FailRequest
<1>2. server' = server /\ kindOf' = kindOf /\ coming' = coming /\ sent' = sent
  BY DEF FailRequest
<1>3. astray \subseteq astray' /\ (kindOf[q.page] = "markets" \/ q.page \in astray')
  BY DEF FailRequest
<1> QED
  BY <1>1, <1>2, <1>3, GoneKeeps

\* The server reads the settings for a request with a list of graphs.
LEMMA CheckKeeps ==
  ASSUME DeskInv, NEW q \in requests, Check(q)
  PROVE  DeskInv'
<1> DEFINE K == Arranged(IF q.desk = Absent THEN server.desk ELSE q.desk, q.graphs)
           c == [q EXCEPT !.stage = "checked", !.desk = K]
           p == q.page
<1>1. DeskTyped /\ CopiesTrue /\ AnswersTrue /\ RequestsTrue /\ PagesAgree
  BY DEF DeskInv
<1>2. /\ q.stage = "sent" /\ q.graphs # Absent /\ requests' = (requests \ {q}) \cup {c}
      /\ server' = server /\ kindOf' = kindOf /\ copy' = copy /\ coming' = coming
      /\ astray' = astray /\ sent' = sent
  BY DEF Check
<1>3. /\ p \in Page /\ RequestTrue(q) /\ q.number \in Nat
      /\ q \in [page : Page, number : Nat, graphs : GraphLists \cup {Absent},
                desk : Desks \cup {Absent}, stage : {"sent", "checked", "applied"}]
  BY <1>1 DEF DeskTyped, RequestsTrue
<1>4. /\ Rowed(K) /\ K # <<>>
      /\ kindOf[p] = "dashboard" => K = q.desk
  <2>1. Listing(q.graphs) /\ Rowed(server.desk) /\ (q.desk = Absent \/ Rowed(q.desk))
    BY <1>1, <1>2, <1>3 DEF RequestTrue, CopiesTrue
  <2>2. kindOf[p] = "dashboard" =>
          q.desk # Absent /\ q.desk # <<>> /\ Laid(q.desk, Visible(q.graphs))
    BY <1>2, <1>3 DEF RequestTrue
  <2> QED
    BY <2>1, <2>2, ArrangedIs
<1> HIDE DEF K
<1>5. /\ c.page = p /\ c.number = q.number /\ c.graphs = q.graphs /\ c.desk = K
           /\ c.stage = "checked"
      /\ c \in [page : Page, number : Nat, graphs : GraphLists \cup {Absent},
                desk : Desks \cup {Absent}, stage : {"sent", "checked", "applied"}]
  BY <1>3, <1>4, RowedIn
<1> HIDE DEF c, p
<1>6. DeskTyped'
  BY <1>1, <1>2, <1>5 DEF DeskTyped
<1>7. CopiesTrue'
  BY <1>1, <1>2 DEF CopiesTrue, CopyTrue, Loaded
<1>8. AnswersTrue'
  BY <1>1, <1>2 DEF AnswersTrue, AnswerTrue, Loaded
<1>9. RequestsTrue'
  <2>1. ASSUME NEW r \in requests' PROVE RequestTrue(r)'
    <3>1. CASE r = c
      <4>1. Loaded(r.page)' /\ r.number < sent'
        BY <1>2, <1>3, <1>5, <3>1 DEF RequestTrue, Loaded, p
      <4>2. K # Absent
        BY <1>4, RowedIn
      <4> QED
        BY <1>2, <1>3, <1>4, <1>5, <3>1, <4>1, <4>2 DEF RequestTrue, p
    <3>2. CASE r \in requests
      <4>1. RequestTrue(r)
        BY <1>1, <3>2 DEF RequestsTrue
      <4> QED
        BY <1>2, <4>1 DEF RequestTrue, Loaded
    <3> QED
      BY <1>2, <3>1, <3>2
  <2>2. ASSUME NEW r \in requests', NEW s \in requests', r.number = s.number PROVE r = s
    BY <1>1, <1>2, <1>5, <2>2 DEF RequestsTrue
  <2> QED
    BY <2>1, <2>2 DEF RequestsTrue
<1>10. PagesAgree'
  <2> SUFFICES ASSUME NEW x \in Page, InOrder(x)' PROVE Agreed(x)'
    BY DEF PagesAgree
  <2>1. Agreed(x)
    BY <1>1, <1>2 DEF InOrder, PagesAgree, Loaded
  <2>2. CASE x # p
    <3>1. OwnRequests(x)' = OwnRequests(x)
      BY <1>2, <1>5, <2>2 DEF OwnRequests, p
    <3> QED
      BY <1>2, <2>1, <3>1, AgreedSame
  <2>3. CASE x = p
    <3>1. q \in OwnRequests(x) /\ q \in Unapplied(x) /\ q \in WithLists(x)
      BY <1>2, <2>3 DEF OwnRequests, Unapplied, WithLists, p
    <3>2. OwnRequests(x)' = (OwnRequests(x) \ {q}) \cup {c}
      BY <1>2, <1>5, <2>3 DEF OwnRequests, p
    <3>3. Unapplied(x)' = (Unapplied(x) \ {q}) \cup {c} /\ Made(x)' = Made(x)
      BY <1>2, <1>5, <3>2 DEF Unapplied, Made
    <3>4. WithLists(x)' = (WithLists(x) \ {q}) \cup {c}
      BY <1>2, <1>5, <3>3 DEF WithLists
    <3>5. Late(x) => Late(x)'
      <4> SUFFICES ASSUME NEW r \in Unapplied(x), NEW s \in Made(x), r.number < s.number
                   PROVE  Late(x)'
        BY DEF Late
      <4>1. CASE r = q
        BY <1>5, <3>3, <4>1 DEF Late
      <4>2. CASE r # q
        BY <3>3, <4>2 DEF Late
      <4> QED
        BY <4>1, <4>2
    <3>6. CASE kindOf[x] = "markets"
      BY <1>2, <2>1, <3>3, <3>6 DEF Agreed, NewestOf
    <3>7. CASE kindOf[x] # "markets"
      <4> SUFFICES ASSUME ~ Late(x)'
                   PROVE  /\ WithLists(x)' = {} => copy'[x].graphs = server'.graphs
                          /\ \A r \in WithLists(x)' : NewestOf(r, WithLists(x)') =>
                               copy'[x].graphs = r.graphs
                          /\ kindOf'[x] = "dashboard" =>
                               /\ Unapplied(x)' = {} => copy'[x].desk = Normalized(server'.desk, server'.graphs)
                               /\ \A r \in Unapplied(x)' : NewestOf(r, Unapplied(x)') =>
                                    copy'[x].desk = r.desk
        BY <1>2, <3>7 DEF Agreed, NewestOf
      <4>1. /\ \A r \in WithLists(x) : NewestOf(r, WithLists(x)) => copy[x].graphs = r.graphs
            /\ kindOf[x] = "dashboard" =>
                 \A r \in Unapplied(x) : NewestOf(r, Unapplied(x)) => copy[x].desk = r.desk
        BY <2>1, <3>5, <3>7 DEF Agreed
      <4>2. ASSUME NEW S, q \in S, NEW r \in (S \ {q}) \cup {c}, NewestOf(r, (S \ {q}) \cup {c})
            PROVE  \/ r = c /\ NewestOf(q, S)
                   \/ r \in S /\ NewestOf(r, S)
        BY <1>5, <4>2 DEF NewestOf
      <4>3. ASSUME NEW r \in WithLists(x)', NewestOf(r, WithLists(x)')
            PROVE  copy'[x].graphs = r.graphs
        <5>1. \/ r = c /\ NewestOf(q, WithLists(x))
              \/ r \in WithLists(x) /\ NewestOf(r, WithLists(x))
          BY <3>1, <3>4, <4>2, <4>3
        <5> QED
          BY <1>2, <1>5, <3>1, <4>1, <5>1
      <4>4. ASSUME NEW r \in Unapplied(x)', NewestOf(r, Unapplied(x)'), kindOf[x] = "dashboard"
            PROVE  copy'[x].desk = r.desk
        <5>1. \/ r = c /\ NewestOf(q, Unapplied(x))
              \/ r \in Unapplied(x) /\ NewestOf(r, Unapplied(x))
          BY <3>1, <3>3, <4>2, <4>4
        <5>2. K = q.desk
          BY <1>4, <2>3, <4>4
        <5> QED
          BY <1>2, <1>5, <3>1, <4>1, <4>4, <5>1, <5>2
      <4> QED
        BY <1>2, <3>3, <3>4, <4>3, <4>4
    <3> QED
      BY <3>6, <3>7
  <2> QED
    BY <2>2, <2>3
<1> QED
  BY <1>6, <1>7, <1>8, <1>9, <1>10 DEF DeskInv

\* What is in a request replaces what is there.
LEMMA ApplyKeeps ==
  ASSUME DeskInv, NEW q \in requests, Apply(q)
  PROVE  DeskInv'
<1> DEFINE G == IF q.graphs = Absent THEN server.graphs ELSE q.graphs
           c == [q EXCEPT !.stage = "applied"]
           p == q.page
<1>1. DeskTyped /\ CopiesTrue /\ AnswersTrue /\ RequestsTrue /\ PagesAgree
  BY DEF DeskInv
<1>2. /\ q.stage = "checked" \/ (q.stage = "sent" /\ q.graphs = Absent)
      /\ requests' = (requests \ {q}) \cup {c}
      /\ server' = [graphs |-> G, desk |-> q.desk, version |-> server.version + 1]
      /\ copy' = IF copy[p].base = server.version THEN [copy EXCEPT ![p].base = @ + 1] ELSE copy
      /\ astray' = IF \E r \in requests : r.page = p /\ r.number > q.number /\ r.stage = "applied"
                   THEN astray \cup {p} ELSE astray
      /\ kindOf' = kindOf /\ coming' = coming /\ sent' = sent
  BY DEF Apply, Becomes
<1>3. /\ p \in Page /\ RequestTrue(q) /\ server.version \in Nat
      /\ q \in [page : Page, number : Nat, graphs : GraphLists \cup {Absent},
                desk : Desks \cup {Absent}, stage : {"sent", "checked", "applied"}]
      /\ \A r \in requests : r.number \in Nat
  BY <1>1 DEF DeskTyped, RequestsTrue, ServerType
<1>4. /\ Listing(G) /\ Rowed(q.desk) /\ q.desk # Absent
      /\ q.graphs # Absent => G = q.graphs
      /\ q.graphs = Absent => G = server.graphs
  BY <1>1, <1>2, <1>3 DEF RequestTrue, CopiesTrue
<1>5. /\ c.page = p /\ c.number = q.number /\ c.graphs = q.graphs /\ c.desk = q.desk
           /\ c.stage = "applied"
      /\ c \in [page : Page, number : Nat, graphs : GraphLists \cup {Absent},
                desk : Desks \cup {Absent}, stage : {"sent", "checked", "applied"}]
  BY <1>3
<1> HIDE DEF G, c, p
<1>6. /\ server'.graphs = G /\ server'.desk = q.desk /\ server'.version = server.version + 1
      /\ server' \in ServerType
  BY <1>2, <1>3, <1>4, ListingIn, RowedIn DEF ServerType
<1>7. /\ copy' \in [Page -> CopyType]
      /\ \A x \in Page : /\ copy'[x].graphs = copy[x].graphs /\ copy'[x].desk = copy[x].desk
                         /\ copy'[x].base = IF x = p /\ copy[x].base = server.version
                                            THEN copy[x].base + 1 ELSE copy[x].base
  <2>1. copy \in [Page -> CopyType]
    BY CopyIs, <1>3
  <2>2. CASE copy[p].base = server.version
    <3> DEFINE new == [copy[p] EXCEPT !.base = copy[p].base + 1]
    <3>1. copy[p] \in CopyType
      BY <1>3, <2>1
    <3>2. new \in CopyType /\ new.graphs = copy[p].graphs /\ new.desk = copy[p].desk
            /\ new.base = copy[p].base + 1
      BY <1>3, <2>2, <3>1 DEF CopyType
    <3>3. copy' = [copy EXCEPT ![p] = new]
      BY <1>2, <2>2
    <3> HIDE DEF new
    <3>4. copy' \in [Page -> CopyType] /\ copy'[p] = new /\ \A x \in Page : x # p =>
            copy'[x] = copy[x]
      BY <1>3, <2>1, <3>2, <3>3
    <3>5. ASSUME NEW x \in Page
          PROVE  /\ copy'[x].graphs = copy[x].graphs /\ copy'[x].desk = copy[x].desk
                 /\ copy'[x].base = IF x = p /\ copy[x].base = server.version
                                    THEN copy[x].base + 1 ELSE copy[x].base
      <4>1. CASE x = p
        BY <2>2, <3>2, <3>4, <4>1
      <4>2. CASE x # p
        BY <3>4, <4>2
      <4> QED
        BY <4>1, <4>2
    <3> QED
      BY <3>4, <3>5
  <2>3. CASE copy[p].base # server.version
    BY <1>2, <2>1, <2>3
  <2> QED
    BY <2>2, <2>3
<1>8. \A x \in Page : copy[x].base \in Nat \cup {-1} /\ copy[x].base <= server.version
  BY <1>1 DEF DeskTyped, CopiesTrue, CopyTrue
<1>9. \A x \in Page : Loaded(x)' <=> Loaded(x)
  <2> SUFFICES ASSUME NEW x \in Page PROVE copy'[x].base >= 0 <=> copy[x].base >= 0
    BY DEF Loaded
  <2> QED
    BY <1>3, <1>7, <1>8
<1>10. DeskTyped'
  BY <1>1, <1>2, <1>5, <1>6, <1>7 DEF DeskTyped, CopyType
<1>11. CopiesTrue'
  <2>1. ASSUME NEW x \in Page PROVE CopyTrue(x)'
    <3>1. CopyTrue(x)
      BY <1>1 DEF CopiesTrue
    <3>2. copy'[x].base <= server'.version
      BY <1>3, <1>6, <1>7, <1>8
    <3>3. Visible(copy[x].graphs)' = Visible(copy[x].graphs)
      BY <1>7 DEF Visible
    <3> QED
      BY <1>2, <1>7, <1>9, <3>1, <3>2, <3>3 DEF CopyTrue
  <2> QED
    BY <1>4, <1>6, <2>1 DEF CopiesTrue
<1>12. AnswersTrue'
  <2>1. ASSUME NEW x \in Page, NEW a \in coming[x] PROVE AnswerTrue(x, a)'
    <3>1. AnswerTrue(x, a) /\ a.server.version \in Nat
      <4>1. a \in [server : ServerType, raw : BOOLEAN]
        BY <1>1 DEF DeskTyped
      <4> QED
        BY <1>1, <4>1 DEF AnswersTrue, ServerType
    <3>2. a.server.version < server'.version
      BY <1>3, <1>6, <3>1 DEF AnswerTrue
    <3> QED
      BY <1>2, <1>3, <1>6, <1>9, <3>1, <3>2 DEF AnswerTrue
  <2> QED
    BY <1>2, <2>1 DEF AnswersTrue
<1>13. RequestsTrue'
  <2>1. ASSUME NEW r \in requests' PROVE RequestTrue(r)'
    <3>1. CASE r = c
      <4>1. Loaded(r.page)' /\ r.number < sent'
        BY <1>2, <1>3, <1>5, <1>9, <3>1 DEF RequestTrue, p
      <4> QED
        BY <1>2, <1>3, <1>4, <1>5, <3>1, <4>1 DEF RequestTrue, p
    <3>2. CASE r \in requests
      <4>1. RequestTrue(r) /\ r.page \in Page
        BY <1>1, <3>2 DEF RequestsTrue, DeskTyped
      <4> QED
        BY <1>2, <1>9, <4>1 DEF RequestTrue
    <3> QED
      BY <1>2, <3>1, <3>2
  <2>2. ASSUME NEW r \in requests', NEW s \in requests', r.number = s.number PROVE r = s
    BY <1>1, <1>2, <1>5, <2>2 DEF RequestsTrue
  <2> QED
    BY <2>1, <2>2 DEF RequestsTrue
<1>14. PagesAgree'
  <2> SUFFICES ASSUME NEW x \in Page, InOrder(x)' PROVE Agreed(x)'
    BY DEF PagesAgree
  <2>1. x = p /\ copy[x].base = server.version
    BY <1>3, <1>6, <1>7, <1>8 DEF InOrder
  <2>2. x \notin astray' /\ x \notin astray
    BY <1>2 DEF InOrder
  <2>3. Agreed(x)
    BY <1>1, <1>9, <2>1, <2>2 DEF InOrder, PagesAgree
  <2>4. \A r \in requests : r.page = x /\ r.stage = "applied" => r.number <= q.number
    BY <1>2, <1>3, <2>1, <2>2
  <2>5. q \in OwnRequests(x) /\ q \in Unapplied(x) /\ (q \in WithLists(x) <=> q.graphs # Absent)
    BY <1>2, <2>1 DEF OwnRequests, Unapplied, WithLists, p
  <2>6. OwnRequests(x)' = (OwnRequests(x) \ {q}) \cup {c}
    BY <1>2, <1>5, <2>1 DEF OwnRequests, p
  <2>7. Unapplied(x)' = Unapplied(x) \ {q} /\ Made(x)' = Made(x) \cup {c}
    <3>1. q \notin Made(x)
      BY <1>2 DEF Made
    <3> QED
      BY <1>5, <2>6, <3>1 DEF Unapplied, Made
  <2>8. WithLists(x)' = WithLists(x) \ {q}
    BY <2>7 DEF WithLists
  <2>9. \A r \in OwnRequests(x) : r \in requests /\ r.page = x /\ r.number \in Nat
    BY <1>3 DEF OwnRequests
  <2>10. CASE kindOf[x] = "markets"
    <3>1. q.graphs # Absent
      BY <1>3, <2>1, <2>10 DEF RequestTrue, p
    <3>2. c \in Made(x)'
      BY <2>7
    <3>3. ASSUME NEW r \in Made(x)', NewestOf(r, Made(x)') PROVE r.graphs = server'.graphs
      <4>1. CASE r = c
        BY <1>4, <1>5, <1>6, <3>1, <4>1
      <4>2. CASE r # c
        <5>1. r \in Made(x) /\ r \in requests /\ r.page = x /\ r.stage = "applied"
          BY <2>7, <4>2 DEF Made, OwnRequests
        <5>2. r.number <= q.number /\ q.number <= r.number /\ r.number \in Nat /\ q.number \in Nat
          BY <1>3, <1>5, <2>4, <3>2, <3>3, <5>1 DEF NewestOf
        <5>3. r = q
          BY <1>1, <5>1, <5>2 DEF RequestsTrue
        <5> QED
          BY <1>2, <5>1, <5>3
      <4> QED
        BY <4>1, <4>2
    <3> QED
      BY <1>2, <2>10, <3>2, <3>3 DEF Agreed, NewestOf
  <2>11. CASE kindOf[x] # "markets"
    <3> SUFFICES ASSUME ~ Late(x)'
                 PROVE  /\ WithLists(x)' = {} => copy'[x].graphs = server'.graphs
                        /\ \A r \in WithLists(x)' : NewestOf(r, WithLists(x)') =>
                             copy'[x].graphs = r.graphs
                        /\ kindOf'[x] = "dashboard" =>
                             /\ Unapplied(x)' = {} => copy'[x].desk = Normalized(server'.desk, server'.graphs)
                             /\ \A r \in Unapplied(x)' : NewestOf(r, Unapplied(x)') =>
                                  copy'[x].desk = r.desk
      BY <1>2, <2>11 DEF Agreed, NewestOf
    <3>1. \A r \in Unapplied(x) : r # q => q.number < r.number
      <4> SUFFICES ASSUME NEW r \in Unapplied(x), r # q PROVE q.number < r.number
        OBVIOUS
      <4>1. r \in requests /\ r.number \in Nat /\ q.number \in Nat
        BY <1>3 DEF Unapplied, OwnRequests
      <4>2. ~ (r.number < q.number)
        BY <1>5, <2>7 DEF Late
      <4>3. r.number # q.number
        BY <1>1, <4>1 DEF RequestsTrue
      <4> QED
        BY <4>1, <4>2, <4>3
    <3>2. ~ Late(x)
      <4> SUFFICES ASSUME NEW r \in Unapplied(x), NEW s \in Made(x), r.number < s.number
                   PROVE  FALSE
        BY DEF Late
      <4>1. CASE r = q
        BY <1>3, <2>4, <4>1 DEF Made, OwnRequests
      <4>2. CASE r # q
        BY <2>7, <4>2 DEF Late
      <4> QED
        BY <4>1, <4>2
    <3>3. /\ WithLists(x) = {} => copy[x].graphs = server.graphs
          /\ \A r \in WithLists(x) : NewestOf(r, WithLists(x)) => copy[x].graphs = r.graphs
          /\ kindOf[x] = "dashboard" =>
               \A r \in Unapplied(x) : NewestOf(r, Unapplied(x)) => copy[x].desk = r.desk
      BY <2>3, <2>11, <3>2 DEF Agreed
    <3>4. WithLists(x) \subseteq Unapplied(x) /\ Unapplied(x) \subseteq OwnRequests(x)
      BY DEF WithLists, Unapplied
    <3>5. ASSUME NEW S, S \subseteq Unapplied(x), NEW r \in S \ {q}, NewestOf(r, S \ {q})
          PROVE  NewestOf(r, S)
      <4>1. q.number <= r.number
        BY <1>3, <2>9, <3>1, <3>4, <3>5
      <4> QED
        BY <3>5, <4>1 DEF NewestOf
    <3>6. ASSUME WithLists(x)' = {} PROVE copy[x].graphs = G
      <4>1. CASE q.graphs = Absent
        <5>1. WithLists(x) = {}
          BY <2>5, <2>8, <3>6, <4>1
        <5> QED
          BY <1>4, <3>3, <4>1, <5>1
      <4>2. CASE q.graphs # Absent
        <5>1. q \in WithLists(x) /\ NewestOf(q, WithLists(x))
          BY <1>3, <2>5, <2>8, <3>6, <4>2 DEF NewestOf
        <5> QED
          BY <1>4, <3>3, <4>2, <5>1
      <4> QED
        BY <4>1, <4>2
    <3>7. ASSUME NEW r \in WithLists(x)', NewestOf(r, WithLists(x)')
          PROVE  copy'[x].graphs = r.graphs
      <4>1. r \in WithLists(x) /\ NewestOf(r, WithLists(x))
        BY <2>8, <3>4, <3>5, <3>7
      <4> QED
        BY <1>7, <3>3, <4>1
    <3>8. ASSUME kindOf[x] = "dashboard", Unapplied(x)' = {}
          PROVE  copy'[x].desk = Normalized(server'.desk, server'.graphs)
      <4>1. q \in Unapplied(x) /\ NewestOf(q, Unapplied(x))
        BY <1>3, <2>5, <2>7, <3>8 DEF NewestOf
      <4>2. copy[x].desk = q.desk
        BY <3>3, <3>8, <4>1
      <4>3. WithLists(x)' = {}
        BY <3>8 DEF WithLists
      <4>4. copy[x].graphs = G
        BY <3>6, <4>3
      <4>5. Loaded(x)
        BY <1>9 DEF InOrder
      <4>6. q.desk # <<>> /\ Laid(q.desk, Visible(G))
        BY <3>8, <4>2, <4>4, <4>5, CopyIs
      <4>7. Normalized(q.desk, G) = q.desk
        BY <1>4, <4>6, NormalizedSame
      <4> QED
        BY <1>6, <1>7, <4>2, <4>7
    <3>9. ASSUME kindOf[x] = "dashboard", NEW r \in Unapplied(x)', NewestOf(r, Unapplied(x)')
          PROVE  copy'[x].desk = r.desk
      <4>1. r \in Unapplied(x) /\ NewestOf(r, Unapplied(x))
        BY <2>7, <3>5, <3>9
      <4> QED
        BY <1>7, <3>3, <3>9, <4>1
    <3> QED
      BY <1>2, <1>6, <1>7, <3>6, <3>7, <3>8, <3>9
  <2> QED
    BY <2>10, <2>11
<1> QED
  BY <1>10, <1>11, <1>12, <1>13, <1>14 DEF DeskInv

LEMMA DeskInitInv == DeskInit => DeskInv
<1> SUFFICES ASSUME DeskInit PROVE DeskInv
  OBVIOUS
<1>1. PICK first \in Before :
        server = [graphs |-> first.graphs, desk |-> first.desk, version |-> 0]
  BY DEF DeskInit
<1>2. /\ \A p \in Page : KindsOf[p] \subseteq {"dashboard", "markets", "kraken", "settings"}
      /\ first.graphs \in Seq([id : Graph, hidden : BOOLEAN])
      /\ \A i, j \in DOMAIN first.graphs : first.graphs[i].id = first.graphs[j].id => i = j
      /\ first.desk \in Seq(Seq(Seq(Graph)))
      /\ \A d \in DOMAIN first.desk : first.desk[d] # <<>>
  BY DeskAssumptions DEF DeskAssumptions
<1>3. /\ Listing(first.graphs) /\ Rowed(first.desk)
  BY <1>2 DEF Listing, Rowed, GraphType
<1>4. /\ server.graphs = first.graphs /\ server.desk = first.desk /\ server.version = 0
      /\ server \in ServerType
  BY <1>1, <1>3, ListingIn, RowedIn DEF ServerType
<1>5. Listing(<<>>) /\ Rowed(<<>>)
  BY EmptySeq DEF Listing, Rowed
<1>6. copy = [p \in Page |-> Nothing] /\ coming = [p \in Page |-> {}] /\ requests = {} /\ sent = 0
  BY DEF DeskInit
<1>7. Nothing \in CopyType /\ Nothing.graphs = <<>> /\ Nothing.desk = <<>> /\ Nothing.base = -1
  BY <1>5, ListingIn, RowedIn DEF Nothing, CopyType
<1>8. kindOf \in [Page -> {"dashboard", "markets", "kraken", "settings"}]
  <2>1. kindOf \in OpenPages
    BY DEF DeskInit
  <2>2. kindOf \in [Page -> UNION {KindsOf[p] : p \in Page}] /\ \A p \in Page :
          kindOf[p] \in KindsOf[p]
    BY <2>1 DEF OpenPages
  <2> QED
    BY <1>2, <2>2
<1>9. \A p \in Page : ~ Loaded(p)
  BY <1>6, <1>7 DEF Loaded
<1>10. DeskTyped
  BY <1>4, <1>6, <1>7, <1>8 DEF DeskTyped, CopyType
<1>11. CopiesTrue
  BY <1>3, <1>4, <1>5, <1>6, <1>7, <1>9 DEF CopiesTrue, CopyTrue
<1>12. AnswersTrue /\ RequestsTrue /\ PagesAgree
  BY <1>6, <1>9 DEF AnswersTrue, RequestsTrue, PagesAgree, InOrder
<1> QED
  BY <1>10, <1>11, <1>12 DEF DeskInv

LEMMA DeskStep == DeskInv /\ [DeskNext]_deskVars => DeskInv'
<1> SUFFICES ASSUME DeskInv, [DeskNext]_deskVars PROVE DeskInv'
  OBVIOUS
<1>1. ASSUME UNCHANGED deskVars PROVE DeskInv'
  BY <1>1 DEF deskVars, DeskInv, DeskTyped, CopiesTrue, CopyTrue, Loaded, AnswersTrue, AnswerTrue,
       RequestsTrue, RequestTrue, PagesAgree, InOrder, Agreed, Late, Made, Unapplied, WithLists,
           OwnRequests, NewestOf
<1>2. ASSUME NEW p \in Page, Load(p) PROVE DeskInv'
  <2>1. /\ coming' = [coming EXCEPT ![p] = {[server |-> server, raw |-> FALSE]}]
        /\ UNCHANGED <<server, kindOf, copy, requests, astray, sent>>
        /\ kindOf[p] = "markets" => ~ Loaded(p)
    BY <1>2 DEF Load
  <2> QED
    BY <2>1, AskKeeps
<1>3. ASSUME NEW p \in Page, SaveSettings(p) PROVE DeskInv'
  <2>1. /\ coming' = [coming EXCEPT ![p] = {[server |-> server, raw |-> TRUE]}]
        /\ UNCHANGED <<server, kindOf, copy, requests, astray, sent>>
        /\ kindOf[p] = "settings"
    BY <1>3 DEF SaveSettings, Editing
  <2> QED
    BY <2>1, AskKeeps
<1>4. CASE \E p \in Page : \/ Load(p) \/ Arrive(p) \/ EditDashboards(p) \/ SaveGraph(p)
                           \/ Draft(p) \/ SaveDraft(p) \/ SaveSettings(p)
  BY <1>2, <1>3, <1>4, ArriveKeeps, EditKeeps, SaveGraphKeeps, DraftKeeps, SaveDraftKeeps
<1>5. CASE \E q \in requests : Check(q) \/ Apply(q) \/ Answer(q) \/ FailRequest(q)
  BY <1>5, CheckKeeps, ApplyKeeps, AnswerKeeps, FailKeeps
<1> QED
  BY <1>1, <1>4, <1>5 DEF DeskNext

\* Each place of a desk that is laid out has a graph of its own.
LEMMA GraphsApart ==
  ASSUME NEW desk, NEW V, Laid(desk, V)
  PROVE  /\ Placed(desk) = V
         /\ \A q, r \in Places(desk) : At(desk, q) = At(desk, r) => q = r
<1>1. Placed(desk) = V
  <2>1. ASSUME NEW v \in Placed(desk) PROVE v \in V
    <3>1. PICK d \in DOMAIN desk : \E r \in DOMAIN desk[d] : v \in Range(desk[d][r])
      BY PlacedIs
    <3> QED
      BY <3>1, LaidIs
  <2>2. ASSUME NEW v \in V PROVE v \in Placed(desk)
    BY LaidIs, PlacedIs
  <2> QED
    BY <2>1, <2>2
<1>2. ASSUME NEW q \in Places(desk)
      PROVE  \E d \in DOMAIN desk : \E r \in DOMAIN desk[d] : \E i \in DOMAIN desk[d][r] :
               q = <<d, r, i>> /\ At(desk, q) = desk[d][r][i]
                   /\ desk[d][r][i] \in Range(desk[d][r])
  <2>1. PICK d \in DOMAIN desk : \E r \in DOMAIN desk[d] : \E i \in DOMAIN desk[d][r] :
          q = <<d, r, i>>
    BY PlacesAre
  <2>2. PICK r \in DOMAIN desk[d] : \E i \in DOMAIN desk[d][r] : q = <<d, r, i>>
    BY <2>1
  <2>3. PICK i \in DOMAIN desk[d][r] : q = <<d, r, i>>
    BY <2>2
  <2>4. At(desk, q) = desk[d][r][i] /\ desk[d][r][i] \in Range(desk[d][r])
    BY <2>3 DEF At, Range
  <2> QED
    BY <2>3, <2>4
<1>3. ASSUME NEW q \in Places(desk), NEW o \in Places(desk), At(desk, q) = At(desk, o) PROVE q = o
  <2>1a. PICK d \in DOMAIN desk : \E r \in DOMAIN desk[d] : \E i \in DOMAIN desk[d][r] :
          q = <<d, r, i>> /\ At(desk, q) = desk[d][r][i] /\ desk[d][r][i] \in Range(desk[d][r])
    BY <1>2
  <2>1b. PICK r \in DOMAIN desk[d] : \E i \in DOMAIN desk[d][r] :
          q = <<d, r, i>> /\ At(desk, q) = desk[d][r][i] /\ desk[d][r][i] \in Range(desk[d][r])
    BY <2>1a
  <2>1. PICK i \in DOMAIN desk[d][r] :
          q = <<d, r, i>> /\ At(desk, q) = desk[d][r][i] /\ desk[d][r][i] \in Range(desk[d][r])
    BY <2>1b
  <2>2a. PICK e \in DOMAIN desk : \E s \in DOMAIN desk[e] : \E j \in DOMAIN desk[e][s] :
          o = <<e, s, j>> /\ At(desk, o) = desk[e][s][j] /\ desk[e][s][j] \in Range(desk[e][s])
    BY <1>2
  <2>2b. PICK s \in DOMAIN desk[e] : \E j \in DOMAIN desk[e][s] :
          o = <<e, s, j>> /\ At(desk, o) = desk[e][s][j] /\ desk[e][s][j] \in Range(desk[e][s])
    BY <2>2a
  <2>2. PICK j \in DOMAIN desk[e][s] :
          o = <<e, s, j>> /\ At(desk, o) = desk[e][s][j] /\ desk[e][s][j] \in Range(desk[e][s])
    BY <2>2b
  <2>3. d = e /\ r = s
    <3>1. desk[d][r][i] \in Range(desk[d][r]) /\ desk[d][r][i] \in Range(desk[e][s])
      BY <1>3, <2>1, <2>2
    <3> QED
      BY <3>1, LaidIs
  <2>4. i = j
    <3>1. IsInjective(desk[d][r]) /\ desk[d][r][i] = desk[d][r][j] /\ j \in DOMAIN desk[d][r]
      BY <1>3, <2>1, <2>2, <2>3, LaidIs
    <3> QED
      BY <3>1 DEF IsInjective
  <2> QED
    BY <2>1, <2>2, <2>3, <2>4
<1> QED
  BY <1>1, <1>3

LEMMA DeskMeans == DeskInv => DeskTrue
<1> SUFFICES ASSUME DeskInv PROVE DeskTrue
  OBVIOUS
<1>1. ShownOnce
  <2> SUFFICES ASSUME NEW p \in Page, kindOf[p] = "dashboard", Loaded(p)
               PROVE  /\ Placed(copy[p].desk) = Visible(copy[p].graphs)
                      /\ \A q, r \in Places(copy[p].desk) :
                           At(copy[p].desk, q) = At(copy[p].desk, r) => q = r
    BY DEF ShownOnce
  <2>1. Laid(copy[p].desk, Visible(copy[p].graphs))
    BY CopyIs
  <2> QED
    BY <2>1, GraphsApart
<1>2. ReloadAgrees
  <2> SUFFICES ASSUME NEW p \in Page, Still(p)
               PROVE  /\ copy[p].graphs = server.graphs
                      /\ kindOf[p] = "dashboard" => copy[p].desk = Normalized(server.desk, server.graphs)
    BY DEF ReloadAgrees
  <2>1. InOrder(p) /\ OwnRequests(p) = {}
    BY DEF Still, InOrder, OwnRequests
  <2>2. Agreed(p)
    BY <2>1 DEF DeskInv, PagesAgree
  <2>3. Made(p) = {} /\ Unapplied(p) = {} /\ WithLists(p) = {} /\ ~ Late(p)
    BY <2>1 DEF Made, Unapplied, WithLists, Late
  <2> QED
    BY <2>2, <2>3 DEF Agreed
<1> QED
  BY <1>1, <1>2 DEF DeskTrue

\* Of any pages, graphs and dashboards, whatever is arranged, saved, hidden, removed and
\* drafted, however requests overtake each other and are lost: a dashboard page shows what
\* it knows and that is not hidden just once, and once nothing of a page is under way and
\* nobody else has saved, what it shows is what a reload would show.
THEOREM DeskIsTrue == DeskSpec => []DeskTrue
<1>1. DeskInit => DeskInv
  BY DeskInitInv
<1>2. DeskInv /\ [DeskNext]_deskVars => DeskInv'
  BY DeskStep
<1> QED
  BY <1>1, <1>2, DeskMeans, PTL DEF DeskSpec

=============================================================================
