---------------------------- MODULE RateLimiter -----------------------------
(***************************************************************************)
(* ProviderRateLimiter (api/src/providers/rate-limiter.ts): one per        *)
(* upstream provider, shared by every request this process sends there.    *)
(*                                                                         *)
(* inFlight joins the callers of one request key into one execution, so    *)
(* the state of an execution is indexed by its key and a call for a key in *)
(* flight changes nothing.  Time passes in ticks; every clock the code     *)
(* compares with Date.now() is kept as the ticks that remain or have gone  *)
(* by, up to where they stop to matter.  A timer may fire late.            *)
(*                                                                         *)
(* JavaScript runs one piece of code at a time.  release() resolves the    *)
(* promise of the first waiter, but the waiter resumes only after the code *)
(* that is running, as a microtask, before the next event; so does an      *)
(* execution whose wait() had nothing to wait for.  Timers and answers are *)
(* events and find no microtask left (Drained).                            *)
(***************************************************************************)
EXTENDS Integers, Sequences, FiniteSets

CONSTANTS
  RequestKey,        \* keys of requests
  Concurrency,       \* config.concurrency
  Burst,             \* config.burst: tokens at most
  TokenTicks,        \* ticks to refill one token
  Spacing,           \* config.minimumSpacingMs, in ticks
  Backoff,           \* the waits a Retry-After header or the backoff may ask for
  MaxRetries,        \* config.maxRetries
  CooldownThreshold, \* config.cooldownThreshold
  Cooldown           \* config.cooldownMs, in ticks

ASSUME Assumptions ==
  /\ IsFiniteSet(RequestKey)
  /\ Concurrency \in Nat \ {0} /\ Burst \in Nat \ {0} /\ TokenTicks \in Nat \ {0}
  /\ Spacing \in Nat /\ Backoff \subseteq Nat /\ Backoff # {}
  /\ MaxRetries \in Nat /\ CooldownThreshold \in Nat \ {0} /\ Cooldown \in Nat \ {0}

VARIABLES
  pc,           \* where the execution of a key is
  timer,        \* ticks until its wait() is over
  attempt,      \* the loop variable of executeWithRetry
  active,       \* slots taken
  waiting,      \* the keys whose acquire() waits for a slot
  tokens,       \* the bucket, TokenTicks units to a token
  sinceRefill,  \* ticks since lastRefillMs, up to a full bucket
  sinceRequest, \* ticks since lastRequestAtMs, up to Spacing
  failures,     \* circuit.consecutiveFailures, up to CooldownThreshold
  cooldown,     \* ticks until circuit.cooldownUntilMs
  health        \* circuit.status

bucket == <<tokens, sinceRefill, sinceRequest>>
circuit == <<failures, cooldown, health>>
vars == <<pc, timer, attempt, active, waiting, bucket, circuit>>

Smaller(a, b) == IF a < b THEN a ELSE b
Larger(a, b) == IF a > b THEN a ELSE b

Full == Burst * TokenTicks
Holding == {"token", "spacing", "going", "sent", "backoff"}
Holders == {k \in RequestKey : pc[k] \in Holding}
Woken == {k \in RequestKey : pc[k] = "woken"}
Drained == Woken = {} /\ \A k \in RequestKey : pc[k] # "going"

TypeOK ==
  /\ pc \in [RequestKey -> {"idle", "queued", "woken"} \cup Holding]
  /\ timer \in [RequestKey -> Nat]
  /\ attempt \in [RequestKey -> 0 .. MaxRetries]
  /\ active \in Nat
  /\ waiting \in Seq(RequestKey)
  /\ tokens \in 0 .. Full
  /\ sinceRefill \in 0 .. Full
  /\ sinceRequest \in 0 .. Spacing
  /\ failures \in 0 .. CooldownThreshold
  /\ cooldown \in 0 .. Cooldown
  /\ health \in {"healthy", "degraded", "rate-limited", "unavailable"}

Init ==
  /\ pc = [k \in RequestKey |-> "idle"]
  /\ timer = [k \in RequestKey |-> 0]
  /\ attempt = [k \in RequestKey |-> 0]
  /\ active = 0
  /\ waiting = <<>>
  /\ tokens = Full
  /\ sinceRefill = 0
  /\ sinceRequest = Spacing
  /\ failures = 0
  /\ cooldown = 0
  /\ health = "healthy"

-----------------------------------------------------------------------------
(* acquire() and release()                                                  *)

Refilled == Smaller(Full, tokens + sinceRefill)
SpacingLeft == Larger(0, Spacing - sinceRequest)

\* With a token at hand, what is left of the spacing is waited for.
AwaitSpacing(k, at) ==
  /\ pc' = [at EXCEPT ![k] = IF SpacingLeft = 0 THEN "going" ELSE "spacing"]
  /\ timer' = [timer EXCEPT ![k] = SpacingLeft]

\* What follows a slot: active += 1 and refill(), then the wait for a token or
\* for the spacing.  n and at are active and pc as they are by then.
Admit(k, n, at) ==
  /\ active' = n + 1
  /\ tokens' = Refilled /\ sinceRefill' = 0
  /\ \/ /\ Refilled < TokenTicks
        /\ pc' = [at EXCEPT ![k] = "token"]
        /\ timer' = [timer EXCEPT ![k] = TokenTicks - Refilled]
     \/ Refilled >= TokenTicks /\ AwaitSpacing(k, at)
  /\ UNCHANGED sinceRequest

\* Mutant: acquire() compares with > instead of >=.
AcquireOneMore(k, n, at, q) ==
  \/ /\ n <= Concurrency
     /\ Admit(k, n, at)
     /\ waiting' = q
  \/ /\ n > Concurrency
     /\ pc' = [at EXCEPT ![k] = "queued"]
     /\ waiting' = Append(q, k)
     /\ active' = n
     /\ UNCHANGED <<timer, bucket>>

\* acquire() of a caller that finds n slots taken and the queue q.
Acquire(k, n, at, q) ==
  \/ /\ n < Concurrency
     /\ Admit(k, n, at)
     /\ waiting' = q
  \/ /\ n >= Concurrency
     /\ pc' = [at EXCEPT ![k] = "queued"]
     /\ waiting' = Append(q, k)
     /\ active' = n
     /\ UNCHANGED <<timer, bucket>>

\* Mutant: the waiter is taken off the queue, but not resolved.
ResolvedNobody == pc

\* Mutant: the slot is not given back.
ReleasedNothing == active

\* waiting.shift()?.(): what release() makes of the queue and of pc.
Shifted == IF waiting = <<>> THEN waiting ELSE Tail(waiting)
Resolved == IF waiting = <<>> THEN pc ELSE [pc EXCEPT ![Head(waiting)] = "woken"]
Released == Larger(0, active - 1)

\* The execution returns or throws, its finally releases the slot and inFlight
\* forgets the key.
Leave(k) ==
  /\ pc' = [Resolved EXCEPT ![k] = "idle"]
  /\ active' = Released
  /\ waiting' = Shifted
  /\ UNCHANGED <<timer, attempt, bucket>>

-----------------------------------------------------------------------------
(* The circuit                                                              *)

RecordSuccess ==
  /\ failures' = 0
  /\ cooldown' = 0
  /\ health' = "healthy"

RecordFailure(rateLimited) ==
  LET count == Smaller(failures + 1, CooldownThreshold)
      opens == failures + 1 >= CooldownThreshold
  IN /\ failures' = count
     /\ cooldown' = IF opens THEN Cooldown ELSE cooldown
     /\ health' = IF rateLimited THEN "rate-limited"
                  ELSE IF opens THEN "unavailable" ELSE "degraded"

-----------------------------------------------------------------------------
(* execute() and executeWithRetry()                                         *)

\* A first caller of a key, with the circuit closed.  A caller that finds it
\* open gets PROVIDER_CIRCUIT_OPEN and changes nothing.
Call(k) ==
  /\ Woken = {}
  /\ pc[k] = "idle"
  /\ cooldown = 0
  /\ health' = IF health = "unavailable" THEN "degraded" ELSE health
  /\ attempt' = [attempt EXCEPT ![k] = 0]
  /\ Acquire(k, active, pc, waiting)
  /\ UNCHANGED <<failures, cooldown>>

\* A waiter resumes behind its await: it does not look at active again.
WakeUp(k) ==
  /\ pc[k] = "woken"
  /\ Admit(k, active, pc)
  /\ UNCHANGED <<attempt, waiting, circuit>>

TokenReady(k) ==
  /\ Drained
  /\ pc[k] = "token" /\ timer[k] = 0
  /\ tokens' = Refilled /\ sinceRefill' = 0
  /\ AwaitSpacing(k, pc)
  /\ UNCHANGED <<attempt, active, waiting, sinceRequest, circuit>>

Spent == Larger(0, tokens - TokenTicks)

\* The end of acquire() and the start of the attempt.
SendAttempt(k) ==
  /\ \/ pc[k] = "going"
     \/ Drained /\ pc[k] = "spacing" /\ timer[k] = 0
  /\ tokens' = Spent
  /\ sinceRequest' = 0
  /\ pc' = [pc EXCEPT ![k] = "sent"]
  /\ UNCHANGED <<timer, attempt, active, waiting, sinceRefill, circuit>>

Succeeds(k) ==
  /\ Drained
  /\ pc[k] = "sent"
  /\ RecordSuccess
  /\ Leave(k)

\* A 4xx answer other than 429 is thrown at once and is no failure of the provider.
Refused(k) ==
  /\ Drained
  /\ pc[k] = "sent"
  /\ Leave(k)
  /\ UNCHANGED circuit

\* A 429 or 5xx answer, a network error or the timeout.  The slot is kept
\* during the wait before the next attempt.
Fails(k, rateLimited) ==
  /\ Drained
  /\ pc[k] = "sent"
  /\ RecordFailure(rateLimited)
  /\ \/ /\ attempt[k] = MaxRetries
        /\ Leave(k)
     \/ /\ attempt[k] < MaxRetries
        /\ pc' = [pc EXCEPT ![k] = "backoff"]
        /\ \E w \in Backoff : timer' = [timer EXCEPT ![k] = w]
        /\ UNCHANGED <<attempt, active, waiting, bucket>>

\* finally { release() } and, in the same breath, the acquire() of the next
\* round: the circuit is not asked again.
Retry(k) ==
  /\ Drained
  /\ pc[k] = "backoff" /\ timer[k] = 0
  /\ attempt' = [attempt EXCEPT ![k] = @ + 1]
  /\ Acquire(k, Released, Resolved, Shifted)
  /\ UNCHANGED circuit

Tick ==
  /\ Drained
  /\ timer' = [k \in RequestKey |-> Larger(0, timer[k] - 1)]
  /\ sinceRefill' = Smaller(Full, sinceRefill + 1)
  /\ sinceRequest' = Smaller(Spacing, sinceRequest + 1)
  /\ cooldown' = Larger(0, cooldown - 1)
  /\ UNCHANGED <<pc, attempt, active, waiting, tokens, failures, health>>

Proceeds(k) ==
  \/ WakeUp(k)
  \/ TokenReady(k)
  \/ SendAttempt(k)
  \/ Succeeds(k)
  \/ Refused(k)
  \/ \E r \in BOOLEAN : Fails(k, r)
  \/ Retry(k)

Next == Tick \/ \E k \in RequestKey : Call(k) \/ Proceeds(k)

Spec == Init /\ [][Next]_vars

(***************************************************************************)
(* Fairness.  Time passes, microtasks run, timers fire, and every attempt  *)
(* ends: AbortSignal.timeout sees to that.  An event may find a microtask  *)
(* or another event before it again and again, but not for ever: the event *)
(* loop serves them in turn, hence strong fairness.  Nobody has to call.   *)
(***************************************************************************)
Fairness == SF_vars(Tick) /\ \A k \in RequestKey : SF_vars(Proceeds(k))

FairSpec == Spec /\ Fairness

-----------------------------------------------------------------------------
(* Properties                                                               *)

\* No slot is lost or given twice: active counts the executions between
\* acquire() and release(), over every way out of the retry loop.
SlotsAccounted == active = Cardinality(Holders)

\* What the code keeps of the configured concurrency: a retry that takes its
\* slot back before the waiter it woke resumes makes one too many, and no
\* chain of retries makes more.
OvershootByOne == active <= Concurrency + 1

\* Every call returns or throws, whatever the provider answers.
EveryCallReturns == \A k \in RequestKey : pc[k] # "idle" ~> pc[k] = "idle"
=============================================================================
