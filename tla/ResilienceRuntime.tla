--------------------------- MODULE ResilienceRuntime ---------------------------
(***************************************************************************)
(* The managed resilience runtime: calls of execute under one policy and   *)
(* one state partition, with circuit breaker, bulkhead, retries, fallback, *)
(* request coalescing, timeouts and shutdown.  From packages/resilience/   *)
(* src/resilience/core/managed-runtime.ts.                                 *)
(*                                                                         *)
(* An action is the code between two awaits.  The application's function   *)
(* ("primary") and the fallback's ("fallback") may ignore their abort and  *)
(* stay at work after the call has settled; what such work owns is freed   *)
(* only when it ends.  Each call is made once, so that every counter is    *)
(* bounded by the number of calls.                                         *)
(*                                                                         *)
(* Abstracted: time (the breaker's cool-down, the queue timeout, the retry *)
(* delay and the age of a coalesced entry elapse at any moment); retry     *)
(* budgets and classification (a failure may be retryable or not); several *)
(* partitions and their eviction; telemetry; clocks that throw.            *)
(***************************************************************************)
EXTENDS Integers, FiniteSets, Sequences

CONSTANTS
    Op,             \* calls of execute, each made once
    Keyed,          \* the calls that carry the (one) coalescing key
    NoOp,
    Permits,        \* the values of policy.bulkhead.maxConcurrent to explore
    MaxQueue,                       \* policy.bulkhead.maxQueueSize
    FailureCount, HalfOpenMax,      \* policy.circuitBreaker
    MaxAttempts,                    \* policy.retry
    Fallback,                       \* policy.fallback is configured
    MaxAdmitted,                    \* MAX_ACTIVE_OPERATIONS
    MaxFollowers,                   \* MAX_COALESCED_FOLLOWERS
    MaxFaults                       \* bound: failing lifecycle disposers

ASSUME ResilienceConstants ==
    /\ IsFiniteSet(Op)
    /\ Keyed \subseteq Op /\ NoOp \notin Op
    /\ Permits \subseteq Nat \ {0} /\ MaxQueue \in Nat
    /\ FailureCount \in Nat \ {0} /\ HalfOpenMax \in Nat \ {0}
    /\ MaxAttempts \in Nat \ {0} /\ Fallback \in BOOLEAN
    /\ MaxAdmitted \in Nat /\ MaxFollowers \in Nat /\ MaxFaults \in Nat

VARIABLES
    state,      \* running, draining or closed
    draining,   \* shutdownAttempt: a shutdown is in progress
    call,       \* call -> where it is and what it owns
    work,       \* call -> the application's code at work for it
    queue,      \* the bulkhead's waiters
    active,     \* the bulkhead's permits in use
    breaker,    \* the circuit breaker
    entry,      \* the owner of the coalesced operation, NoOp if there is none
    permits,    \* policy.bulkhead.maxConcurrent, chosen once
    faults

vars == <<state, draining, call, work, queue, active, breaker, entry, permits, faults>>

--------------------------------------------------------------------------------
Phase == {"idle", "starting", "queued", "granted", "attempt", "delay", "fallback",
          "following", "done"}

Outcome == {"none", "ok", "error"}

NoGeneration == -1

Call ==
    [at : Phase,
     outcome : Outcome,
     abort : {"none", "timeout", "shutdown"},  \* the reason of its signal's abort
     generation : Int,      \* of its breaker admission, until the breaker was told
     holds : BOOLEAN,                           \* a bulkhead permit
     attempts : 0 .. MaxAttempts,
     of : Op \cup {NoOp}]                       \* the owner it follows

FreshCall == [at |-> "idle", outcome |-> "none", abort |-> "none",
              generation |-> NoGeneration, holds |-> FALSE, attempts |-> 0, of |-> NoOp]

ClosedBreaker == [state |-> "closed", generation |-> 0, inFlight |-> 0, successes |-> 0,
                  failures |-> 0, cooled |-> FALSE]

At(o, phase) == call[o].at = phase
Pending == {o \in Op : call[o].at \notin {"idle", "done"}}
Working == {o \in Op : work[o] # "none"}
Holders == {o \in Op : call[o].holds}
Following(x) == {o \in Op : At(o, "following") /\ call[o].of = x}

\* admittedOperations: a call counts until it and its work have settled.
Admitted == Pending \cup Working

--------------------------------------------------------------------------------
(* The circuit breaker.                                                    *)

\* The breaker as admission finds it: an open one that has cooled is half-open.
Probing(b) ==
    IF b.state = "open" /\ b.cooled
    THEN [b EXCEPT !.state = "half-open", !.generation = @ + 1, !.inFlight = 0,
                   !.successes = 0, !.cooled = FALSE]
    ELSE b

Admits(b) ==
    LET p == Probing(b)
    IN p.state = "closed" \/ (p.state = "half-open" /\ p.inFlight < HalfOpenMax)

AfterAdmission(b) ==
    LET p == Probing(b)
    IN IF p.state = "half-open" THEN [p EXCEPT !.inFlight = @ + 1] ELSE p

OneLess(n) == IF n > 0 THEN n - 1 ELSE 0

\* Mutant: the slot of a probe that was never sent is kept.
SlotKept(b, g) == b

\* cancelBreakerAdmission.
SlotReturned(b, g) ==
    IF b.state = "half-open" /\ b.generation = g
    THEN [b EXCEPT !.inFlight = OneLess(@)] ELSE b

Opened(b) ==
    [b EXCEPT !.state = "open", !.generation = @ + 1, !.successes = 0, !.failures = 0,
              !.cooled = FALSE]

Reclosed(b) == [ClosedBreaker EXCEPT !.generation = b.generation + 1]

\* Mutant: results of an earlier generation count.
CountsAlways(b, g) == b.state # "open"

Counts(b, g) == b.generation = g /\ b.state # "open"

\* recordBreaker: "recent" failures are still in the window, "dense" says whether the
\* share of failures in it reaches failureRatioThreshold.
Recorded(b, g, failed, recent, dense) ==
    IF ~Counts(b, g) THEN b
    ELSE IF b.state = "half-open"
    THEN LET p == [b EXCEPT !.inFlight = OneLess(@), !.successes = @ + 1]
         IN IF failed THEN Opened([b EXCEPT !.inFlight = OneLess(@)])
            ELSE IF p.successes >= HalfOpenMax THEN Reclosed(p) ELSE p
    ELSE LET now == recent + (IF failed THEN 1 ELSE 0)
         IN IF now < FailureCount THEN [b EXCEPT !.failures = now]
            ELSE IF dense THEN Opened(b) ELSE [b EXCEPT !.failures = FailureCount]

\* Older results leave the window as time passes.
Records(o, failed) ==
    \E recent \in 0 .. breaker.failures, dense \in BOOLEAN :
        breaker' = Recorded(breaker, call[o].generation, failed, recent, dense)

BreakerCools ==
    /\ breaker.state = "open" /\ ~breaker.cooled
    /\ breaker' = [breaker EXCEPT !.cooled = TRUE]
    /\ UNCHANGED <<state, draining, call, work, queue, active, entry, permits, faults>>

--------------------------------------------------------------------------------
(* Settling a call, the bulkhead's release, the fallback.                  *)

Done(c, outcome) ==
    [c EXCEPT !.at = "done", !.outcome = outcome, !.abort = "none", !.attempts = 0, !.of = NoOp]

Failed(c) == Done(c, "error")

\* The breaker has recorded the call's admission, or taken its slot back.
Accounted(c) == [c EXCEPT !.generation = NoGeneration]

\* Mutant: the permit is freed although the call's work goes on.
KeepsPermit(o) == FALSE

\* The permit stays with the call while its work goes on.
StillAtWork(o) == work'[o] # "none"

\* The permit goes to the first waiter, or back to the bucket.  c is the call that
\* gives it up, after the step.
PassPermit(o, c) ==
    LET given == [call EXCEPT ![o] = [c EXCEPT !.holds = FALSE]]
    IN IF queue # <<>>
       THEN /\ call' = [given EXCEPT ![Head(queue)].at = "granted",
                                     ![Head(queue)].holds = TRUE]
            /\ queue' = Tail(queue)
            /\ UNCHANGED active
       ELSE /\ call' = given
            /\ active' = active - 1
            /\ UNCHANGED queue

\* The call goes on as c; if its logical operation is over and no work of it is left,
\* it gives its permit up.
Becomes(o, c) ==
    IF c.holds /\ c.at = "done" /\ ~StillAtWork(o)
    THEN PassPermit(o, c)
    ELSE call' = [call EXCEPT ![o] = c] /\ UNCHANGED <<queue, active>>

\* Comes before Becomes, which looks at work'[o].
Works(o, w) == work' = [work EXCEPT ![o] = w]

\* runFallback: without one the call fails with its error.
FallsBack(o, c) ==
    IF Fallback
    THEN Works(o, "fallback") /\ Becomes(o, [c EXCEPT !.at = "fallback"])
    ELSE Works(o, "none") /\ Becomes(o, Failed(c))

Attempts(o, c) ==
    /\ Works(o, "primary")
    /\ Becomes(o, [c EXCEPT !.at = "attempt", !.attempts = @ + 1])

--------------------------------------------------------------------------------
(* execute: admission, coalescing, breaker, bulkhead.                      *)

\* logicalOperation up to its first await, the call being c.
Begin(o, c) ==
    LET g == Probing(breaker).generation
        admitted == [c EXCEPT !.generation = g]
        returned == SlotReturned(AfterAdmission(breaker), g)
    IN IF ~Admits(breaker)
       THEN /\ breaker' = Probing(breaker)
            /\ IF c.abort # "none"
               THEN Works(o, "none") /\ Becomes(o, Failed(c))
               ELSE FallsBack(o, c)
       ELSE IF c.abort # "none"
       THEN /\ breaker' = returned
            /\ Works(o, "none") /\ Becomes(o, Failed(c))
       ELSE IF active < permits
       THEN /\ breaker' = AfterAdmission(breaker)
            /\ active' = active + 1
            /\ Works(o, "primary")
            /\ call' = [call EXCEPT ![o] =
                          [admitted EXCEPT !.at = "attempt", !.attempts = 1, !.holds = TRUE]]
            /\ UNCHANGED queue
       ELSE IF Len(queue) >= MaxQueue
       THEN breaker' = returned /\ FallsBack(o, c)
       ELSE /\ breaker' = AfterAdmission(breaker)
            /\ queue' = Append(queue, o)
            /\ call' = [call EXCEPT ![o] = [admitted EXCEPT !.at = "queued"]]
            /\ UNCHANGED <<active, work>>

Joins(o) ==
    /\ call' = [call EXCEPT ![o] =
                  IF Cardinality(Following(entry)) < MaxFollowers
                  THEN [@ EXCEPT !.at = "following", !.of = entry]
                  ELSE Failed(@)]
    /\ UNCHANGED <<work, queue, active, breaker, entry>>

\* A call without the key begins at once; an owner begins in a microtask of its own.
Execute(o) ==
    /\ state = "running" /\ At(o, "idle") /\ Cardinality(Admitted) < MaxAdmitted
    /\ IF o \notin Keyed THEN Begin(o, call[o]) /\ UNCHANGED entry
       ELSE IF entry # NoOp THEN Joins(o)
       ELSE /\ entry' = o
            /\ call' = [call EXCEPT ![o].at = "starting"]
            /\ UNCHANGED <<work, queue, active, breaker>>
    /\ UNCHANGED <<state, draining, permits, faults>>

\* The coalesced entry has outlived its ttl: it takes no followers any more.
JoinsTooLate(o) ==
    /\ state = "running" /\ At(o, "idle") /\ o \in Keyed /\ entry # NoOp
    /\ Cardinality(Admitted) < MaxAdmitted
    /\ call' = [call EXCEPT ![o] = Failed(@)]
    /\ UNCHANGED <<state, draining, work, queue, active, breaker, entry, permits, faults>>

StartOwner(o) ==
    /\ At(o, "starting")
    /\ Begin(o, call[o])
    /\ UNCHANGED <<state, draining, entry, permits, faults>>

\* Mutant: a waiter aborted after it was granted leaves with the permit.
LeavesWithPermit(o, c) ==
    /\ Works(o, "none") /\ call' = [call EXCEPT ![o] = [c EXCEPT !.holds = FALSE]]
    /\ UNCHANGED <<queue, active>>

Leaves(o, c) == Works(o, "none") /\ Becomes(o, c)

\* A waiter that was handed a permit asks the breaker again.
Proceed(o) ==
    LET b == SlotReturned(breaker, call[o].generation)
        c == Accounted(call[o])
    IN /\ At(o, "granted")
       /\ IF call[o].abort # "none"
          THEN breaker' = b /\ Leaves(o, Failed(c))
          ELSE IF Admits(b)
          THEN /\ breaker' = AfterAdmission(b)
               /\ Attempts(o, [c EXCEPT !.generation = Probing(b).generation])
          ELSE /\ breaker' = Probing(b)
               \* The permit is given up before the fallback begins.
               /\ IF Fallback THEN Works(o, "fallback") ELSE Works(o, "none")
               /\ PassPermit(o, IF Fallback THEN [c EXCEPT !.at = "fallback"] ELSE Failed(c))
       /\ UNCHANGED <<state, draining, entry, permits, faults>>

--------------------------------------------------------------------------------
(* The application's work settles.                                         *)

\* The call still waits for the work in progress.
Awaits(o) == call[o].at \in {"attempt", "fallback"} /\ call[o].abort = "none"

PrimarySucceeds(o) ==
    /\ work[o] = "primary" /\ Awaits(o)
    /\ Works(o, "none")
    /\ Records(o, FALSE)
    /\ Becomes(o, Done(call[o], "ok"))
    /\ UNCHANGED <<state, draining, entry, permits, faults>>

PrimaryIsRetried(o) ==
    /\ work[o] = "primary" /\ Awaits(o)
    /\ call[o].attempts < MaxAttempts
    /\ Works(o, "none")
    /\ Becomes(o, [call[o] EXCEPT !.at = "delay"])
    /\ UNCHANGED <<state, draining, breaker, entry, permits, faults>>

PrimaryFails(o) ==
    /\ work[o] = "primary" /\ Awaits(o)
    /\ Records(o, TRUE)
    /\ FallsBack(o, Accounted(call[o]))
    /\ UNCHANGED <<state, draining, entry, permits, faults>>

\* The function fails with a configuration error, say of a nested execute: neither
\* recorded nor degraded, and the breaker is not told.
PrimaryIsMisconfigured(o) ==
    /\ work[o] = "primary" /\ Awaits(o)
    /\ Works(o, "none")
    /\ Becomes(o, Failed(call[o]))
    /\ UNCHANGED <<state, draining, breaker, entry, permits, faults>>

FallbackSettles(o, outcome) ==
    /\ work[o] = "fallback" /\ Awaits(o)
    /\ Works(o, "none")
    /\ Becomes(o, Done(call[o], outcome))
    /\ UNCHANGED <<state, draining, breaker, entry, permits, faults>>

\* Work that outlived its call, or whose call is about to unwind.
LateWorkEnds(o) ==
    /\ work[o] # "none" /\ ~Awaits(o)
    /\ Works(o, "none")
    /\ Becomes(o, call[o])
    /\ UNCHANGED <<state, draining, breaker, entry, permits, faults>>

RetryDelayEnds(o) ==
    /\ At(o, "delay") /\ call[o].abort = "none"
    /\ Attempts(o, call[o])
    /\ UNCHANGED <<state, draining, breaker, entry, permits, faults>>

--------------------------------------------------------------------------------
(* Timeouts, followers, the end of a coalesced operation.                  *)

Waits(o) == \E i \in 1 .. Len(queue) : queue[i] = o

\* The queue with o removed, if it is there.
QueueWithout(o) ==
    IF ~Waits(o) THEN queue
    ELSE LET at == CHOOSE i \in 1 .. Len(queue) : queue[i] = o
         IN [i \in 1 .. Len(queue) - 1 |-> IF i < at THEN queue[i] ELSE queue[i + 1]]

\* Mutant: the timer runs for the functions only.
TimedAtWork(o) == call[o].at \in {"attempt", "delay", "fallback"}

\* The timer runs from the call's admission to its end.
Timed(o) == o \in Pending

\* The timer aborts the call's signal; a waiter leaves the queue at once.
Timeout(o) ==
    /\ Timed(o) /\ call[o].abort = "none"
    /\ call' = [call EXCEPT ![o].abort = "timeout"]
    /\ queue' = QueueWithout(o)
    /\ UNCHANGED <<state, draining, work, active, breaker, entry, permits, faults>>

\* queueTimeoutMs: the call is refused, and degraded if it can be.
QueueTimeout(o) ==
    /\ At(o, "queued") /\ call[o].abort = "none"
    /\ queue' = QueueWithout(o)
    /\ breaker' = SlotReturned(breaker, call[o].generation)
    /\ IF Fallback THEN Works(o, "fallback") ELSE Works(o, "none")
    /\ call' = [call EXCEPT ![o] = LET c == Accounted(@)
                                   IN IF Fallback THEN [c EXCEPT !.at = "fallback"]
                                      ELSE Failed(c)]
    /\ UNCHANGED <<state, draining, active, entry, permits, faults>>

\* The call's continuation after the abort of its signal.  A timeout of an attempt, or
\* of the delay after one, counts as a failure; for a cancellation the breaker is not
\* told.
Unwind(o) ==
    /\ call[o].abort # "none"
    /\ UNCHANGED work
    /\ \/ /\ At(o, "queued")
          /\ breaker' = SlotReturned(breaker, call[o].generation)
          /\ Becomes(o, Failed(Accounted(call[o])))
       \/ /\ call[o].at \in {"attempt", "delay"} /\ call[o].abort = "timeout"
          /\ Records(o, TRUE)
          /\ Becomes(o, Failed(Accounted(call[o])))
       \/ /\ \/ call[o].at \in {"attempt", "delay"} /\ call[o].abort = "shutdown"
             \/ call[o].at \in {"fallback", "following"}
          /\ UNCHANGED breaker
          /\ Becomes(o, Failed(call[o]))
    /\ UNCHANGED <<state, draining, entry, permits, faults>>

\* A follower gets what the owner got.
FollowerReceives(o) ==
    /\ At(o, "following") /\ call[o].abort = "none" /\ At(call[o].of, "done")
    /\ call' = [call EXCEPT ![o] = Done(@, call[@.of].outcome)]
    /\ UNCHANGED <<state, draining, work, queue, active, breaker, entry, permits, faults>>

\* Mutant: the key is free as soon as the owner's call has settled.
OwnerSettled == At(entry, "done")

OwnerIsOver == At(entry, "done") /\ work[entry] = "none"

ForgetEntry ==
    /\ entry # NoOp /\ OwnerIsOver
    /\ entry' = NoOp
    /\ UNCHANGED <<state, draining, call, work, queue, active, breaker, permits, faults>>

--------------------------------------------------------------------------------
(* shutdown.                                                               *)

\* Mutant: only the first shutdown does anything.
FirstShutdown == state = "running"

MayShutdown == state # "closed" /\ ~draining

\* Every signal is aborted and the queue emptied, also when it is called again.
Shutdown ==
    /\ MayShutdown
    /\ state' = "draining" /\ draining' = TRUE
    /\ call' = [o \in Op |-> IF o \in Pending /\ call[o].abort = "none"
                             THEN [call[o] EXCEPT !.abort = "shutdown"] ELSE call[o]]
    /\ queue' = <<>>
    /\ UNCHANGED <<work, active, breaker, entry, permits, faults>>

Drained == Pending = {} /\ Working = {}

\* The drain takes longer than SHUTDOWN_TIMEOUT_MS: the runtime stays draining.
ShutdownTimesOut ==
    /\ draining /\ ~Drained
    /\ draining' = FALSE
    /\ UNCHANGED <<state, call, work, queue, active, breaker, entry, permits, faults>>

Cleared ==
    /\ draining' = FALSE
    /\ breaker' = ClosedBreaker /\ active' = 0 /\ entry' = NoOp
    /\ UNCHANGED <<call, work, queue>>

ShutdownSucceeds ==
    /\ draining /\ Drained
    /\ Cleared
    /\ state' = "closed"
    /\ UNCHANGED <<permits, faults>>

DisposerFails ==
    /\ draining /\ Drained /\ faults < MaxFaults
    /\ Cleared
    /\ faults' = faults + 1
    /\ UNCHANGED <<state, permits>>

--------------------------------------------------------------------------------
Init ==
    /\ state = "running" /\ draining = FALSE
    /\ call = [o \in Op |-> FreshCall]
    /\ work = [o \in Op |-> "none"]
    /\ queue = <<>> /\ active = 0
    /\ breaker = ClosedBreaker
    /\ entry = NoOp
    /\ permits \in Permits
    /\ faults = 0

\* Steps of the runtime's own continuations.
Continues(o) == StartOwner(o) \/ Proceed(o) \/ Unwind(o) \/ FollowerReceives(o)

WorkSettles(o) ==
    \/ PrimarySucceeds(o) \/ PrimaryIsRetried(o) \/ PrimaryFails(o)
    \/ PrimaryIsMisconfigured(o) \/ LateWorkEnds(o)
    \/ \E outcome \in {"ok", "error"} : FallbackSettles(o, outcome)

Next ==
    \/ \E o \in Op : Execute(o) \/ JoinsTooLate(o)
    \/ \E o \in Op : Continues(o)
    \/ \E o \in Op : WorkSettles(o)
    \/ \E o \in Op : RetryDelayEnds(o) \/ Timeout(o) \/ QueueTimeout(o)
    \/ ForgetEntry \/ BreakerCools
    \/ Shutdown \/ ShutdownTimesOut \/ ShutdownSucceeds \/ DisposerFails

Spec == Init /\ [][Next]_vars

\* Timers fire and continuations run; a shutdown that failed is called again.  Nothing
\* is assumed of the application's work.
Fairness ==
    /\ \A o \in Op : WF_vars(Continues(o)) /\ WF_vars(Timeout(o))
    /\ WF_vars(ShutdownSucceeds)
    /\ WF_vars(state = "draining" /\ Shutdown)

FairSpec == Spec /\ Fairness

--------------------------------------------------------------------------------
(* Properties.                                                             *)

\* Every variable stays in its type.
TypeOK ==
    /\ state \in {"running", "draining", "closed"} /\ draining \in BOOLEAN
    /\ call \in [Op -> Call]
    /\ work \in [Op -> {"none", "primary", "fallback"}]
    /\ queue \in Seq(Op) /\ Len(queue) <= MaxQueue
    /\ active \in 0 .. permits
    /\ breaker \in [state : {"closed", "open", "half-open"}, generation : Nat,
                    inFlight : 0 .. HalfOpenMax, successes : 0 .. HalfOpenMax,
                    failures : 0 .. FailureCount, cooled : BOOLEAN]
    /\ entry \in Keyed \cup {NoOp}
    /\ faults \in 0 .. MaxFaults

\* The bulkhead limits what is physically at work: functions that ignore the timeout
\* of their call go on counting until they end.
Isolation ==
    Cardinality({o \in Op : work[o] = "primary"}) <= permits

\* No permit is lost or doubled on any way out of the queue, of an attempt or of a
\* fallback, and nobody waits while a permit is free.
PermitsConserved ==
    /\ active = Cardinality(Holders)
    /\ queue # <<>> => active = permits
    /\ \A o \in Op : At(o, "queued") /\ call[o].abort = "none" => Waits(o)

\* Coalesced calls never have two functions at work, also when the owner has timed out
\* while its function goes on, and followers come and leave.
SingleFlight ==
    Cardinality({o \in Keyed : work[o] # "none"}) <= 1

\* The calls admitted in the breaker's present generation of which it has not been told.
Probes == {o \in Op : call[o].generation = breaker.generation /\ call[o].outcome # "ok"}

\* The slots of a half-open breaker are those of the probes on their way, whether
\* these wait, are refused by the bulkhead, are admitted anew or time out.  A probe
\* that ends with a configuration error, or is cancelled at work by the shutdown, never
\* gives its slot back.
ProbesAccounted ==
    breaker.state = "half-open" => breaker.inFlight = Cardinality(Probes)

\* The breaker closes again only on the successes of as many probes of the generation
\* that was half-open: calls admitted before it opened do not count, however late
\* they end.
RecoveryIsEarned ==
    [][(breaker.state = "half-open" /\ breaker'.state = "closed" /\ ~draining) =>
         Cardinality({o \in Op : /\ call'[o].generation = breaker.generation
                                 /\ call'[o].outcome = "ok"}) >= HalfOpenMax]_vars

\* Every call settles, whatever the application's functions do: each wait of a call,
\* as owner, follower, waiter, between retries or in a fallback, ends with its timer.
EveryCallSettles == \A o \in Op : o \in Pending ~> At(o, "done")

\* A shutdown that is repeated ends once the application's work has: no waiter, permit,
\* entry or failed disposer keeps the runtime draining.
DrainCompletes == (state = "draining" /\ Working = {}) ~> state = "closed"
--------------------------------------------------------------------------------
(* The breaker of CircuitBreaker.                                          *)

HalfOpen == state = "running" /\ breaker.state = "half-open"

Status == IF state = "running" THEN breaker.state ELSE "retired"

\* The calls on their way with an admission of the breaker's generation.
Out == IF breaker.state = "open" THEN {}
       ELSE {o \in Pending : call[o].generation = breaker.generation}

\* The calls admitted in a half-open generation that ended without telling, or succeeded.
Lost == IF HalfOpen THEN Probes \ Pending ELSE {}
Proven == IF HalfOpen
          THEN {o \in Op : call[o].generation = breaker.generation /\ call[o].outcome = "ok"}
          ELSE {}

Remembered == IF state = "running" /\ breaker.state = "closed" THEN breaker.failures ELSE 0

Circuit == INSTANCE CircuitBreaker WITH
    status <- Status, out <- Out, lost <- Lost, earned <- Proven, failures <- Remembered

\* However results, timeouts, refusals and re-admissions of calls of different generations
\* interleave, a call counts once and only in the period that admitted it: a half-open
\* period sends no more probes than it has slots, closes on the successes of that many of
\* its own and opens on a failure of one; a closed one opens on enough failures of its
\* own; and from the shutdown on nobody is admitted.
ImplementsBreaker == Circuit!Spec
================================================================================
