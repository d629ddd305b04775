# Verification of ooops-system

`ooops-system` is a family of TypeScript packages that give an application its
operational services: jobs, events, resilience, caching, lifecycle,
observability.  This directory holds TLA+ models of its concurrent parts - the
durable job scheduler, the delivery of events, the managed resilience runtime and
the cache-aside runtime -, the TLC runs that check them on small instances, and
proofs, checked by TLAPS, of what holds for every instance.  Paths below are
relative to the repository's `packages/` unless they name a file of this
directory; `core/` alone is `jobs/src/jobs/core/`, `memory.ts` is
`jobs/src/jobs/features/backends/memory.ts`, `manager.ts` is
`events/src/events/manager.ts`, `managed-runtime.ts` is
`resilience/src/resilience/core/managed-runtime.ts`, and `cache-core/` is
`cache/src/cache/core/`.

1. [Inventory](#1-inventory)
2. [The systems](#2-the-systems)
3. [Modules and the code](#3-modules-and-the-code)
4. [Runs, bounds and what they show](#4-runs-bounds-and-what-they-show)
5. [Fairness](#5-fairness)
6. [What is proved](#6-what-is-proved)
7. [Disagreements and observations](#7-disagreements-and-observations)
8. [Not modelled, and the plan](#8-not-modelled-and-the-plan)

## 1. Inventory

| package | what it does and the state it keeps | what is hard in it | here |
| --- | --- | --- | --- |
| jobs | a task scheduler over a durable backend: runs, leases, schedules, dead letters, idempotency claims; per process a poll timer, dispatches, executions, a cancellation fence | several workers, leases that lapse, lost answers, retries, cancellation, shutdown | modelled, except schedules |
| events | publication through an outbox with leases, delivery to consumers through an inbox, dead letters and replays | leases fenced by attempts, work that outlives its lease, replay against retry, crash between outbox and inbox | delivery modelled |
| resilience | retry, circuit breaker, bulkhead, request coalescing, timeouts around a call | functions that ignore their abort, probes that overlap, waiters that leave the queue, a caller that leaves a coalesced call | managed runtime modelled |
| cache | cache-aside reads, refreshes, invalidation by tag | a load that ends after an invalidation, one load per key, mutations that outlive their caller, shutdown with loads at work | runtime modelled |
| rate-limit | fixed windows and token buckets, in memory or in Redis | a clock that moves back, admission at a window's edge, eviction of a live key | plan |
| lifecycle | startup and shutdown hooks, health checks, probes, drain | hooks with timeouts that end late, shutdown that is retried, signals during startup | plan |
| core | contracts, container, hashing, the batch-and-retry pipeline the exporters use | a batch in flight while the queue is full and a flush waits | plan (pipeline) |
| audit | evidence records in an integrity chain | appends that compete for the head of the chain | later |
| logging, metrics, tracing, performance | recording, sampling, aggregation, batched export | export queues at their limit, flush and shutdown of exporters | later, after the core pipeline |
| profiling | one capture session at a time around an external profiler | stop against expiry | later |
| errors | normalisation, redaction, deduplication of reports | a small bounded map | not planned |
| bridges, sdk, sveltekit | adapters and builders without state of their own | nothing between actors | not planned |

The four modelled packages are where several processes, an unreliable backend,
timers, and application code that does not obey meet, and where a mistake runs
work twice, loses it, or serves what has been replaced.  The packages do not call
each other at run time: they meet in the application (a handler of a job may call
a cache, a call through resilience may publish an event), which every model
treats as an arbitrary environment.  So each is composed with what it really
shares: the jobs modules with one store, events managers with one database, calls
with one runtime.

## 2. The systems

### Jobs

**The store** (`memory.ts`; the Redis script and the SQL statements implement the
same contract, each operation atomic).  A run is queued, claimed under a lease
(status running, an attempt counted, a fresh lease token), and leaves running by
a transition that carries the token: completed, retryable, dead-lettered, or by
the release of an unused claim, by cancellation, or by stale recovery when its
lease has lapsed.  The store also keeps dead letters (one for each dead-lettered
run), idempotency claims (key, checksum, run, expiry), and paused queues.
Retention removes terminal runs and expired claims in batches.

**A worker** polls.  A tick recovers stale leases, triggers schedules, then
claims due runs for its free slots.  The answer of a claim may be late; the
worker releases claims with too little lease left, claims of runs that were
cancelled meanwhile (the fence remembers a bounded number of them and then only
that it overflowed, upon which claims are verified by reads), and the whole batch
when it may no longer start handlers.  An execution renews its lease by
heartbeats, runs the handler under an optional timeout, and commits the outcome.
A handler that ignores its abort keeps its slot and its heartbeat until it
settles.

**Calls.**  `enqueue` appends a run and repairs lost answers by reading the run
back; `cancelRun` cancels in the store, then aborts locally; `start`, `flush` and
`shutdown` wait for ticks, stages, executions and mutations, each wait bounded by
a timer, and a shutdown that failed may be called again.  Workers share nothing
but the store.  In one process, dispatch, executions, `cancelRun` and shutdown
share the controllers, the fence and the sets of timed-out handlers; they
interleave at every `await`.

What makes each part correct:

- store: a token is worth something only until the run leaves running; attempts
  follow the policy; dead letters and dead-lettered runs correspond; a live
  idempotency claim keeps its run; concurrency limits hold across workers; seen
  from outside it is a ledger of run lives: created once, held by one holder at a
  time and at most as often as the policy says, ended once.
- renewal: no bad answer loses a lease that is held, no silence keeps one that
  is lost, and none holds up the commit for ever.
- workers: handlers of one run do not overlap while heartbeats are in time; no
  start without a counted attempt; no start after an acknowledged cancellation,
  and the handler at work is told; no claim is forgotten; every run ends.
- enqueue: one run per key.
- runtime: a resolved flush is a barrier, no call hangs, no shutdown ends without
  having told the handlers at work, draining ends.

### Events

An event is stored once (the outbox record: status, attempts, lease) and is
claimed by one of several managers under a lease of 30 s.  The manager's run
(`processRecord`) calls every consumer of the event's type, each behind an inbox
entry that keeps another run from calling it again, under a lease of its own; when
all have completed, the event is handed to its destination.  Both leases are
renewed every 10 s.  What has failed is retried with a later claim until the
attempts are spent, then dead-lettered; an administrator may retry a dead letter,
replay a settled event or cancel one.  Consumers and deliveries that ignore their
abort go on after their run has given up on them.

Correct is: a consumer's live calls do not overlap, nor do live deliveries; no
late settlement of an old run meets a newer claim of the same manager; a consumer
that has completed is not called again unless a replay asks for it; nothing is
dispatched before all consumers have completed; an event settles whatever one
manager does, and a draining manager closes.

### Resilience

`execute` runs the application's function under a policy: the circuit breaker
admits it (or refuses, or makes it one of a bounded number of probes while
half-open), the bulkhead gives it a permit (or queues it, or refuses), attempts
are repeated after a delay, a fallback may answer after the last failure, and
calls with one coalescing key share one operation.  A call may be given up
(timeout, shutdown) at any await, while the function goes on; its permit, its
probe slot and the coalesced entry are to be given back when, and only when, the
work has ended.

Correct is: the functions at work never exceed the permits, permits are
neither lost nor given back twice on any way out, a half-open breaker admits no
more probes than configured and forgets none, only a success of the current
generation closes it, two functions never run for one key, every call settles
though the functions need not, and a drain that failed can be completed.

### Cache

A read asks the backend; on a miss or a stale entry the key's single flight loads
from the source and stores the value, unless a mutation of the key was accepted
meanwhile (mutation revisions).  `set`, `delete` and `invalidate` are accepted
synchronously and carried out in the order of acceptance for overlapping keys
(the tails of the mutation coordinator), though their callers may have timed out.
`flush` waits for what was accepted before it; `shutdown` drains, flushes, closes.

Correct is: neither a load nor a mutation given up by its caller brings back what
a later mutation has replaced; a read sees what was accepted before it began; a
fallback after a failed load is not older than the mutations the call knew of;
all that was applied has been flushed when the backend is closed.

## 3. Modules and the code

| module | models | lines it stands for |
| --- | --- | --- |
| `JobsStore` | the store and its operations under an arbitrary client | `memory.ts` 40-130, 152-270, 379-427 |
| `JobsLedger` | abstract: the life of a run as clients see it | the contract in `jobs/src/jobs/types/backend.ts` 54-130 |
| `JobsLeaseRenewal` | the renewal of one execution's lease | `core/handler-execution.ts` 184-309, `core/timeout.ts` |
| `JobsEnqueue` (extends `JobsStore`) | `enqueue` with its read back and second append | `core/handler-queue-api.ts` 61-117 |
| `JobsWorkers` (extends `JobsStore`) | dispatch, executions, `cancelRun`, crashes | `core/handler-execution.ts` 31-456, `core/handler-queue-api.ts` 181-224, `core/handler-context.ts` 140-171 |
| `JobsHandlers` | abstract: what an application sees of its handlers | `core/handler-execution.ts` 48-94, 142-154, 315-334, 445-456 without claims and leases |
| `JobsRuntime` | `start`, the poll loop, tick stages, `flush`, `shutdown` | `core/handler.ts`, `core/handler-tick.ts`, `core/handler-startup.ts` |
| `EventsDelivery` | the delivery of one event by several managers | `manager.ts` 419-507, 580-688, 787-905, 1029-1171; `events/src/events/postgres-backend.ts` |
| `EventContract` | abstract: what an application that publishes an event is promised | the same handlers and statements, without claims and leases |
| `ResilienceRuntime` | calls of `execute` under one policy | `managed-runtime.ts` 344-975, `resilience/src/resilience/core/custom-fallback.ts` |
| `CircuitBreaker` | abstract: what a breaker promises the calls it admits | `managed-runtime.ts` 433-521, its contract |
| `CacheRuntime` | reads, loads, mutations, flush, shutdown | `cache-core/handler-runtime.ts`, `runtime-operations.ts`, `runtime-mutations.ts`, `runtime-tracking.ts`, `runtime-finalization.ts` |
| `JobsStore_proofs` | theorems about `JobsStore` | |
| `JobsLeaseRenewal_proofs` | theorems about `JobsLeaseRenewal` | |
| `JobsEnqueue_proofs` (extends `JobsStore_proofs`) | theorems about `JobsEnqueue` | |
| `JobsWorkers_proofs` (extends `JobsStore_proofs`) | theorems about `JobsWorkers` | |
| `JobsRuntime_proofs` | theorems about `JobsRuntime` | |
| `EventsDelivery_proofs` | theorems about `EventsDelivery` | |
| `ResilienceRuntime_proofs` | theorems about `ResilienceRuntime` | |
| `CacheRuntime_proofs` | theorems about `CacheRuntime` | |
| `MC...` | constants of the runs | |

`PROJECT.json` maps each definition to its lines.  Operators whose comment
begins with "Mutant:" are the plausible mistakes the properties were tried
against; no specification uses them.

**JobsStore.**  State is `runs`, `deadLetters`, `idempotency`, `pausedQueues` of
`MemoryState`; `issued` counts the lease tokens and stands for the randomness of
a new token.  Each operation of the backend interface is one action.  Time is
kept as the time that is *left* to a deadline, so `Tick` decrements; a caller
reads its clock before the call reaches the store, so every operation that takes
a `now` takes a lag `d` in `0 .. MaxLag`.  A claim admits the sets that a scan by
descending priority could admit (`Admitted`): the order among equal priorities is
left open.  Left out: payloads and traces, the byte budget, the caps on queues,
the 1000-run batch of recovery, and that a transition is dated no earlier than
the run's last update.

**JobsLedger.**  The abstract specification: a run has a stage (none, waiting,
held, settled, cancelled, erased), the attempts charged to it and the number of
its holder.  No clocks, leases, queues, tasks, dead letters or keys.  `JobsStore`
implements it under the mapping `stage` = `StageOf` of the record, `starts` = the
record's attempts, `holder` = `issued` (`ImplementsLedger`).

**JobsLeaseRenewal.**  The three parties to a renewal are actions of their own:
the store applies a request (`Apply`), the continuation of its answer
(`AnsweredTrue`, `AnsweredBadly`, `AnswerRecovers`), the guard that gives up
after an interval (`GuardFires`, `GuardRecovers`, `GuardRevokes`).  `current` is
the newest `renewalGeneration`, 0 when it has been fenced.  `Dependable` says
whether requests are applied and reads answered within their latencies; answers
may be late, lost or false in either case.  The stored lease is `JobsStore`
reduced to one run and one token.

**JobsEnqueue.**  Lost answers, appends that fail before they commit and failing
reads are faults, counted up to `MaxFaults`.  Claims, completions, recovery,
cleanup and time go on meanwhile.  `lapsed` is a history variable: the keys one
of whose claims has run out.

**JobsWorkers.**  An action is the code between two awaits.  A dispatch goes
through "claiming", releases, the start of its batch or the reads that verify it;
an execution is named by run and token and goes through handling, settled, over.
A renewal and a commit are one step each; `JobsLeaseRenewal` has the protocol.
`acked` is a history variable.  `Crash` loses everything the process keeps.

**JobsHandlers.**  The abstract specification: a run is open from its creation until it
is completed, dead-lettered or cancelled, and meanwhile its handler is started again and
again.  `Start` asks that no handler of the run is at work, that its policy allows one
more and that the limits hold with the new handlers; `Complete` wants a handler that has
run and left, `Bury` gives up runs whose handlers have left, `Cancel` asks for
nothing.  The refinement mapping of `JobsWorkers` forgets claims, tokens, leases,
batches, fences and time: `starts` counts the claims that were started, `atWork` are the
runs with a handler at work on whichever worker, aborted or timed out as it may be.

**JobsRuntime.**  What one part can wait for is a `Thing` (the start, the flush,
the tick, a stage, an execution, a mutation).  A call is in a phase and waits for
the things it found when the phase began; `Found`, `AfterInFlush`,
`AfterInShutdown` are the order of the awaits in `handler.ts`.  A wait also ends
when its timer fires, at any time.  "stale-recovery" stands for the two stages
that precede the claim, recovery and schedules, which run one after the other,
in the same way and without starting executions.

**EventsDelivery.**  State is the outbox record, the inbox entry of every consumer,
the runs in progress (a pool of names; a run that has ended is free again) and
their consumer calls.  A run goes through the claim's answer, the calls, the
dispatch and the settlement; a renewal is asked for (`want`) and answered as a
step of its own, and one unanswered for a tick aborts the run, whose handlers and
deliveries run on.  Expiries are kept in ticks of 10 s.  `HoldsLease` is the fence
of the database statements: owner and attempts.  Crashes, lost, late or slow
answers and deliveries that hang are faults, counted.  Left out: partitions,
schema checks, batches of several events, backoff (a retry may be claimed at any
time), and the LISTEN/NOTIFY wake-up.

**EventContract.**  The abstract specification: an event is open from its publication
until it is dispatched, dead or cancelled (and purged at last), and deliveries hand it
to its consumers and then to its destination.  A delivery may be told to stop at any
time and may go on all the same; what the contract promises is about the others.
`Start` asks that every other handler of the consumer was told, and that the consumer has not
completed the event; `Settle` completes it with a handler that ended well; `Deliver`
comes after all consumers; `Dispatch` wants a delivery that has ended well.  The
refinement mapping of `EventsDelivery` forgets the outbox row but for its status, owners,
generations, leases, renewals, slots and time: `completed` are the consumers whose inbox
entry is complete, `hand` and `work` are where the calls and the runs are,
`told` are the runs in progress that were aborted.

**ResilienceRuntime.**  State is a record per call (its await, its breaker
admission, its permit), the application's code at work for it, the bulkhead's
queue and counter, the breaker, the owner of the coalesced entry, and shutdown.
An action is the code between two awaits; `Timeout` aborts a call at any await,
the function's end (`WorkSettles`) is independent of it.  Time is abstracted:
cool-down, queue timeout, retry delay and the age of an entry elapse at any
moment.  Left out: several partitions and their eviction, retry budgets, the
check for cycles of coalesced calls, telemetry; failure ratios are a choice.

**CircuitBreaker.**  The abstract specification: a sequence of periods, closed, open
or half-open, and the calls of the present one, as sets: on their way (`out`),
ended without telling (`lost`), succeeded (`earned`).  No generations, counters,
permits, queues or clocks.  `ResilienceRuntime` implements it under the mapping
`status` = the breaker's state, `out` = the calls whose admission is of its
generation and which have yet to tell, `lost` = those that ended without telling, `earned`
and `failures` = the successes and failures it remembers (`ImplementsBreaker`).

**CacheRuntime.**  The application changes its source and then calls the cache, so
an entry's value is the source's version.  State is the backend's entries,
revisions, tails, calls, their mutations, the flight of each key and the
shutdown.  A mutation is accepted (its revisions and tails taken), applied when
the mutations it depends on have settled, and may fail or settle after its caller
was told of a timeout.  Entries turn stale or leave at any moment.  Left out: the
batch calls (the same steps over several keys), negative entries, encoding,
namespaces, capacities, and the timeouts of flush and shutdown.

## 4. Runs, bounds and what they show

| run | instance | shows |
| --- | --- | --- |
| `store_records` | 3 runs, 2 tasks, 1 key, lag up to 1, 2 runs stored, 1 dead letter, cleanup batches of 1 | `LeaseExclusive`, `DeadLettersMatch`, `LiveClaimKeepsRun`, `ConcurrencyBounded`, `ClaimedKeyIsStable`, `ImplementsLedger` |
| `renewal_dependable` | interval 3, latencies 1, 4 requests, fairness | `LeaseNeverStale`, `NoFalseLoss`, `SettledEnds`, `LossIsNoticed` |
| `renewal_undependable` | the same, 2 requests, a store whose read after a failed renewal may fail too | a disagreement (section 7) |
| `enqueue_keyed` | 3 calls on 1 key, one with another request, 2 faults | `KeyedOnce` |
| `enqueue_failure` | 1 call, 1 fault | a disagreement (section 7) |
| `workers_concurrency` | 2 workers, one of which may shut down, 2 runs of one task, late answers, timeouts, a cancellation, a fence of one | `NoOverlap`, `NoOrphanedClaim`, `NoStartAfterAck`, `ImplementsHandlers` |
| `workers_lossy` | 2 workers, a run of 2 attempts, any delay, 1 fault, a cancellation, fairness | `StartsWithinAttempts`, `CancelAborts`, `EveryRunEnds` |
| `runtime_lifecycle` | 1 execution, 1 mutation, 1 rejection, 1 initial tick | `FlushIsBarrier`, `ShutdownAborts`, `NoCallHangs` |
| `runtime_ends` | 1 execution, 2 initial ticks, fairness | `DrainingEnds` |
| `events_delivery` | 2 managers, one mortal, 1 consumer, a destination, 2 runs, 2 attempts, 1 fault, 1 administrator's step, fairness | `OneLiveHandler`, `OneLiveDelivery`, `UniqueFence`, `ImplementsContract`, `EventSettles`, `DrainingCloses` |
| `resilience_calls` | 3 calls, 2 of them coalesced, 1 or 2 permits, 1 waiter, 2 attempts, 1 probe, a failing disposer, fairness | `Isolation`, `PermitsConserved`, `SingleFlight`, `ProbesAccounted`, `RecoveryIsEarned`, `ImplementsBreaker`, `EveryCallSettles`, `DrainCompletes` |
| `cache_calls` | 3 calls of any method on 1 key, 1 failing finalization | `NoResurrection`, `ReadsSeeAccepted`, `FallbackIsSafe`, `ClosedAfterFlush` |

Bounds, and why they are enough:

- *Store.*  Three run ids with room for two make the run map full while a third
  waits and a requeue (which needs the credit of one) must still succeed; two
  attempts make "last attempt" and "not the last" differ; one dead letter makes
  the bucket full, so that recovery passes an exhausted run over; `MaxClaims` 2
  lets an old token meet a new holder; a lag of 1 with leases and retention of 1
  lets two callers disagree on every deadline; `CleanupLimit` 1 ends a batch
  between a run and its claim.  `Horizon` stops following deadlines that everyone
  agrees have passed.  The theorems of section 6 have none of these bounds
  except `MaxClaims`, which is a parameter there.
- *Renewal.*  The half lease is 3 units, so that apply (1) and read (1) fit before
  the guard, the case the code is built for; with four requests an old one, its
  guard, a newer and the next heartbeat overlap.  The properties that would be
  cut off by the last request exclude it (`sent < MaxRequests`).
- *Enqueue.*  Two faults can hit both appends, or an append and its read.
- *Workers.*  `MaxTries` is 2, and 1 in `workers_lossy`, where the code tries 3 times,
  and `FenceLimit` 1 where it is `max(2048, 2 * maxConcurrentRuns)`: what matters is a
  last try and an overflow.  `ClaimDelay` bounds the lateness of an answer: with 1 of a lease
  of 2 the answer can come just in time and too late for a heartbeat.  Under
  `Punctual` time does not pass a heartbeat that is due nor a step of a dispatch
  that has its answer (`InTime`); `workers_lossy` drops this,
  so that a lease may lapse under a handler.  A run claimed `MaxClaims` times is
  at the model's bound, which `EveryRunEnds` says.
- *Runtime.*  `MaxInitialTicks` is 1 or 2 for `INITIAL_TICK_MAX_ATTEMPTS`.  One
  execution that may ignore its abort and one mutation suffice for every wait to
  find something, nothing, or something late.  `NoCallHangs` says that a call in progress
  always has a step that comes by a timer; it is stated with the guards of these
  steps, not with ENABLED, so that it can be proved too.
- *Events.*  `Lease` 3 is 30 s in ticks of 10 s, the renewal interval.  Two names
  for runs let an old run of a manager go on beside a new one; two attempts make
  a retry and a last attempt.  A claim's answer may be a tick late (`ClaimLag`);
  section 7 says what happens when it may take two.  `AdminAnytime` FALSE has the
  administrator reset attempts only while no run is in progress, again see
  section 7.
- *Resilience.*  The limit of permits is chosen in the first state (`permits`), so
  that one run has both a queue behind a single permit and two functions at work.
  With three calls a permit is handed on while a probe, a follower or an aborted
  waiter is about.  Every call is made once, so all counters are bounded.  The
  safety properties were also checked on four calls with two permits (5,980,000
  states), which showed nothing further and is not kept.
- *Cache.*  Keys do not share state: overlaps between keys come from `invalidate`
  alone, whose broad tail and revision also one key meets.  (Two keys are beyond
  eight million states.)  Three calls are the smallest number in which a load, the
  mutation it must not undo, and a later mutation or read overlap.

The theorems of section 6 imply more than the runs check.  `PhysicalConcurrency` of
`JobsWorkers` follows from `ImplementsHandlers`, and `HandledOnce` and
`DispatchedAfterConsumers` of `EventsDelivery` follow from `ImplementsContract`; they are
stated and proved, and no run checks them a second time.

Deadlock is checked in the store, renewal, enqueue and events runs.  The others say
`CHECK_DEADLOCK FALSE`: workers stop when they have crashed or all runs have
ended, a scheduler or a cache when it is closed and its calls are made, and the
resilience runtime when every call has settled.

## 5. Fairness

- *Renewal* (`FairSpec`): timers fire (heartbeat, the guard and the read's own
  timeout), time passes, a settled handler's commit proceeds; the store applies
  requests only if `Dependable`.  Answers are not fair: they may never come.
- *Workers* (`FairWorkersSpec`): the poll loop goes on claiming and recovering,
  each step of a dispatch that is enabled happens, heartbeats fire, handlers
  settle, commits are answered, time passes.  Faults, cancellations and shutdown
  are not fair.  The code justifies it by the poll timer (`core/handler-tick.ts`
  123-133), `withJobsTimeout` around each backend call and the heartbeat timer;
  that handlers settle is an assumption about the application.
- *Runtime* (`SettlingSpec`): timers fire, the backend answers, handlers settle,
  and whoever shuts down calls again when a shutdown is rejected (README of the
  package, lines 127-131).  Without repetition a failed shutdown stays draining by
  design.
- *Events* (`FairSpec`): running managers poll (the interval of `manager.ts`), their
  statements are answered (an error is an answer), handlers and deliveries end,
  time passes.  Failures, the crash, the shutdown, expiry and the administrator
  are not fair, and one manager never stops: `EventSettles` needs a survivor.
- *Resilience* (`FairSpec`): continuations run and each call's timer fires; a
  shutdown that failed is called again.  Nothing is assumed of the application's
  functions, hence `EveryCallSettles` holds though they never end, and
  `DrainCompletes` asks that the work has ended.
- *Cache*: no liveness is stated; a mutation on its way to a backend that does not
  answer holds up flush and shutdown by design, until their own timeouts.

## 6. What is proved

Without any of the runs' bounds, from the assumptions on the constants that each
module names (`StoreConstants` and so on) and nothing else.

**The store** (`StoreConstants`: any finite set of run ids, any queues, tasks,
keys, policies, limits and lags).

1. `RecordsCorrect`: `TypeOK`, `LeaseExclusive`,
   `AttemptsWithinPolicy`.  Types are not inductive alone: a release subtracts an
   attempt and stays in `Nat` only because a running run has counted one.
   `RecordInv` therefore joins the types with `Sound`, which says of one record
   what the two invariants say of all; each operation is shown to replace a
   record by a sound one.
2. `DeadLettersAndClaimsHold`, `LiveClaimsHold`, `TerminalRunsStay`, `ClaimsStay`.
   Dead letters, idempotency claims and the two action
   properties are one induction, `StoreInv`, since cleanup and requeue write runs,
   dead letters and claims together: a requeue keeps claims honest only because the
   dead letter's run is dead-lettered, hence not the fresh one, and a cleanup
   spares a live claim's run because a lagging clock never sees a claim expire
   early (`AliveIsClaimed`).  `Promise` is what every step shows; `Plain` groups the
   operations that touch live runs only, `Buries` the two that dead-letter.
3. `StoreStaysBounded`: `ConcurrencyBounded` and `WithinCaps`.
   Only a claim makes runs run (`OnlyClaimsRun`) and it counted the running ones
   before; only appends and requeues store runs; dead letters are the image of the
   buried runs, hence no more than they are (`DeadLettersOf`).
4. `StoreImplementsLedger`: `Spec => ImplementsLedger`, the
   refinement of section 3.  Each operation is mapped to an action of the ledger or to
   a stutter; the inductive invariants above supply what the abstract guards ask (a
   handed run has attempts left, the held ones stay within the concurrency, what is
   erased had ended).

`AttemptsWithinPolicy`, `WithinCaps`, `TerminalIsFinal` and the types are proved and
therefore not repeated in a run; the other properties of the store are both.

**The renewal of a lease** (`RenewalConstants`, and for the two invariants
`KeepsItsTimes`: the store is dependable, applying a request and reading the run
take together less than half a lease, and stale recovery grants at least the time
a request takes).  `LongHandlersKeepTheirRun` proves `LeaseNeverStale` and
`LeaseIsNotGivenUp` proves `NoFalseLoss`, for every interval and number of
renewals; `RenewalTyped` needs no `KeepsItsTimes`.  The
inductive invariant `LeaseInv` has three parts.  `Kept` says of every request, the
superseded ones included, that it was sent within its latency and while the lease
lasted, is covered by the lease once applied, and how far its guard is.  `Newest`
says that the newest request stays the current one until its guard fences it, and
stays pending until it was decided by the store.  `InTime` says that otherwise the
next heartbeat comes before the lease asked for last has run out.  The step that
decides is an answer that arrives when the heartbeat has just been skipped: the
timers run before answers are read, hence less than an interval has passed since
the request was sent and the next heartbeat, at most an interval away, is in time
(`SettleKeeps`).

**The enqueue call** (`StoreConstants`, `CallConstants`).  `CallsAreStoreSteps` shows
that calls and workers only use operations of the store, hence every theorem about
the store holds under them.  `KeyedCallsCreateOneRun` proves `KeyedOnce`.  Its
invariant `CallInv` joins the store's with `KeySound` for every key none of whose
claims has run out: the key's record is alive and names the one run that a call with
this key has created, which is also what the calls that succeeded have returned.  The
store's part is needed since a cleanup or a requeue must leave a live claim's run
alone (`WorkersKeep`); what an append does to another call of the same key is
`CallMoves`.

**The workers** (`StoreConstants`, `WorkerConstants`: any workers, runs, fence
limits, delays and faults).

1. `WorkersUseStore`: `WorkersSpec => Spec`, so every theorem about the store holds
   under its workers.  `WorkersInv` joins the store's `CapsInv` with the types
   (`WorkersTypesHold`), with `Claims` (a claim that is pending in some batch
   is pending there only, was issued and was not started) and with `Paid`.
   `ClaimSteps` says of each action that it takes claims, gives one back, starts
   some, drops some, or leaves them alone; the inductions are over these five.
2. `StartsArePaid` proves `StartsWithinAttempts`.  `Paid` strengthens it to the
   claims that are pending too: a release uncounts the attempt and drops
   its claim in the same step, and a claim that was lost has been counted for good.
3. `AcknowledgedNeverStarts` and `AcknowledgedAborts` prove `NoStartAfterAck` and
   `CancelAborts`.  `Acks` says that what a worker has claimed and acknowledged is
   in its fence or the fence has overflowed, and that nothing a window without a
   cancellation has kept was acknowledged: what is cancelled is not held when it is
   read, and a cancellation that comes later is noticed.  `Controlled` says that a handler that is
   its run's only one has its run's controller and was told.
4. `ClaimsAreKept` proves `NoOrphanedClaim` from one hypothesis, `RoomForDeadLetters`:
   while runs are running a dead letter fits.  Without room an execution's last
   failure cannot be written and the lease is left to recovery.
   `ClaimsAreKeptWithRoom` discharges it where the bucket has room for every run, as
   in the runs of section 4.  The invariant `Kept` adds that a lease in force has an
   execution that has not given it up, and that what a window has read and not kept
   was not held (`ReadSound`).
5. `PunctualNeverOverlaps` and `PunctualWithinConcurrency` prove `NoOverlap` and
   `PhysicalConcurrency` where heartbeats are punctual (`Punctual`, which the run
   sets too; without it both fail, since a lease lapses under a handler).  The
   invariant `Secure` is about the *entitled*: handlers at work and the claims that
   may still be started, which are those whose answer has not come too late
   (`Startable`).  A run has at most one, and unless it was cancelled that one holds
   a lease which lasts beyond the next heartbeat.  So a run that is due has no
   entitled claim, and a claim can make one (`EntitledStep`).  That a lease stays
   with its claim until it is released, committed or cancelled is `LeaseStays`; the
   check against the interval when the answer comes is what carries the lease from
   the claim to the first heartbeat (`HandlingStep`).
6. `PunctualImplementsHandlers`: under `Punctual`, `WorkersSpec => ImplementsHandlers`,
   the refinement of section 3, for any number of crashes, lost answers and
   cancellations.  A batch that is started is a `Start`: its claims are entitled, hence
   the only ones of their runs and nobody's handler is at work (`StartedRun`); `Paid`
   gives the attempt that is left, `Secure` with the store's concurrency the limits
   (`EntitledWithinLimits`).  A step that leaves the store alone ends handlers at most
   (`StartsOrNot`), and one that moves runs ends none (`HandlersStay`).  A run under a
   handler at work goes on running or is cancelled, by `LeaseStays` (`WorkedOnRuns`), so
   no recovery buries it; and only the commit of a settled handler completes it
   (`OnlyCommitsComplete`).

**The jobs runtime** (`RuntimeConstants`: any executions and mutations, any number of
initial ticks and faults).  `RuntimeInv` has three parts: `Typed`; `ShutdownInv`,
a shutdown in its grace period still waits for every handler at work, and beyond it
they have all been told to abort; `FlushInv`, a flush has nothing left of the kinds of
work whose phase is over, and waits for all of the kind it is at.  The order of
the phases matters: a stage that has settled starts no more executions, so the
executions phase, which comes later, sees all of them (`FlushStep`).
`ShutdownTellsHandlers` and `FlushSettlesAll` are about the step in which the
call ends.  `CallsNeverHang` proves `NoCallHangs` from `WaitInv`: each call is in one of
its own phases, and a start that waits has a tick in progress to wait for, whose stages
time out.

**Events** (`DeliveryConstants`: any managers, mortal or not, consumers, runs,
attempts and lags, any lease).  Two hypotheses are added where they are needed and
only there.  `QuietAdmin`: a replay or dead-letter retry comes only while no run is in
progress; the code does not ensure it, and without it `UniqueFence` fails (section 7).
`LongLeases`: `ClaimLag + 1 < Lease`; a lease is 30 s, 3 ticks, and a claim is
answered within the tick it is sent in or the next.  It is tight: with `ClaimLag` 2
`OneLiveDelivery` fails.

1. `FenceInv` gives `FenceIsUnique`: a run in progress carries a generation no higher
   than the record's attempts, different from those of the other runs, and a record
   is leased only while it is dispatching.  Only a claim issues a generation, and it
   issues the next one.
2. `CallInv` says where a run's consumer calls may be in each phase of the run
   (`CallFits`), that a call that is done has completed its inbox entry, unless the
   event was purged (`DoneIsComplete`), and that a completed entry is nobody's
   (`CompleteIsFinal`).  `DispatchNeedsConsumers` follows: the run that settles holds
   the lease, so nothing has reset the inbox since its calls completed.
3. `LeaseInv` is the one with time.  `Kept` relates what is left of a lease to the
   step of its owner: while a claim's answer is awaited it has lost no more than the
   time since; after that no more than the lag of a claim's answer; with a renewal
   asked for, one tick more.  So a
   run or a call that has not been told to abort still has its lease (`RunLeased`,
   `CallLeased`), for the outbox record and for the inbox entry alike; a second
   live handler or delivery would need the same lease.  `CompletedIsNotHandledAgain`
   adds that an entry is completed by the call that holds it.
4. `DeliveryImplementsContract`: under both hypotheses, `Spec => ImplementsContract`, the
   refinement of section 3.  A step of a consumer call starts a handler, ends one or
   settles one, or is hidden (`CallContract`); a step of a run is a delivery, its end, a
   dispatch, a giving up or a leaving (`RunContract`).  What the contract's guards ask comes
   from the invariants above: a call that holds its entry is the consumer's
   only one that was not told (`HandlerStarts`, from `CallLeased`); a run that holds its
   lease is alone at the destination, untold, and the record is dispatching
   (`SettlingIsDelivery`, `HeldIsOpen`); its calls are done, hence all consumers have
   completed (`DoneByAll`); and nothing of a run is at work when it gives up
   (`OverRests`).
   A renewal that hangs, a shutdown and a delivery's timeout are the contract's `Tell`; an end,
   a lost answer and a crash are its `Leave`.  `ExpiredIsPublished` is the one invariant added.

**The managed runtime of resilience** (`ResilienceConstants`: any finite set of
calls, any of them coalesced, any policy and limits).

1. `Sound` says of one call where it may be and what
   it may hold there: a permit, a place in the queue, work of the application, a
   coalesced entry.  `PermitsSound` and `QueueSound` relate the counter and the queue
   to the calls.  They need each other: a permit handed to a waiter is counted once
   (`PassKeeps`) because the queue holds exactly the calls that wait, and a call that
   is over keeps a permit only while its function works on (`BecomesKeeps`).  Each
   action has a lemma (`ExecuteStep` to `UnwindStep`) that shows it keeps these and
   tells the breaker one of five things (`Tells`): nothing, a success, a failure, a
   resigned admission, or a new one.
2. `BreakerStep`  uses only what the breaker was told.
   `BreakerInv` says that its count of probes is the number of calls that hold a
   slot of its generation and that no call is ahead of that generation (until a
   shutdown has seen the last call), which is what makes results of older calls
   harmless.  The shutdown may clear the breakers only
   since no call holds anything by then (`ClearedInv`).
3. `RuntimeInv` joins them.  `PermitsAreConserved` is part of it; `WorkIsIsolated`
   follows because work needs a permit, `FlightsAreSingle` because the working calls
   of a key are among the owners, of which the entry names one (`OwnersSound`);
   `ProbesAreAccounted` is part of it and `RecoveryHolds` is what each step shows
   beside it (`Earned`).  `RuntimeTyped` gives the types.
4. `RuntimeImplementsBreaker`: `Spec => ImplementsBreaker`, the refinement of
   section 3.  A step of a call is one of `StepForms` and has told the breaker one of
   the five things; each is mapped to an action of `CircuitBreaker` or to a stutter: a
   call that falls silent has lost or withdrawn its admission (`SilentMoves`), a report
   is heard in the period that admitted its call and by no other (`ReportMoves`), an
   admission takes a slot that `BreakerInv` shows is there (`AdmissionMoves`).  `Aborted`
   is what the shutdown needs: once it has begun every call on its way has been aborted,
   so that calls only leave (`RetiredMoves`).

**The cache** (`CacheConstants`: any finite set of keys, any calls).

`CacheIsSound` (`CacheRuntime_proofs`) shows the inductive invariant
`CacheInvariant`: for some `turn`, the revision each mutation was given when it was
accepted, the four parts below hold.  The model does not keep that revision, and
nothing depends on it but the order of the mutations; hence the invariant says that
it exists, and `NextStep` gives the mutation accepted in a step its own.

1. `StoreInv`, of the mutations and entries.  `Ordered`: for each earlier
   unsettled mutation of its keys, an unsettled one waits for one that came no earlier,
   and so would one accepted next, behind the tails of its keys.  `Forward`: what an unsettled mutation
   will store is not older than the mutations it waits for or that have taken effect.
   Together they make a settling mutation the latest of its keys (`SettleKeeps`),
   also when its caller timed out long ago; from this comes `NothingIsResurrected`.
   An accepted load does not break `Forward`, because the revision it compares
   tells of every mutation accepted since it read the source (`LoadedSound`).
2. `CallsInv`, of the calls.  `Knows` says what each value in a call's hands reflects:
   the answer read, the entry found, the one read again, the value loaded.  With
   `FlightInv`, at most one owner per key and every follower with a flight to
   follow, `ReadsReflectMutations` and `FallbacksAreSafe` follow.
3. `FlushInv`, of the flushes.  The turn of all that is dirty or unsettled is above the
   revision already covered, and of what a flush under way will not cover, above that
   flush's revision.
4. `StopInv`, of the shutdown: nothing is left of what each of its stages has waited
   for, and none starts any more.  `NothingIsLeftAtClose` is its last line.

`Onward` says what a step does to the mutations at most, so that the parts that read
them are kept at once by each step that does nothing else.  `CacheTypesHold` gives
the types.

Checked by TLC and not proved: the
liveness properties (`SettledEnds`, `LossIsNoticed`, `EveryRunEnds`,
`DrainingEnds`, `EventSettles`, `DrainingCloses`, `EveryCallSettles`,
`DrainCompletes`) are out of the prover's reach and stay with TLC, since they depend
on fairness, hence on ENABLED.  So would induction over data structures; the modules
need none, and none declares a RECURSIVE operator.

## 7. Disagreements and observations

Two runs are expected to be violated; each checks a sentence of the repository.

- `enqueue_failure` (`core/handler-queue-api.ts:108`).  After a lost answer the
  run read back is accepted only when it is deeply equal to the one sent; if a
  worker has claimed it, `enqueue` rejects although the run is created and
  running.  README lines 122-125 of jobs promise the confirmation.  A manual
  trigger compares in the same way (`core/handler-admin.ts`).
- `renewal_undependable` (`core/handler-execution.ts:252`).  The continuation of a
  renewal that failed reads the run and then revokes the lease without asking again
  whether its request is still the newest, as the path for a false answer does; when
  the read fails too, a newer renewal can have succeeded meanwhile.  The comment at
  lines 264-265 says that only the latest request fences the lease.

What else modelling brought to light.  These are not runs; each was seen in a
counterexample of an instance or while reading, and the models contain the
behaviour unless it says otherwise.

*Jobs.*

- A cancelled run frees its task's slot in the store while its handler, ignoring
  the abort, is at work (`core/handler-execution.ts:330`); README lines 136-138
  say that it goes on occupying it.  `PhysicalConcurrency` leaves such handlers
  out.
- A shutdown during the initial tick clears the poll timer; the start then arms it
  again (`core/handler.ts:154`).  It fires without effect, but README lines
  127-131 say that polling is not reopened.
- The lease that remains is checked once, when a claim's answer arrives
  (`core/handler-execution.ts:335`): releases of batch mates and fence reads come
  after.  `NoOverlap` holds when these steps do not take time.
- A caller whose clock lags can meet an idempotency claim that cleanup, on another
  clock, has already stripped of its run (`memory.ts:96`); its enqueue throws and
  changes nothing.
- Schedules (read, not modelled): an enabled schedule without `nextRunAt` is
  computed anew by the memory backend at each trigger (`memory.ts:305`), also one
  whose last occurrence has just been triggered; a trigger in the very millisecond
  of that occurrence fires it again.  SQL selects only schedules that have a
  `nextRunAt`.

*Events.*

- A delivery given up after its timeout goes on while its event is claimed again
  (`manager.ts:832`); the test at `events/test/events/events.test.ts:1358` has the
  retry wait for the physical delivery, which holds within one run only.
- The remaining lease is not checked when a claim's answer comes
  (`manager.ts:784`): with `ClaimLag` 2 the lease can lapse before the first
  renewal is due to be answered, and `OneLiveDelivery` fails.
- A replay or a dead-letter retry resets the attempts, which are the fence's
  generation: with `AdminAnytime` TRUE an older run of the same manager meets its
  own owner and generation again, and `UniqueFence` fails.  The memory backend
  restarts the generation with each retry (`events/src/events/memory-backend.ts:86`).
- A claim that is answered while the manager drains is carried out, not aborted.

*Resilience.*

- A probe whose function throws a `ResilienceConfigurationError`
  (`managed-runtime.ts:714`), or that is cancelled at work, never gives its
  half-open slot back: with `halfOpenMaxAttempts` 1 the breaker admits nobody until
  the partition is evicted.  `ProbesAccounted` counts such probes as on their way.
- A follower that joins after the owner's timeout, while the function goes on, gets
  the owner's error.
- The engines in `circuit-breaker.ts`, `bulkhead.ts`, `coalescing.ts`, `timeout.ts`
  and `retry-engine.ts` are not used by the managed runtime, and not modelled.

*Cache.*

- A flush does not always cover the mutations accepted before it: one that shares
  another's `flushWork`, begun before a timed-out mutation settled, resolves although
  that mutation has not been flushed (`runtime-finalization.ts:66-67`).  Shutdown
  flushes again, which `ClosedAfterFlush` checks.
- A caller that joins a flight may get what the flight read before a mutation which
  the caller has seen completed: `ReadsSeeAccepted` is about calls that own their
  load or read the backend.
- The revision a fallback is compared with is taken after the lookup's answer
  (`runtime-operations.ts:269`): a mutation accepted and settled during the lookup
  does not prevent the older fallback.

## 8. Not modelled, and the plan

Not modelled of jobs: schedules (`memory.ts` 277-378,
`core/handler-scheduling.ts`), the admin port's paging and validation, health and
telemetry, the text of the Redis script and of the SQL statements.  Of events:
publication's validation and batching, the Redis and memory transports, streams,
schema evolution.  Of resilience: partitions and their eviction, budgets, the
separate engines.  Of cache: the batch calls, encoding, tags' index, the backends
themselves.  Of the other packages nothing yet; section 1 says which are planned
and which hold no protocol.

The plan, in order:

1. `JobsSchedules`: `triggerDueSchedules` with overlap policies, catch-up windows,
   partial batches, lost answers and competing schedulers, as an implementation of
   "each due time yields at most one run"; upsert, pause, resume and manual triggers.
2. `RateLimit` (fixed window, token bucket), `Lifecycle`, and the batch-and-retry
   pipeline of core.
