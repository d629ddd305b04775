------------------------------- MODULE JobsStore -------------------------------
(***************************************************************************)
(* The durable state of the jobs scheduler and the operations a jobs       *)
(* backend offers on it, as packages/jobs/src/jobs/features/backends/      *)
(* memory.ts implements them (the Redis script and the SQL backend promise *)
(* the same operations, each atomic).  The client is arbitrary: it calls   *)
(* any operation at any moment, with any lease token the store ever issued.*)
(*                                                                         *)
(* Time.  Every deadline the store compares with a clock is kept as the    *)
(* time that is left, in the field "due" of a run: the time to runAt while *)
(* it is queued or retryable, to leaseExpiresAt while it is running and to *)
(* terminalExpiresAt once it is terminal.  Tick lets one unit pass.  A     *)
(* caller reads its clock before the call reaches the store, so each       *)
(* operation that takes "now" takes a lag d: the caller's now is d units   *)
(* behind.                                                                 *)
(*                                                                         *)
(* Abstracted: payloads, trace context, results and error texts; the order *)
(* by runAt and id among due runs of one priority (any order); the byte    *)
(* budget of the memory backend and its caps on queues; the 1000-run batch *)
(* of stale recovery; that a transition is dated no earlier than the run's *)
(* last update (here a caller that lags may write the earlier deadline).   *)
(***************************************************************************)
EXTENDS Integers, FiniteSets

CONSTANTS
    RunId,              \* the ids runs are created with; each is used once
    Queue, Task,        \* queue and task names
    Key, Checksum,      \* idempotency keys and request checksums
    NoKey, NoRecord,    \* "no idempotency key", "no idempotency record"
    QueueOf, TaskOf,    \* the queue and the task a run id is created for
    Priority,           \* the priority a run id is created with
    MaxAttempts,        \* the attempts of a run's retry policy
    MaxConcurrentRuns,  \* the claimers' maxConcurrentRuns
    TaskLimit,          \* the claimers' concurrencyByTask
    MaxRuns,            \* MAX_MEMORY_RUNS
    MaxDeadLetters,     \* MAX_MEMORY_DEAD_LETTERS
    LeaseMs, RecoveryAfterMs, RetentionMs, IdempotencyMs,
    MaxDelay,           \* the longest enqueue or retry delay
    MaxLag,             \* how far a caller's clock reading may be behind
    Horizon,            \* an elapsed deadline is not followed further than this
    CleanupLimit,       \* the limit of one cleanup batch
    MaxClaims           \* bound: how often the store claims one run

ASSUME StoreConstants ==
    /\ IsFiniteSet(RunId)
    /\ QueueOf \in [RunId -> Queue]
    /\ TaskOf \in [RunId -> Task]
    /\ Priority \in [RunId -> Int]
    /\ MaxAttempts \in [RunId -> Nat \ {0}]
    /\ MaxConcurrentRuns \in Nat \ {0}
    /\ TaskLimit \in [Task -> Nat \ {0}]
    /\ MaxRuns \in Nat /\ MaxDeadLetters \in Nat
    /\ LeaseMs \in Nat \ {0} /\ RecoveryAfterMs \in Nat
    /\ RetentionMs \in Nat \ {0} /\ IdempotencyMs \in Nat \ {0}
    /\ MaxDelay \in Nat /\ MaxLag \in Nat
    /\ Horizon \in Nat /\ Horizon >= RecoveryAfterMs + MaxLag
    /\ CleanupLimit \in Nat \ {0} /\ MaxClaims \in Nat
    /\ NoKey \notin Key
    /\ NoRecord \notin [runId : RunId, checksum : Checksum, left : Int]

VARIABLES
    runs,           \* run id -> status, attempt, lease token and deadline
    deadLetters,    \* the dead-letter records
    idempotency,    \* key -> the run it created, its checksum, the time left
    pausedQueues,   \* the queues claims pass over
    issued          \* run id -> number of lease tokens issued for it so far

storeVars == <<runs, deadLetters, idempotency, pausedQueues, issued>>

--------------------------------------------------------------------------------
Live == {"queued", "running", "retryable"}
Terminal == {"completed", "cancelled", "dead-lettered"}
Present == Live \cup Terminal

\* "absent": no run with this id yet; "deleted": the run was removed again.
Status == Present \cup {"absent", "deleted"}

Run == [status : Status, attempt : Nat, token : Nat, due : Int]
DeadLetter == [runId : RunId, token : Nat, attempts : Nat]
IdempotencyRecord ==
    [runId : RunId, checksum : Checksum, left : Int] \cup {NoRecord}

Lag == 0 .. MaxLag
Delay == 0 .. MaxDelay

\* A lease token is drawn at random for each claim: here the number of the claim.
NoToken == 0
Token == 1 .. MaxClaims

RunIs(r, s) == runs[r].status = s
Stored == {r \in RunId : runs[r].status \in Present}
Running == {r \in RunId : RunIs(r, "running")}
RunningTask(t) == {r \in Running : TaskOf[r] = t}

\* The caller whose clock is d behind sees the deadline x as passed.
Elapsed(x, d) == x + d <= 0

NewRun(delay) ==
    [status |-> "queued", attempt |-> 0, token |-> NoToken, due |-> delay]

Removed == [status |-> "deleted", attempt |-> 0, token |-> NoToken, due |-> 0]

\* Mutant: a terminal run keeps its lease token.
EndedKeepingToken(r, s, d) == [runs[r] EXCEPT !.status = s, !.due = RetentionMs - d]

Ended(r, s, d) ==
    [runs[r] EXCEPT !.status = s, !.token = NoToken, !.due = RetentionMs - d]

--------------------------------------------------------------------------------
(* Appending a run.                                                        *)

\* Mutant: the key's record is not looked up.
NeverClaimed(k, d) == FALSE

\* The key's record still answers an append made with a clock d behind.
Claimed(k, d) ==
    /\ k # NoKey
    /\ idempotency[k] # NoRecord
    /\ ~Elapsed(idempotency[k].left, d)

\* Room for a run, given that "credit" stored runs leave in the same operation.
HasRoom(credit) == Cardinality(Stored) < MaxRuns + credit

AppendRun(r, k, c, delay, d) ==
    /\ RunIs(r, "absent")
    /\ ~Claimed(k, d)
    /\ HasRoom(0)
    /\ runs' = [runs EXCEPT ![r] = NewRun(delay)]
    /\ idempotency' =
         IF k = NoKey THEN idempotency
         ELSE [idempotency EXCEPT ![k] =
                 [runId |-> r, checksum |-> c, left |-> IdempotencyMs - d]]
    /\ UNCHANGED <<deadLetters, pausedQueues, issued>>

--------------------------------------------------------------------------------
(* Claims and leases.                                                      *)

Candidates(tasks, d) ==
    {r \in RunId : /\ runs[r].status \in {"queued", "retryable"}
                   /\ Elapsed(runs[r].due, d)
                   /\ QueueOf[r] \notin pausedQueues
                   /\ RunIs(r, "queued") \/ runs[r].attempt < MaxAttempts[r]
                   /\ TaskOf[r] \in tasks}

\* Mutant: the runs of other workers do not count.
TaskSlotsOfOneWorker(t) == TaskLimit[t]

TaskSlots(t) == TaskLimit[t] - Cardinality(RunningTask(t))

Capacity(limit) ==
    LET free == MaxConcurrentRuns - Cardinality(Running)
    IN IF limit <= free THEN limit ELSE free

\* S is what a scan of the candidates by descending priority claims: it stops
\* when the capacity is used up and passes over runs of a saturated task.
Admitted(S, tasks, limit, d) ==
    LET ahead(r) == {s \in S : Priority[s] >= Priority[r]}
        same(r) == {s \in ahead(r) : TaskOf[s] = TaskOf[r]}
    IN /\ S \subseteq Candidates(tasks, d)
       /\ Cardinality(S) <= Capacity(limit)
       /\ \A t \in Task :
            S \cap {r \in RunId : TaskOf[r] = t} # {} =>
              Cardinality({s \in S : TaskOf[s] = t}) <= TaskSlots(t)
       /\ \A r \in Candidates(tasks, d) \ S :
            \/ Cardinality(ahead(r)) >= Capacity(limit)
            \/ Cardinality(same(r)) >= TaskSlots(TaskOf[r])

ClaimDueRuns(S, tasks, limit, d) ==
    /\ S # {}
    /\ Admitted(S, tasks, limit, d)
    /\ \A r \in S : issued[r] < MaxClaims
    /\ runs' = [r \in RunId |->
                  IF r \in S
                  THEN [status |-> "running", attempt |-> runs[r].attempt + 1,
                        token |-> issued[r] + 1, due |-> LeaseMs - d]
                  ELSE runs[r]]
    /\ issued' = [r \in RunId |-> IF r \in S THEN issued[r] + 1 ELSE issued[r]]
    /\ UNCHANGED <<deadLetters, idempotency, pausedQueues>>

Holds(r, n) == RunIs(r, "running") /\ runs[r].token = n

\* The lease-guarded writes also want the lease unexpired at the caller's now.
Fenced(r, n, d) == Holds(r, n) /\ ~Elapsed(runs[r].due, d)

\* An unused claim is given back: the attempt is uncounted, runAt is in the past.
ReleaseClaim(r, n) ==
    /\ Holds(r, n)
    /\ runs' = [runs EXCEPT ![r] =
                  [status |-> IF @.attempt = 1 THEN "queued" ELSE "retryable",
                   attempt |-> @.attempt - 1, token |-> NoToken, due |-> 0]]
    /\ UNCHANGED <<deadLetters, idempotency, pausedQueues, issued>>

RenewLease(r, n, d) ==
    /\ Fenced(r, n, d)
    /\ runs' = [runs EXCEPT ![r].due = IF @ >= LeaseMs - d THEN @ ELSE LeaseMs - d]
    /\ UNCHANGED <<deadLetters, idempotency, pausedQueues, issued>>

--------------------------------------------------------------------------------
(* Transitions out of running.                                             *)

CompleteRun(r, n, d) ==
    /\ Fenced(r, n, d)
    /\ runs' = [runs EXCEPT ![r] = Ended(r, "completed", d)]
    /\ UNCHANGED <<deadLetters, idempotency, pausedQueues, issued>>

MarkRunRetryable(r, n, delay, d) ==
    /\ Fenced(r, n, d)
    /\ runs[r].attempt < MaxAttempts[r]
    /\ runs' = [runs EXCEPT ![r] =
                  [@ EXCEPT !.status = "retryable", !.token = NoToken, !.due = delay - d]]
    /\ UNCHANGED <<deadLetters, idempotency, pausedQueues, issued>>

DeadLetterOf(r) ==
    [runId |-> r, token |-> runs[r].token, attempts |-> runs[r].attempt]

DeadLetterRun(r, n, d) ==
    /\ Fenced(r, n, d)
    /\ Cardinality(deadLetters) < MaxDeadLetters
    /\ runs' = [runs EXCEPT ![r] = Ended(r, "dead-lettered", d)]
    /\ deadLetters' = deadLetters \cup {DeadLetterOf(r)}
    /\ UNCHANGED <<idempotency, pausedQueues, issued>>

\* Mutant: terminal runs are cancelled too.
CancellableAlways(r, n) ==
    runs[r].status \in Present /\ (n = NoToken \/ runs[r].token = n)

\* n is the lease token of the caller's last read, NoToken if it had none.
Cancellable(r, n) ==
    runs[r].status \in Live /\ (n = NoToken \/ runs[r].token = n)

CancelRun(r, n, d) ==
    /\ Cancellable(r, n)
    /\ runs' = [runs EXCEPT ![r] = Ended(r, "cancelled", d)]
    /\ UNCHANGED <<deadLetters, idempotency, pausedQueues, issued>>

--------------------------------------------------------------------------------
(* Stale-lease recovery, dead letters and retention.                       *)

\* Mutant: runs whose last attempt died are passed over.
StaleRetryable(d) ==
    {r \in Running : /\ Elapsed(runs[r].due, d + RecoveryAfterMs)
                     /\ runs[r].attempt < MaxAttempts[r]}

Stale(d) == {r \in Running : Elapsed(runs[r].due, d + RecoveryAfterMs)}

\* Mutant: one attempt more than the policy.
ExhaustedLate(r) == runs[r].attempt > MaxAttempts[r]

Exhausted(r) == runs[r].attempt >= MaxAttempts[r]

\* Every stale run is recovered, except exhausted ones the full dead-letter
\* bucket has no room for: those stay fenced until retention frees a record.
RecoverStaleLeases(S, d) ==
    LET dead == {r \in S : Exhausted(r)}
        after == Cardinality(deadLetters) + Cardinality(dead)
    IN /\ S # {}
       /\ S \subseteq Stale(d)
       /\ after <= MaxDeadLetters \/ dead = {}
       /\ \A r \in Stale(d) \ S : Exhausted(r) /\ after >= MaxDeadLetters
       /\ runs' = [r \in RunId |->
                     IF r \notin S THEN runs[r]
                     ELSE IF r \in dead THEN Ended(r, "dead-lettered", d)
                     ELSE [runs[r] EXCEPT !.status = "retryable",
                                          !.token = NoToken, !.due = 0 - d]]
       /\ deadLetters' = deadLetters \cup {DeadLetterOf(r) : r \in dead}
       /\ UNCHANGED <<idempotency, pausedQueues, issued>>

\* The dead letter, its run and the run's idempotency claims give way to a fresh
\* run r.  The full run map is no obstacle: one run leaves for the one that comes.
RequeueDeadLetter(x, r, k, c, d) ==
    /\ x \in deadLetters
    /\ RunIs(r, "absent")
    /\ TaskOf[r] = TaskOf[x.runId] /\ QueueOf[r] = QueueOf[x.runId]
    /\ ~Claimed(k, d)
    /\ HasRoom(1)
    /\ deadLetters' = deadLetters \ {x}
    /\ runs' = [runs EXCEPT ![r] = NewRun(0 - d), ![x.runId] = Removed]
    /\ idempotency' =
         [q \in Key |->
            IF q = k THEN [runId |-> r, checksum |-> c, left |-> IdempotencyMs - d]
            ELSE IF idempotency[q] # NoRecord /\ idempotency[q].runId = x.runId
                 THEN NoRecord ELSE idempotency[q]]
    /\ UNCHANGED <<pausedQueues, issued>>

\* Mutant: retention ignores idempotency claims.
ExpiredClaimed(d) ==
    {r \in RunId : runs[r].status \in Terminal /\ Elapsed(runs[r].due, d)}

\* Terminal runs past retention whose idempotency claims have all run out.
Expired(d) ==
    {r \in RunId : /\ runs[r].status \in Terminal
                   /\ Elapsed(runs[r].due, d)
                   /\ ~\E k \in Key : Claimed(k, d) /\ idempotency[k].runId = r}

ExpiredKeys(d) == {k \in Key : idempotency[k] # NoRecord /\ ~Claimed(k, d)}

\* Mutant: the dead letters of removed runs stay behind.
OrphanedDeadLetters(S) == deadLetters

DeadLettersWithout(S) == {x \in deadLetters : x.runId \notin S}

\* One batch: runs first, with their dead letters, then expired claims.
CleanupTerminalRuns(S, K, d) ==
    LET count == Cardinality(S) + Cardinality(K)
    IN /\ S \subseteq Expired(d) /\ K \subseteq ExpiredKeys(d)
       /\ count > 0 /\ count <= CleanupLimit
       /\ S # Expired(d) => K = {} /\ count = CleanupLimit
       /\ K # ExpiredKeys(d) => count = CleanupLimit
       /\ runs' = [r \in RunId |-> IF r \in S THEN Removed ELSE runs[r]]
       /\ deadLetters' = DeadLettersWithout(S)
       /\ idempotency' = [k \in Key |-> IF k \in K THEN NoRecord ELSE idempotency[k]]
       /\ UNCHANGED <<pausedQueues, issued>>

SetQueuePaused(q, paused) ==
    /\ pausedQueues' = IF paused THEN pausedQueues \cup {q} ELSE pausedQueues \ {q}
    /\ UNCHANGED <<runs, deadLetters, idempotency, issued>>

--------------------------------------------------------------------------------
Sooner(x) == IF x > 0 - Horizon THEN x - 1 ELSE x

Tick ==
    /\ runs' = [r \in RunId |->
                  IF runs[r].status \in Present
                  THEN [runs[r] EXCEPT !.due = Sooner(@)] ELSE runs[r]]
    /\ idempotency' =
         [k \in Key |-> IF idempotency[k] = NoRecord THEN NoRecord
                        ELSE [idempotency[k] EXCEPT !.left = Sooner(@)]]
    /\ UNCHANGED <<deadLetters, pausedQueues, issued>>

Init ==
    /\ runs = [r \in RunId |->
                 [status |-> "absent", attempt |-> 0, token |-> NoToken, due |-> 0]]
    /\ deadLetters = {}
    /\ idempotency = [k \in Key |-> NoRecord]
    /\ pausedQueues = {}
    /\ issued = [r \in RunId |-> 0]

Enqueue ==
    \E r \in RunId, k \in Key \cup {NoKey}, c \in Checksum, delay \in Delay, d \in Lag :
        AppendRun(r, k, c, delay, d)

Claim ==
    \E S \in SUBSET RunId, tasks \in SUBSET Task, limit \in 1 .. MaxConcurrentRuns, d \in Lag :
        ClaimDueRuns(S, tasks, limit, d)

Release == \E r \in RunId, n \in Token : ReleaseClaim(r, n)

Renew == \E r \in RunId, n \in Token, d \in Lag : RenewLease(r, n, d)

Complete == \E r \in RunId, n \in Token, d \in Lag : CompleteRun(r, n, d)

Retry ==
    \E r \in RunId, n \in Token, delay \in Delay, d \in Lag :
        MarkRunRetryable(r, n, delay, d)

Bury == \E r \in RunId, n \in Token, d \in Lag : DeadLetterRun(r, n, d)

Cancel == \E r \in RunId, n \in Token \cup {NoToken}, d \in Lag : CancelRun(r, n, d)

Recover == \E S \in SUBSET RunId, d \in Lag : RecoverStaleLeases(S, d)

Requeue ==
    \E x \in deadLetters, r \in RunId, k \in Key \cup {NoKey}, c \in Checksum, d \in Lag :
        RequeueDeadLetter(x, r, k, c, d)

Cleanup ==
    \E S \in SUBSET RunId, K \in SUBSET Key, d \in Lag : CleanupTerminalRuns(S, K, d)

Pause == \E q \in Queue, paused \in BOOLEAN : SetQueuePaused(q, paused)

Next ==
    \/ Enqueue \/ Claim \/ Release \/ Renew \/ Complete \/ Retry \/ Bury
    \/ Cancel \/ Recover \/ Requeue \/ Cleanup \/ Pause \/ Tick

Spec == Init /\ [][Next]_storeVars

--------------------------------------------------------------------------------
(* Properties.                                                             *)

\* Every variable stays in its type.
TypeOK ==
    /\ runs \in [RunId -> Run]
    /\ deadLetters \subseteq DeadLetter
    /\ idempotency \in [Key -> IdempotencyRecord]
    /\ pausedQueues \subseteq Queue
    /\ issued \in [RunId -> Nat]

\* A run holds a lease token exactly while it is running, and it is the newest
\* token issued for it: whoever holds an older one has lost the run for good,
\* through whatever releases, recoveries, retries and cancellations it went.
LeaseExclusive ==
    \A r \in RunId :
        IF RunIs(r, "running") THEN runs[r].token = issued[r] /\ runs[r].token # NoToken
        ELSE runs[r].token = NoToken

\* The attempt counter agrees with the status and never passes the retry
\* policy, although releases uncount attempts and recovery skips the worker.
AttemptsWithinPolicy ==
    \A r \in RunId :
        /\ runs[r].attempt <= MaxAttempts[r]
        /\ RunIs(r, "queued") => runs[r].attempt = 0
        /\ RunIs(r, "running") => runs[r].attempt >= 1
        /\ RunIs(r, "retryable") => runs[r].attempt \in 1 .. MaxAttempts[r] - 1

\* Dead letters and dead-lettered runs are in one-to-one correspondence with
\* equal attempts: cleanup of a run whose dead letter is missing or doubled
\* throws and would wedge retention.
DeadLettersMatch ==
    /\ \A r \in RunId :
         RunIs(r, "dead-lettered") =>
             \E x \in deadLetters : /\ x.runId = r
                                    /\ x.attempts = runs[r].attempt
                                    /\ \A y \in deadLetters : y.runId = r => y = x
    /\ \A x \in deadLetters : RunIs(x.runId, "dead-lettered")

\* Claims of any number of workers together never run more than the global and
\* the per-task concurrency.
ConcurrencyBounded ==
    /\ Cardinality(Running) <= MaxConcurrentRuns
    /\ \A t \in Task : Cardinality(RunningTask(t)) <= TaskLimit[t]

Alive(k) == idempotency[k] # NoRecord /\ idempotency[k].left > 0

\* As long as an idempotency claim is alive its run is still stored, so that a
\* repeated enqueue finds it (append throws on a claim without its run).
LiveClaimKeepsRun ==
    \A k \in Key : Alive(k) => runs[idempotency[k].runId].status \in Present

\* The map sizes stay within the memory backend's caps.
WithinCaps ==
    Cardinality(Stored) <= MaxRuns /\ Cardinality(deadLetters) <= MaxDeadLetters

\* A terminal run never changes again except that it is removed, after its
\* retention or by the requeue of its dead letter; a live run is never removed.
TerminalKept ==
    \A r \in RunId :
        /\ runs[r].status \in Terminal =>
             \/ runs'[r].status = runs[r].status /\ runs'[r].attempt = runs[r].attempt
             \/ /\ runs'[r].status = "deleted"
                /\ runs[r].due <= 0 \/ RunIs(r, "dead-lettered")
        /\ runs[r].status \in Live => runs'[r].status \in Present

TerminalIsFinal == [][TerminalKept]_storeVars

\* While a claim is alive its key keeps naming the same run, so that no second
\* enqueue slips in under it; only the requeue of that run's dead letter ends it.
AliveKept ==
    \A k \in Key :
        Alive(k) =>
            \/ /\ idempotency'[k] # NoRecord
               /\ idempotency'[k].runId = idempotency[k].runId
            \/ /\ idempotency'[k] = NoRecord
               /\ RunIs(idempotency[k].runId, "dead-lettered")
               /\ runs'[idempotency[k].runId].status = "deleted"

ClaimedKeyIsStable == [][AliveKept]_storeVars

--------------------------------------------------------------------------------
(* The store implements the ledger of JobsLedger.                          *)

StageOf(status) ==
    CASE status = "absent" -> "none"
      [] status \in {"queued", "retryable"} -> "waiting"
      [] status = "running" -> "held"
      [] status \in {"completed", "dead-lettered"} -> "settled"
      [] status = "cancelled" -> "cancelled"
      [] status = "deleted" -> "erased"

Ledger == INSTANCE JobsLedger WITH
    stage <- [r \in RunId |-> StageOf(runs[r].status)],
    starts <- [r \in RunId |-> runs[r].attempt],
    holder <- issued

\* Through every mixture of claims, releases, retries, recoveries, cancellations,
\* requeues and clean-ups by any clients, a run is created once, is held by one holder
\* at a time, at most MaxAttempts times and within the concurrency, is settled only while
\* it is held, and ends once.
ImplementsLedger == Ledger!Spec
================================================================================
