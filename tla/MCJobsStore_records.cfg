\* Three runs of two tasks, two stored at a time: limits, retries, dead letters, requeues, retention, claims.
CONSTANTS
    r1 = r1  r2 = r2  r3 = r3  q1 = q1  t1 = t1  t2 = t2
    RunId = {r1, r2, r3}
    Queue = {q1}
    Task = {t1, t2}
    Key = {k1}
    Checksum = {c1}
    NoKey = NoKey
    NoRecord = NoRecord
    QueueOf <- MCQueueOf
    TaskOf <- MCTwoTasks
    Priority <- MCPriority
    MaxAttempts <- MCMaxAttempts
    MaxConcurrentRuns = 2
    TaskLimit <- MCTaskLimit
    MaxRuns = 2
    MaxDeadLetters = 1
    LeaseMs = 1
    RecoveryAfterMs = 0
    RetentionMs = 1
    IdempotencyMs = 2
    MaxDelay = 0
    MaxLag = 1
    Horizon = 1
    CleanupLimit = 1
    MaxClaims = 2
SPECIFICATION Spec
INVARIANTS
    LeaseExclusive
    DeadLettersMatch
    LiveClaimKeepsRun
    ConcurrencyBounded
PROPERTIES
    ClaimedKeyIsStable
    ImplementsLedger
