\* Two workers, two runs of one task, one at a time: late claims, timeouts, a shutdown,
\* a cancellation and a fence of one entry.
CONSTANTS
    r1 = r1  r2 = r2  r3 = r3  q1 = q1  t1 = t1
    RunId = {r1, r2}
    Queue = {q1}
    Task = {t1}
    Key = {}
    Checksum = {c1}
    NoKey = NoKey
    NoRecord = NoRecord
    QueueOf <- MCQueueOf
    TaskOf <- MCTaskOf
    Priority <- MCPriority
    MaxAttempts <- MCTwiceOnce
    MaxConcurrentRuns = 1
    TaskLimit <- MCTaskLimit
    MaxRuns = 2
    MaxDeadLetters = 2
    LeaseMs = 2
    RecoveryAfterMs = 0
    RetentionMs = 1
    IdempotencyMs = 1
    MaxDelay = 0
    MaxLag = 0
    Horizon = 0
    CleanupLimit = 1
    MaxClaims = 2
    Worker = {w1, w2}
    Stoppable = {w1}
    Canceller = {w1}
    FenceLimit = 1
    MaxTries = 2
    Interval = 1
    TimedTask = {t1}
    Punctual = TRUE
    ClaimDelay = 1
    MaxFaults = 0
SPECIFICATION WorkersSpec
INVARIANTS
    NoOverlap
    NoOrphanedClaim
PROPERTIES
    NoStartAfterAck
    ImplementsHandlers
CHECK_DEADLOCK FALSE
