\* Two workers, one run of two attempts, any delay, one fault, a cancellation, under fairness.
CONSTANTS
    r1 = r1  r2 = r2  r3 = r3  q1 = q1  t1 = t1
    RunId = {r1}
    Queue = {q1}
    Task = {t1}
    Key = {}
    Checksum = {c1}
    NoKey = NoKey
    NoRecord = NoRecord
    QueueOf <- MCQueueOf
    TaskOf <- MCTaskOf
    Priority <- MCPriority
    MaxAttempts <- MCTwice
    MaxConcurrentRuns = 2
    TaskLimit <- MCTaskLimit
    MaxRuns = 2
    MaxDeadLetters = 2
    LeaseMs = 2
    RecoveryAfterMs = 0
    RetentionMs = 1
    IdempotencyMs = 1
    MaxDelay = 0
    MaxLag = 0
    Horizon = 0
    CleanupLimit = 1
    MaxClaims = 3
    Worker = {w1, w2}
    Stoppable = {}
    Canceller = {w1}
    FenceLimit = 1
    MaxTries = 1
    Interval = 1
    TimedTask = {t1}
    Punctual = FALSE
    ClaimDelay = 1
    MaxFaults = 1
SPECIFICATION FairWorkersSpec
INVARIANTS
    StartsWithinAttempts
    
PROPERTIES
    EveryRunEnds
CHECK_DEADLOCK FALSE
