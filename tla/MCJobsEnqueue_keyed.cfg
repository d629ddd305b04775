\* Three calls with one key, one of them with another request; two faults.
CONSTANTS
    r1 = r1  r2 = r2  r3 = r3  q1 = q1  t1 = t1  k1 = k1  c1 = c1  c2 = c2
    e1 = e1  e2 = e2  e3 = e3
    RunId = {r1, r2, r3}
    Call = {e1, e2, e3}
    Queue = {q1}
    Task = {t1}
    Key = {k1}
    Checksum = {c1, c2}
    NoKey = NoKey
    NoRecord = NoRecord
    NoRun = NoRun
    QueueOf <- MCQueueOf
    TaskOf <- MCTaskOf
    Priority <- MCPriority
    MaxAttempts <- MCMaxAttempts
    TaskLimit <- MCTaskLimit
    RunOf <- MCRunOf
    KeyOf <- MCOneKey
    ChecksumOf <- MCChecksumOf
    MaxConcurrentRuns = 1
    MaxRuns = 2
    MaxDeadLetters = 1
    LeaseMs = 1
    RecoveryAfterMs = 0
    RetentionMs = 1
    IdempotencyMs = 3
    MaxDelay = 0
    MaxLag = 0
    Horizon = 1
    CleanupLimit = 2
    MaxClaims = 1
    MaxFaults = 2
SPECIFICATION CallSpec
INVARIANTS
    KeyedOnce
