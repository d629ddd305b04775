\* Three calls, two of them coalesced, one or two permits and one waiter, two attempts, a
\* fallback, one probe, a failing disposer, under fairness.
CONSTANTS
    o1 = o1  o2 = o2  o3 = o3  o4 = o4
    Op = {o1, o2, o3}
    Keyed = {o1, o2}
    NoOp = NoOp
    Permits = {1, 2}
    MaxQueue = 1
    FailureCount = 1
    HalfOpenMax = 1
    MaxAttempts = 2
    Fallback = TRUE
    MaxAdmitted = 3
    MaxFollowers = 1
    MaxFaults = 1
SPECIFICATION FairSpec
INVARIANTS
    Isolation
    PermitsConserved
    SingleFlight
    ProbesAccounted
PROPERTIES
    RecoveryIsEarned
    ImplementsBreaker
    EveryCallSettles
    DrainCompletes
CHECK_DEADLOCK FALSE
