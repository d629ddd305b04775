\* A store whose answers and reads may fail.
CONSTANTS
    Interval = 3
    Latency = 1
    ReadLatency = 1
    Dependable = FALSE
    RecoveryAfterMs = 1
    MaxRequests = 2
SPECIFICATION Spec
INVARIANTS
    NewerRenewalStands
