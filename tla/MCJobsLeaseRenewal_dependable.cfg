\* A store that applies requests and answers reads in time; answers lost, false or late.
CONSTANTS
    Interval = 3
    Latency = 1
    ReadLatency = 1
    Dependable = TRUE
    RecoveryAfterMs = 1
    MaxRequests = 4
SPECIFICATION FairSpec
INVARIANTS
    LeaseNeverStale
    NoFalseLoss
PROPERTIES
    SettledEnds
    LossIsNoticed
