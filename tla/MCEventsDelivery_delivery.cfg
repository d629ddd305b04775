CONSTANTS
    m1 = m1
    m2 = m2
    c1 = c1
    r1 = r1
    r2 = r2
    Managers = {m1, m2}
    Mortal = {m1}
    Consumers = {c1}
    Runs = {r1, r2}
    None = None
    Lease = 3
    ClaimLag = 1
    Concurrency = 1
    MaxConcurrent = 2
    MaxAttempts = 2
    Bound = TRUE
    AdminAnytime = FALSE
    MaxFaults = 1
    MaxAdmin = 1
SPECIFICATION FairSpec
INVARIANTS OneLiveHandler OneLiveDelivery 
PROPERTIES ImplementsContract EventSettles DrainingCloses
