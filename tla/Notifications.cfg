\* Two workers that keep their leases, crashes, a quota of one.
SPECIFICATION FairSpec
CONSTANTS
    d1 = d1  d2 = d2  w1 = w1  w2 = w2
    Deliveries = {d1, d2}
    Workers = {w1, w2}
    MaxAttempts = 3
    Quota = 1
    MaxExhausted = 2
    MaxFaults = 1
    SlowBatches = FALSE
INVARIANTS
    NoDuplicates
    AttemptsTrue
PROPERTIES
    ResolvedForGood
CHECK_DEADLOCK FALSE
