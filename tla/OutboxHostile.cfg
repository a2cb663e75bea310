\* Handlers that outlive their lease, lost commit acknowledgements, fairness.
SPECIFICATION FairSpec
CONSTANTS
    w1 = w1  w2 = w2  a1 = a1  a2 = a2  a3 = a3
    Workers = {w1, w2}
    Aggregates = {a1, a2}
    Subscribed = {a1}
    Seqs = {1, 2}
    MaxAttempts = 2
    MaxFaults = 2
    SlowHandlers = TRUE
    LostAcks = TRUE
INVARIANT
    RepeatsExplained
PROPERTY
    EventuallyResolved
CHECK_DEADLOCK FALSE
