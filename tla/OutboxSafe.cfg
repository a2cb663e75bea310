\* Two replicas, two subscribed aggregates and one the handler ignores.
SPECIFICATION Spec
CONSTANTS
    w1 = w1  w2 = w2  a1 = a1  a2 = a2  a3 = a3
    Workers = {w1, w2}
    Aggregates = {a1, a2, a3}
    Subscribed = {a1, a2}
    Seqs = {1, 2, 3}
    MaxAttempts = 2
    MaxFaults = 2
    SlowHandlers = FALSE
    LostAcks = FALSE
INVARIANTS
    ExactlyOnce
    OneHolder
    CheckpointAgrees
PROPERTIES
    ImplementsOrderedDelivery
SYMMETRY WorkerSymmetry
CHECK_DEADLOCK FALSE
