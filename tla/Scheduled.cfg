\* Two replicas, faults at any moment: one payment that is edited meanwhile, or
\* two that nobody edits.
SPECIFICATION FairSpec
CONSTANTS
    p1 = p1  p2 = p2  s1 = s1  s2 = s2
    Payments = {p1, p2}
    Schedulers = {s1, s2}
    Worlds <- MCWorlds
    MaxDay = 3
    MaxFaults = 1
    Horizon = 2
    BatchSize = 2
INVARIANTS
    AtMostOnce
    NothingSkipped
PROPERTIES
    OthersPosted
CHECK_DEADLOCK FALSE
