\* An auto-posting payment, nothing goes wrong.
SPECIFICATION FairSpec
CONSTANTS
    p1 = p1  p2 = p2  s1 = s1  s2 = s2
    Payments = {p1}
    Schedulers = {s1}
    Worlds <- Lonely
    MaxDay = 2
    MaxFaults = 0
    Horizon = 0
    BatchSize = 1
PROPERTIES
    DuePosted
CHECK_DEADLOCK FALSE
