\* Two overlapping requests, two sweepers, failures.
SPECIFICATION FairSpec
CONSTANTS
    e1 = e1  k1 = k1  k2 = k2  k3 = k3  c1 = c1  c2 = c2
    s1 = s1  s2 = s2  lunch = lunch  NoKey = NoKey
    Expenses = {e1}
    Keys = {k1, k2, k3}
    Contents = {lunch}
    Clients = {c1, c2}
    Sweepers = {s1, s2}
    MaxCommands = 4
    MaxFaults = 1
INVARIANTS
    StreamAgrees
    NothingDangles
PROPERTIES
    OrphansReclaimed
CHECK_DEADLOCK FALSE
