SPECIFICATION Spec
CONSTANTS
    Replicas = {r1, r2}
    Requests = {q1, q2}
    Emails = {"a", "b", "c"}
    Passwords = {1, 2}
    Workloads <- MCWorkloads
    MaxFaults = 1
    BootstrapEmail = "a"
INVARIANTS
    CacheCoherent
    LastWriteStands
    SpentOnce
    PasswordClosesSessions
    ShownImageKept
SYMMETRY Symmetry
CHECK_DEADLOCK FALSE
