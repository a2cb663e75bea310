SPECIFICATION ReportsSpec
CONSTANTS
    r1 = r1
    r2 = r2
    o1 = o1
    o2 = o2
    Replicas <- MCReplicas
    Owners <- MCOwners
    PageSize = 2
    Ages = {0, 31}
    Workloads <- MCWorkloads
INVARIANTS
    FilesBehindRows
    PagesComplete
    ReportsAnnounced
    CalendarSound
SYMMETRY Symmetry
CHECK_DEADLOCK FALSE
