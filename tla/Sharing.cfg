SPECIFICATION Spec
CONSTANTS
    r1 = r1
    r2 = r2
    q1 = q1
    q2 = q2
    ann = ann
    ben = ben
    g1 = g1
    food = food
    own = own
    trip = trip
    work = work
    x1 = x1
    b1 = b1
    None = None
    Default = Default
    Replicas <- MCReplicas
    Requests <- MCRequests
    Users <- MCUsers
    Admins <- MCAdmins
    Supers <- MCSupers
    Groups <- MCGroups
    Categories <- MCCategories
    Tags <- MCTags
    LabelOwner <- MCLabelOwner
    Expenses <- MCExpenses
    Budgets <- MCBudgets
    OwnerOf <- MCOwnerOf
    Workloads <- MCWorkloads
    TTL = 1
    MaxLag = 1
    MaxTime = 4
    MaxFaults = 1
INVARIANTS
    RevocationBounded
    ListsCoherent
    ReferencesSound
SYMMETRY Symmetry
CHECK_DEADLOCK FALSE
