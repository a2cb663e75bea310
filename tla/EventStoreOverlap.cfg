\* PostgreSQL: replicas register a subscription while commands are in flight.
\* Memory: two engines deliver while units of work fail.
SPECIFICATION MCSpec
CONSTANTS
    c1 = c1  c2 = c2  c3 = c3  e1 = e1  e2 = e2  p1 = p1
    old = old  new = new  r1 = r1  r2 = r2  w1 = w1
    Txns = {c1, c2, c3}
    Plan <- ThreeCommands
    Aggregates = {e1, e2, p1}
    Subscriptions = {old, new}
    Registered = {old}
    Registrars = {r1, r2}
    Registers <- NewForAll
    Commands = {c1, c2}
    Appends <- TwoCommands
    Engines = {old, new}
    Handles <- ExpensesOrPayments
    Writes = {w1}
    MaxTries = 2
    MaxFailures = 2
INVARIANTS
    StreamsSound
    FanOutExact
PROPERTIES
    VisibleInOrder
    UnitsEnd
    MemoryDelivers
CHECK_DEADLOCK FALSE
