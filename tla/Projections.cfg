SPECIFICATION Spec
CONSTANTS
    x1 = x1
    x2 = x2
    b1 = b1
    b2 = b2
    w1 = w1
    w2 = w2
    Expenses <- MCExpenses
    Budgets <- MCBudgets
    Workers <- MCWorkers
    Scenarios <- MCScenarios
    MaxFaults = 1
INVARIANTS
    LedgersAgree
    ReadsAgree
    UsageAgrees
    AlertsTrue
