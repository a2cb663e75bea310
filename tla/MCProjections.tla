---------------------------- MODULE MCProjections ----------------------------
(* Seven small worlds around New Year's Eve 2024, a Tuesday: a month and a   *)
(* year end at midnight, the week does not.                                 *)
EXTENDS Projections

CONSTANTS x1, x2, b1, b2, w1, w2

MCExpenses == {x1, x2}
MCBudgets  == {b1, b2}
MCWorkers  == {w1, w2}

Eve == Date(2024, 12, 31)

Bill(category, currency, amount, day) ==
    [category |-> category, currency |-> currency, amount |-> amount, day |-> day,
     tags |-> IF amount > 50 THEN <<"home", "out", "home">> ELSE <<>>]
Limit(category, period) ==
    [category |-> category, currency |-> "EUR", limit |-> 100, threshold |-> 80,
     period |-> period, created |-> 0, due |-> 0]

Do(op, on, body) == [op |-> op, on |-> on, body |-> body]
Tomorrow         == Do("tomorrow", 0, 0)

(* Edits across categories, days and currencies, a removal, a repeat. *)
Counting ==
    [registered |-> {"analytics", "audit"}, today |-> Eve, faults |-> 0,
     commands |-> {Do("add", x1, Bill("food", "EUR", 90, Eve)),
                   Do("update", x1, Bill("rent", "EUR", 90, Eve + 1)),
                   Do("remove", x1, 0),
                   Do("add", x2, Bill("none", "EUR", 50, Eve)),
                   Do("update", x2, Bill("food", "EUR", 50, Eve)), Tomorrow}]

(* Two expenses of one budget, handled at once. *)
Crossing ==
    [registered |-> {"budget_usage"}, today |-> Eve, faults |-> 0,
     commands |-> {Do("add", b1, Limit("food", "weekly")),
                   Do("add", x1, Bill("food", "EUR", 90, Eve)),
                   Do("update", x1, Bill("food", "EUR", 50, Eve)),
                   Do("add", x2, Bill("food", "EUR", 50, Eve + 1)),
                   Do("remove", x2, 0)}]

(* Two budgets of one category: each transaction writes two rows. *)
Locking ==
    [registered |-> {"budget_usage"}, today |-> Eve, faults |-> 1,
     commands |-> {Do("add", b1, Limit("food", "monthly")),
                   Do("add", b2, Limit("food", "yearly")),
                   Do("add", x1, Bill("food", "EUR", 90, Eve)),
                   Do("add", x2, Bill("food", "EUR", 50, Eve))}]

(* A budget that is edited and removed while expenses arrive. *)
Editing ==
    [registered |-> {"budget_usage"}, today |-> Eve, faults |-> 0,
     commands |-> {Do("add", b1, Limit("food", "monthly")),
                   Do("update", b1, Limit("rent", "custom")),
                   Do("remove", b1, 0),
                   Do("add", x1, Bill("food", "EUR", 90, Eve)),
                   Do("update", x1, Bill("rent", "EUR", 90, Eve + 1)), Tomorrow}]

(* Both read models of one week, in two currencies. *)
Comparing ==
    [registered |-> {"analytics", "budget_usage"}, today |-> Eve, faults |-> 1,
     commands |-> {Do("add", b1, Limit("food", "weekly")),
                   Do("add", x1, Bill("food", "EUR", 90, Eve + 1)),
                   Do("add", x2, Bill("food", "USD", 50, Eve))}]

(* The usage subscription is registered when there is a history. *)
Replaying ==
    [registered |-> {}, today |-> Eve, faults |-> 1,
     commands |-> {Do("register", "budget_usage", 0),
                   Do("add", b1, Limit("food", "weekly")),
                   Do("add", x1, Bill("food", "EUR", 90, Eve)),
                   Do("update", x1, Bill("food", "EUR", 40, Eve)),
                   Do("add", x2, Bill("food", "EUR", 50, Eve + 1))}]

(* A budget is removed while its expenses are being handled. *)
Dropping ==
    [registered |-> {"budget_usage"}, today |-> Eve, faults |-> 1,
     commands |-> {Do("add", b1, Limit("food", "weekly")), Do("remove", b1, 0),
                   Do("add", x1, Bill("food", "EUR", 90, Eve)),
                   Do("add", x2, Bill("food", "EUR", 5, Eve))}]

MCScenarios == {Counting, Crossing, Locking, Editing, Comparing, Replaying, Dropping}
=============================================================================
