----------------------------- MODULE Projections -----------------------------
(***************************************************************************)
(* The three outbox subscriptions - analytics, budget_usage and audit - the *)
(* commands that feed them and the dashboard that reads them.               *)
(*                                                                         *)
(* A command commits its row and its event together (EventStore), and each  *)
(* subscription gets every aggregate's events in order (OrderedDelivery).   *)
(* What a handler writes commits together with the delivery.  The analytics *)
(* handler only adds to buckets and the audit handler only inserts, so      *)
(* their deliveries are single steps.  The budget usage handler reads a sum *)
(* and writes it back, so its transaction takes one step per statement: two *)
(* workers may handle two expenses of one budget at once, each blind to     *)
(* what the other has not committed, and a row written by one blocks the    *)
(* other until it commits.                                                 *)
(*                                                                         *)
(* There is one owner; sharing is in Sharing.  A delivery the handler       *)
(* rejects changes nothing and holds back its aggregate alone (Outbox).     *)
(***************************************************************************)
EXTENDS Calendar, Sequences, FiniteSetsExt

CONSTANTS
    Expenses, Budgets,  \* aggregates
    Workers,            \* workers of the budget_usage engines
    Scenarios,          \* subscriptions, commands, first day and faults already used up
    MaxFaults           \* bound on aborted transactions and repeated deliveries

VARIABLES
    today,
    commands,       \* commands still to arrive
    events,         \* event stream of each aggregate
    budgets,        \* budgets.budgets
    registered,     \* subscriptions that exist
    replayUpTo,     \* events of each aggregate that were backfilled, by subscription
    delivered,      \* events delivered, by subscription and aggregate
    contributions,  \* analytics.expense_contributions
    rollups,        \* analytics.expense_rollups and tag_expense_rollups
    mirror,         \* budgets.expense_contributions
    usage,          \* budgets.budget_usage
    entries,        \* audit.entries
    tx,             \* transaction of each budget_usage worker
    faults,
    history         \* of each usage row: the budget version it was computed for, whether
                    \* it is stale, and, since spend was last below the threshold, the
                    \* rungs mailed, how often a crossed transaction wrote it, and
                    \* whether a replay raised it

Aggregates    == Expenses \cup Budgets
Subscriptions == {"analytics", "budget_usage", "audit"}

(* What the commands let through: an expense has a date, an amount in minor *)
(* units that is not negative (validateExpense) and the tags of the request *)
(* as they were listed, repeats included; a budget every field that its row *)
(* has.                                                                     *)
Carries(c, aggregates) == c.op \in {"add", "update"} /\ c.on \in aggregates

ASSUME ProjectionsAssumption ==
    /\ IsFiniteSet(Expenses) /\ IsFiniteSet(Budgets) /\ Expenses \cap Budgets = {}
    /\ \A s \in Scenarios :
          /\ s.today \in Int /\ s.registered \subseteq Subscriptions
          /\ \A c \in s.commands :
                /\ c.op = "register" => c.on \in Subscriptions
                /\ Carries(c, Expenses) => /\ c.body.amount \in Nat /\ c.body.day \in Int
                                           /\ IsFiniteSet(DOMAIN c.body.tags)
                /\ Carries(c, Budgets) =>
                      c.body \in [category : {c.body.category}, currency : {c.body.currency},
                                  limit : Int, threshold : Int, period : {c.body.period},
                                  created : Int, due : Int]

readModels == <<contributions, rollups, mirror, usage, entries>>
vars == <<today, commands, events, budgets, registered, replayUpTo, delivered,
          readModels, tx, faults, history>>

NoRow         == [found |-> FALSE]
Idle          == [busy |-> FALSE]
Uncategorized == "none"

(* The sum of what a function gives for the members of its domain. *)
Sum(f) == FoldFunction(+, 0, f)

AggregateTypes(s) == IF s = "analytics" THEN Expenses ELSE Aggregates

-----------------------------------------------------------------------------
(* Decoding. *)

Live(a) == events[a] # <<>> /\ events[a][Len(events[a])].type # "removed"

(* What the next delivery of an aggregate carries: the expense as it is to *)
(* be counted, with its amounts gone when it is a removal.                 *)
DecodeExpenseContribution(e) ==
    IF e.type = "removed" THEN [found |-> TRUE, active |-> FALSE]
    ELSE [found |-> TRUE, active |-> TRUE, body |-> e.body]

(* Both spellings of a removal name the budget and nothing else. *)
DecodeBudget(e) == [removed |-> e.type = "removed"]

NextEvent(s, a) == events[a][delivered[s][a] + 1]
HasNext(s, a)   == /\ s \in registered /\ a \in AggregateTypes(s)
                   /\ delivered[s][a] < Len(events[a])
Replay(s, a)    == delivered[s][a] < replayUpTo[s][a]
Advance(s, a)   == delivered' = [delivered EXCEPT ![s][a] = @ + 1]

-----------------------------------------------------------------------------
(* Analytics: reverse what was counted for the expense, count it anew. *)

Bucket(c, dimension, id, period) ==
    [dimension |-> dimension, id |-> id, currency |-> c.currency, period |-> period,
     start |-> RollupPeriodStart(period, c.day)]

Buckets(c) ==
    UNION {{Bucket(c, "category", c.category, p)}
              \cup {Bucket(c, "tag", c.tags[i], p) : i \in DOMAIN c.tags} : p \in AnalyticsPeriods}

(* How often a bucket is adjusted: once for the category, and once for each *)
(* time the list names the tag.                                             *)
Times(c, k) ==
    IF k.dimension = "category" THEN 1
    ELSE Cardinality({i \in DOMAIN c.tags : c.tags[i] = k.id})

AmountFor(c, k) == Times(c, k) * c.amount

AmountIn(r, k) == IF k \in DOMAIN r THEN r[k].amount ELSE 0
CountIn(r, k)  == IF k \in DOMAIN r THEN r[k].count ELSE 0

adjust(r, c, direction) ==
    LET touched == Buckets(c)
    IN  [k \in DOMAIN r \cup touched |->
            IF k \in touched
            THEN [amount |-> AmountIn(r, k) + direction * AmountFor(c, k),
                  count  |-> CountIn(r, k) + direction * Times(c, k)]
            ELSE r[k]]

validateContribution(c) == c.category # Uncategorized

\* Mutated form of Reverse: a tombstone is reversed once more.
ReverseFound(previous) ==
    IF previous.found THEN adjust(rollups, previous.body, -1) ELSE rollups

Reverse(previous) ==
    IF previous.found /\ previous.active THEN adjust(rollups, previous.body, -1) ELSE rollups

(* Handle: nothing is kept of a delivery whose contribution is rejected. *)
AnalyticsHandle(x, event) ==
    LET previous == contributions[x]
        next     == DecodeExpenseContribution(event)
    IN  \/ /\ next.active
           /\ validateContribution(next.body)
           /\ rollups' = adjust(Reverse(previous), next.body, 1)
           /\ contributions' = [contributions EXCEPT ![x] = next]
        \/ /\ ~next.active
           /\ rollups' = Reverse(previous)
           /\ contributions' = IF previous.found
                               THEN [contributions EXCEPT ![x].active = FALSE]
                               ELSE contributions

DeliverAnalytics(x) ==
    /\ HasNext("analytics", x)
    /\ AnalyticsHandle(x, NextEvent("analytics", x))
    /\ Advance("analytics", x)
    /\ UNCHANGED <<today, commands, events, budgets, registered, replayUpTo, mirror, usage,
                   entries, tx, faults, history>>

(* The last event once more, as after a commit whose answer was lost. *)
RedeliverAnalytics(x) ==
    /\ faults < MaxFaults /\ "analytics" \in registered /\ delivered["analytics"][x] > 0
    /\ AnalyticsHandle(x, events[x][delivered["analytics"][x]])
    /\ faults' = faults + 1
    /\ UNCHANGED <<today, commands, events, budgets, registered, replayUpTo, delivered, mirror,
                   usage, entries, tx, history>>

-----------------------------------------------------------------------------
(* Audit: one entry for each event, keyed by the event. *)

EntryFor(a, n) == [event |-> <<a, n>>, action |-> events[a][n].type, resource |-> a]

\* Mutated form of AppendEntry: the conflict clause is gone.
AppendAlways(entry) == entries' = Append(entries, entry)

AppendEntry(entry) ==
    entries' = IF \E i \in DOMAIN entries : entries[i].event = entry.event
               THEN entries ELSE Append(entries, entry)

DeliverAudit(a) ==
    /\ HasNext("audit", a)
    /\ AppendEntry(EntryFor(a, delivered["audit"][a] + 1))
    /\ Advance("audit", a)
    /\ UNCHANGED <<today, commands, events, budgets, registered, replayUpTo, contributions,
                   rollups, mirror, usage, tx, faults, history>>

RedeliverAudit(a) ==
    /\ faults < MaxFaults /\ "audit" \in registered /\ delivered["audit"][a] > 0
    /\ AppendEntry(EntryFor(a, delivered["audit"][a]))
    /\ faults' = faults + 1
    /\ UNCHANGED <<today, commands, events, budgets, registered, replayUpTo, delivered,
                   contributions, rollups, mirror, usage, tx, history>>

-----------------------------------------------------------------------------
(* Budget usage. *)

ListBudgetsForCategory(category) ==
    {b \in Budgets : budgets[b].found /\ budgets[b].body.category = category}

Window(b, at) == [budget |-> b, start |-> BudgetWindow(budgets[b].body, at).from]

\* Mutated form of affectedWindows: the windows an edit leaves are forgotten.
EnteredWindows(previous, next) ==
    UNION {{Window(b, c.body.day) : b \in ListBudgetsForCategory(c.body.category)} :
           c \in {d \in {next} : d.found /\ d.body.category # Uncategorized}}

(* The windows an edit leaves and the ones it enters. *)
affectedWindows(previous, next) ==
    UNION {{Window(b, c.body.day) : b \in ListBudgetsForCategory(c.body.category)} :
           c \in {d \in {previous, next} : d.found /\ d.body.category # Uncategorized}}

SumContributions(m, category, from, to) ==
    LET rows == {x \in Expenses : /\ m[x].found /\ m[x].active
                                  /\ m[x].body.category = category
                                  /\ m[x].body.day >= from /\ m[x].body.day < to}
    IN  Sum([x \in rows |-> m[x].body.amount])

(* The sum a window has in a mirror, for the budget as it was read. *)
SpentIn(m, body, start) ==
    SumContributions(m, body.category, start, BudgetWindow(body, start).to)

Percent(body, spent) == (spent * 100) \div body.limit

Rung(body, spent) ==
    CASE Percent(body, spent) >= 100            -> 100
      [] Percent(body, spent) >= body.threshold /\ Percent(body, spent) < 100 -> body.threshold
      [] OTHER                                  -> 0

BudgetThresholdCrossing(body, alerted, spent) == Rung(body, spent) > alerted

\* Mutated form of AlertedPercentFor: the record falls with the spend.
AlertedFalls(body, alerted, spent) == Rung(body, spent)

AlertedPercentFor(body, alerted, spent) ==
    CASE Percent(body, spent) >= 100 -> 100
      [] Percent(body, spent) >= body.threshold /\ Percent(body, spent) < 100 ->
             Max({alerted, body.threshold})
      [] OTHER -> 0

NoUsage      == [spent |-> 0, alerted |-> 0]
LoadUsage(k) == IF k \in DOMAIN usage THEN usage[k] ELSE NoUsage

InFlight(a)   == \E w \in Workers : tx[w].busy /\ tx[w].aggregate = a
(* A row another transaction has written is locked until that one ends. *)
Locked(w, k)  == \E v \in Workers \ {w} : tx[v].busy /\ k \in DOMAIN tx[v].writes

Open(w, a, own, windows) ==
    tx' = [tx EXCEPT ![w] =
             [busy |-> TRUE, aggregate |-> a, replay |-> Replay("budget_usage", a),
              own |-> own, drop |-> FALSE, stale |-> {},
              todo |-> {[key |-> k, body |-> budgets[k.budget].body,
                         version |-> Len(events[k.budget])] : k \in windows},
              read |-> Idle, writes |-> <<>>]]

(* handleExpense up to the first sum: the contribution is saved, and the    *)
(* budgets of its old and of its new category are listed.                  *)
BeginExpense(w, x) ==
    LET previous == mirror[x]
        decoded  == DecodeExpenseContribution(NextEvent("budget_usage", x))
        next     == IF decoded.active THEN decoded
                    ELSE IF previous.found THEN [previous EXCEPT !.active = FALSE] ELSE NoRow
    IN  /\ ~tx[w].busy /\ HasNext("budget_usage", x) /\ ~InFlight(x)
        /\ Open(w, x, next, affectedWindows(previous, next))
        /\ UNCHANGED <<today, commands, events, budgets, registered, replayUpTo, delivered,
                       readModels, faults, history>>

(* handleBudget: the budget is read again, not taken from the event. *)
BeginBudget(w, b) ==
    /\ ~tx[w].busy /\ HasNext("budget_usage", b) /\ ~InFlight(b)
    /\ LET gone == DecodeBudget(NextEvent("budget_usage", b)).removed \/ ~budgets[b].found
       IN  IF gone
           THEN tx' = [tx EXCEPT ![w] =
                         [busy |-> TRUE, aggregate |-> b, replay |-> Replay("budget_usage", b),
                          own |-> NoRow, drop |-> TRUE, stale |-> {}, todo |-> {},
                          read |-> Idle, writes |-> <<>>]]
           ELSE Open(w, b, NoRow, {Window(b, today)})
    /\ UNCHANGED <<today, commands, events, budgets, registered, replayUpTo, delivered,
                   readModels, faults, history>>

(* The mirror as a transaction sees it: what is committed, and its own row. *)
Seen(w) == IF tx[w].own.found THEN [mirror EXCEPT ![tx[w].aggregate] = tx[w].own] ELSE mirror

(* recompute: the sum is read, ... *)
ReadSum(w) ==
    /\ tx[w].busy /\ ~tx[w].read.busy
    /\ \E t \in tx[w].todo :
          tx' = [tx EXCEPT ![w].todo = @ \ {t},
                           ![w].read = [busy |-> TRUE, key |-> t.key, body |-> t.body,
                                        version |-> t.version,
                                        spent |-> SpentIn(Seen(w), t.body, t.key.start),
                                        loaded |-> FALSE, stored |-> NoUsage]]
    /\ UNCHANGED <<today, commands, events, budgets, registered, replayUpTo, delivered,
                   readModels, faults, history>>

(* ... then the stored row, by a statement of its own that may see more, ... *)
ReadUsage(w) ==
    /\ tx[w].busy /\ tx[w].read.busy /\ ~tx[w].read.loaded
    /\ tx' = [tx EXCEPT ![w].read.loaded = TRUE, ![w].read.stored = LoadUsage(tx[w].read.key)]
    /\ UNCHANGED <<today, commands, events, budgets, registered, replayUpTo, delivered,
                   readModels, faults, history>>

(* ... and the row is written, with the alert queued beside it. *)
SaveUsage(w) ==
    LET r    == tx[w].read
        line == [spent |-> r.spent,
                 alerted |-> AlertedPercentFor(r.body, r.stored.alerted, r.spent),
                 version |-> r.version,
                 below |-> Rung(r.body, r.spent) = 0,
                 mail |-> IF /\ BudgetThresholdCrossing(r.body, r.stored.alerted, r.spent)
                             /\ ~tx[w].replay
                          THEN <<Rung(r.body, r.spent)>> ELSE <<>>]
    IN  /\ tx[w].busy /\ r.busy /\ r.loaded /\ ~Locked(w, r.key)
        /\ tx' = [tx EXCEPT ![w].read = Idle,
                            ![w].writes = [k \in DOMAIN @ \cup {r.key} |->
                                             IF k = r.key THEN line ELSE @[k]]]
        /\ UNCHANGED <<today, commands, events, budgets, registered, replayUpTo, delivered,
                       readModels, faults, history>>

(* Windows whose sum the transaction changes, for the budgets as they are. *)
Moved(w) ==
    IF tx[w].own.found THEN affectedWindows(mirror[tx[w].aggregate], tx[w].own) ELSE {}

Written(v) == DOMAIN tx[v].writes \cup (IF tx[v].read.busy THEN {tx[v].read.key} ELSE {})

HistoryOf(w, k) ==
    LET line == tx[w].writes[k]
        old  == IF k \in DOMAIN history THEN history[k]
                ELSE [mails |-> <<>>, crossed |-> 0, replayed |-> FALSE]
    IN  [version |-> line.version, stale |-> k \in tx[w].stale,
         crossed |-> IF line.below THEN 0
                     ELSE old.crossed + (IF k \in tx[w].stale THEN 1 ELSE 0),
         replayed |-> (old.replayed \/ tx[w].replay) /\ ~line.below,
         mails |-> IF line.below THEN <<>> ELSE old.mails \o line.mail]

Commit(w) ==
    LET a     == tx[w].aggregate
        mine  == DOMAIN tx[w].writes
        moved == Moved(w)
    IN  /\ tx[w].busy /\ tx[w].todo = {} /\ ~tx[w].read.busy /\ ~tx[w].drop
        /\ mirror' = Seen(w)
        /\ usage' = [k \in DOMAIN usage \cup mine |->
                        IF k \in mine THEN [spent |-> tx[w].writes[k].spent,
                                            alerted |-> tx[w].writes[k].alerted]
                        ELSE usage[k]]
        /\ history' = [k \in DOMAIN usage \cup mine |->
                        IF k \in mine THEN HistoryOf(w, k)
                        ELSE IF k \in moved THEN [history[k] EXCEPT !.stale = TRUE]
                        ELSE history[k]]
        /\ tx' = [v \in Workers |->
                    IF v = w THEN Idle
                    ELSE IF tx[v].busy
                    THEN [tx[v] EXCEPT !.stale = @ \cup (Written(v) \cap (mine \cup moved))]
                    ELSE tx[v]]
        /\ Advance("budget_usage", a)
        /\ UNCHANGED <<today, commands, events, budgets, registered, replayUpTo, contributions,
                       rollups, entries, faults>>

(* DeleteUsage waits for the rows other transactions hold, then commits. *)
DeleteUsage(w) ==
    LET b    == tx[w].aggregate
        kept == {k \in DOMAIN usage : k.budget # b}
    IN  /\ tx[w].busy /\ tx[w].drop
        /\ \A k \in DOMAIN usage \ kept : ~Locked(w, k)
        /\ usage' = [k \in kept |-> usage[k]]
        /\ history' = [k \in kept |-> history[k]]
        /\ tx' = [v \in Workers |->
                    IF v = w THEN Idle
                    ELSE IF tx[v].busy
                    THEN [tx[v] EXCEPT !.stale = @ \cup (Written(v) \cap (DOMAIN usage \ kept))]
                    ELSE tx[v]]
        /\ Advance("budget_usage", b)
        /\ UNCHANGED <<today, commands, events, budgets, registered, replayUpTo, contributions,
                       rollups, mirror, entries, faults>>

(* A statement fails: the outbox delivers the event again. *)
Abort(w) ==
    /\ tx[w].busy /\ faults < MaxFaults
    /\ faults' = faults + 1
    /\ tx' = [tx EXCEPT ![w] = Idle]
    /\ UNCHANGED <<today, commands, events, budgets, registered, replayUpTo, delivered,
                   readModels, history>>

(* Two transactions wait for a row of one another: PostgreSQL ends one. *)
DeadlockVictim(w) ==
    /\ tx[w].busy /\ tx[w].read.busy /\ tx[w].read.loaded
    /\ \E v \in Workers \ {w} : /\ tx[v].busy /\ tx[v].read.busy /\ tx[v].read.loaded
                                /\ tx[v].read.key \in DOMAIN tx[w].writes
                                /\ tx[w].read.key \in DOMAIN tx[v].writes
    /\ tx' = [tx EXCEPT ![w] = Idle]
    /\ UNCHANGED <<today, commands, events, budgets, registered, replayUpTo, delivered,
                   readModels, faults, history>>

-----------------------------------------------------------------------------
(* Commands: the row and the event commit together. *)

Take(c) == c \in commands /\ commands' = commands \ {c}
Emit(a, event) == events' = [events EXCEPT ![a] = Append(@, event)]

AddExpense(c) ==
    /\ c.op = "add" /\ Take(c) /\ c.on \in Expenses /\ events[c.on] = <<>>
    /\ Emit(c.on, [type |-> "added", body |-> c.body])
    /\ UNCHANGED <<today, budgets, registered, replayUpTo, delivered, readModels, tx, faults,
                   history>>

UpdateExpense(c) ==
    /\ c.op = "update" /\ Take(c) /\ c.on \in Expenses /\ Live(c.on)
    /\ Emit(c.on, [type |-> "updated", body |-> c.body])
    /\ UNCHANGED <<today, budgets, registered, replayUpTo, delivered, readModels, tx, faults,
                   history>>

DeleteExpense(c) ==
    /\ c.op = "remove" /\ Take(c) /\ c.on \in Expenses /\ Live(c.on)
    /\ Emit(c.on, [type |-> "removed"])
    /\ UNCHANGED <<today, budgets, registered, replayUpTo, delivered, readModels, tx, faults,
                   history>>

validateBudget(body) ==
    /\ body.category # Uncategorized /\ body.limit > 0
    /\ body.threshold \in 1 .. 100 /\ body.period \in BudgetPeriods

CreateBudget(c) ==
    /\ c.op = "add" /\ Take(c) /\ c.on \in Budgets /\ events[c.on] = <<>>
    /\ validateBudget(c.body)
    /\ budgets' = [budgets EXCEPT ![c.on] =
                     [found |-> TRUE, body |-> [c.body EXCEPT !.created = today]]]
    /\ Emit(c.on, [type |-> "created", body |-> c.body])
    /\ UNCHANGED <<today, registered, replayUpTo, delivered, readModels, tx, faults, history>>

UpdateBudget(c) ==
    /\ c.op = "update" /\ Take(c) /\ c.on \in Budgets /\ budgets[c.on].found
    /\ validateBudget(c.body)
    /\ budgets' = [budgets EXCEPT ![c.on].body = [c.body EXCEPT !.created = budgets[c.on].body.created]]
    /\ Emit(c.on, [type |-> "updated", body |-> c.body])
    /\ UNCHANGED <<today, registered, replayUpTo, delivered, readModels, tx, faults, history>>

DeleteBudget(c) ==
    /\ c.op = "remove" /\ Take(c) /\ c.on \in Budgets /\ budgets[c.on].found
    /\ budgets' = [budgets EXCEPT ![c.on] = NoRow]
    /\ Emit(c.on, [type |-> "removed"])
    /\ UNCHANGED <<today, registered, replayUpTo, delivered, readModels, tx, faults, history>>

(* A day passes. *)
NextDay(c) ==
    /\ c.op = "tomorrow" /\ Take(c)
    /\ today' = today + 1
    /\ UNCHANGED <<events, budgets, registered, replayUpTo, delivered, readModels, tx, faults,
                   history>>

(* EnsureSubscription: what is in the store is backfilled as a replay. *)
Register(c) ==
    /\ c.op = "register" /\ Take(c) /\ c.on \notin registered
    /\ registered' = registered \cup {c.on}
    /\ replayUpTo' = [replayUpTo EXCEPT ![c.on] = [a \in Aggregates |-> Len(events[a])]]
    /\ UNCHANGED <<today, events, budgets, delivered, readModels, tx, faults, history>>

-----------------------------------------------------------------------------
Init ==
    /\ \E s \in Scenarios : /\ registered = s.registered /\ commands = s.commands
                             /\ today = s.today /\ faults = s.faults
    /\ events = [a \in Aggregates |-> <<>>]
    /\ budgets = [b \in Budgets |-> NoRow]
    /\ replayUpTo = [s \in Subscriptions |-> [a \in Aggregates |-> 0]]
    /\ delivered = [s \in Subscriptions |-> [a \in Aggregates |-> 0]]
    /\ contributions = [x \in Expenses |-> NoRow] /\ rollups = <<>>
    /\ mirror = [x \in Expenses |-> NoRow] /\ usage = <<>>
    /\ entries = <<>>
    /\ tx = [w \in Workers |-> Idle] /\ history = <<>>

Command(c) ==
    \/ AddExpense(c) \/ UpdateExpense(c) \/ DeleteExpense(c)
    \/ CreateBudget(c) \/ UpdateBudget(c) \/ DeleteBudget(c)
    \/ NextDay(c) \/ Register(c)

Project ==
    \/ \E x \in Expenses : DeliverAnalytics(x)
    \/ \E a \in Aggregates : DeliverAudit(a)
    \/ \E w \in Workers, x \in Expenses : BeginExpense(w, x)
    \/ \E w \in Workers, b \in Budgets : BeginBudget(w, b)
    \/ \E w \in Workers : ReadSum(w) \/ ReadUsage(w) \/ SaveUsage(w) \/ Commit(w)
                            \/ DeleteUsage(w) \/ DeadlockVictim(w)

Fault ==
    \/ \E x \in Expenses : RedeliverAnalytics(x)
    \/ \E a \in Aggregates : RedeliverAudit(a)
    \/ \E w \in Workers : Abort(w)

HeldBack(s, a) ==
    /\ s = "analytics" /\ NextEvent(s, a).type # "removed"
    /\ ~validateContribution(NextEvent(s, a).body)

CaughtUp ==
    {d \in registered \X Aggregates : HasNext(d[1], d[2]) /\ ~HeldBack(d[1], d[2])} = {}

(* Nothing to do: everything delivered but the events analytics holds back, *)
(* the ones of an expense filed without a category.  TLC's deadlock check   *)
(* finds every other standstill, two transactions waiting for each other    *)
(* among them.                                                             *)
Rest == CaughtUp /\ (\A w \in Workers : ~tx[w].busy) /\ UNCHANGED vars

Next == (\E c \in commands : Command(c)) \/ Project \/ Fault \/ Rest

Spec == Init /\ [][Next]_vars

-----------------------------------------------------------------------------
(* The dashboard: AnalyticsService over the rollups. *)

\* Mutated form of ListExpenseRollups: the last bucket is left out.
ExclusiveEnd(period, from, to) ==
    {k \in DOMAIN rollups : /\ k.dimension = "category" /\ k.period = period
                            /\ k.start >= from /\ k.start < to}

(* ListExpenseRollups by category: rows with period_start in [from, to]. *)
ListExpenseRollups(period, from, to) ==
    {k \in DOMAIN rollups : /\ k.dimension = "category" /\ k.period = period
                            /\ k.start >= from /\ k.start <= to}

Total(rows) == Sum([k \in rows |-> rollups[k].amount])
Count(rows) == Sum([k \in rows |-> rollups[k].count])

currencies(rows) == {k.currency : k \in rows}
sumByCurrency(rows) ==
    [c \in currencies(rows) |-> Total({k \in rows : k.currency = c})]

At(f, c) == IF c \in DOMAIN f THEN f[c] ELSE 0

ComparePeriods(period) ==
    LET current  == RollupPeriodStart(period, today)
        previous == previousPeriodStart(period, current)
        now      == sumByCurrency(ListExpenseRollups(period, current, current))
        before   == sumByCurrency(ListExpenseRollups(period, previous, previous))
    IN  [c \in DOMAIN now \cup DOMAIN before |->
            [current |-> At(now, c), previous |-> At(before, c)]]

TopCategoryChanges(period, limit) ==
    LET current == ListExpenseRollups(period, RollupPeriodStart(period, today),
                                              RollupPeriodStart(period, today))
        start   == previousPeriodStart(period, RollupPeriodStart(period, today))
        before  == ListExpenseRollups(period, start, start)
        Of(rows, g) == {k \in rows : k.id = g.id /\ k.currency = g.currency}
        changes == {[id |-> g.id, currency |-> g.currency,
                     current |-> Total(Of(current, g)), previous |-> Total(Of(before, g)),
                     count |-> Count(Of(current, g))] : g \in current \cup before}
    IN  CHOOSE top \in SUBSET changes :
           /\ Cardinality(top) = Min({limit, Cardinality(changes)})
           /\ \A x \in top, y \in changes \ top : x.current >= y.current

BurnRate(period) ==
    LET start   == RollupPeriodStart(period, today)
        total   == Max({1, periodEnd(period, start) - start})
        elapsed == Max({1, Min({today - start + 1, total})})
        spent   == sumByCurrency(ListExpenseRollups(period, start, start))
        limits  == {b \in Budgets : /\ budgets[b].found
                                    /\ budgets[b].body.period = budgetPeriodFor(period)}
    IN  [c \in DOMAIN spent \cup {budgets[b].body.currency : b \in limits} |->
            [spent |-> At(spent, c), elapsed |-> elapsed, total |-> total,
             projected |-> (At(spent, c) \div elapsed) * total,
             expected |-> Sum([b \in {b \in limits : budgets[b].body.currency = c} |->
                                budgets[b].body.limit])]]

DailyTotals(from, to) ==
    LET rows == ListExpenseRollups("day", from, to)
    IN  {[day |-> g.start, currency |-> g.currency,
          amount |-> Total({k \in rows : k.start = g.start /\ k.currency = g.currency}),
          count |-> Count({k \in rows : k.start = g.start /\ k.currency = g.currency})] : g \in rows}

WeekdayBreakdown(from, to) ==
    LET rows == ListExpenseRollups("day", from, to)
        Of(d, c) == {k \in rows : Weekday(k.start) = d /\ k.currency = c}
    IN  {[weekday |-> d, currency |-> c, amount |-> Total(Of(d, c)), count |-> Count(Of(d, c))] :
         d \in 0 .. 6, c \in currencies(rows)}

\* Mutated form of BudgetProgress: amounts of every currency are added up.
AnyCurrency(b) ==
    LET body   == budgets[b].body
        window == BudgetWindow(body, today)
        rows   == {k \in ListExpenseRollups("day", window.from, window.to - 1) :
                      k.id = body.category}
    IN  [start |-> window.from, spent |-> Total(rows), percent |-> Percent(body, Total(rows))]

BudgetProgress(b) ==
    LET body   == budgets[b].body
        window == BudgetWindow(body, today)
        rows   == {k \in ListExpenseRollups("day", window.from, window.to - 1) :
                      k.id = body.category /\ k.currency = body.currency}
    IN  [start |-> window.from, spent |-> Total(rows), percent |-> Percent(body, Total(rows))]

ListBudgetSuggestions ==
    LET rows == ListExpenseRollups("month", RollupPeriodStart("month", today), today)
        Spent(b) == Total({k \in rows : k.id = budgets[b].body.category})
    IN  {[budget |-> b, spent |-> Spent(b)] :
         b \in {b \in Budgets : /\ budgets[b].found
                                /\ Percent(budgets[b].body, Spent(b)) >= budgets[b].body.threshold}}

-----------------------------------------------------------------------------
(* Properties. *)

(* The expense as its last event delivered to a subscription left it. *)
Counted(s) ==
    {x \in Expenses : delivered[s][x] > 0 /\ events[x][delivered[s][x]].type # "removed"}
BodyAt(s, x) == events[x][delivered[s][x]].body

(* Every bucket of every granularity holds the amounts and the number of   *)
(* exactly the expenses whose latest delivered event still counts them,    *)
(* each as often as its list of tags names the bucket, after any sequence  *)
(* of edits, removals, repeats and replays - the promise of reversing "the  *)
(* exact amounts, category and tags" once counted.                         *)
RollupsAgree ==
    LET live  == Counted("analytics")
        where == [x \in live |-> Buckets(BodyAt("analytics", x))]
        In(k) == {x \in live : k \in where[x]}
    IN  \A k \in DOMAIN rollups \cup UNION {where[x] : x \in live} :
           /\ AmountIn(rollups, k) = Sum([x \in In(k) |-> AmountFor(BodyAt("analytics", x), k)])
           /\ CountIn(rollups, k) = Sum([x \in In(k) |-> Times(BodyAt("analytics", x), k)])

(* A stored window equals the sum of the mirrored expenses in it, for the  *)
(* budget as it stands, unless two transactions crossed: recompute totals  *)
(* "rather than adjusts", so only a crossing may leave it wrong, and only  *)
(* until the next event of that window.                                    *)
UsageAgrees ==
    \A k \in DOMAIN usage :
       (budgets[k.budget].found /\ history[k].version = Len(events[k.budget]) /\ ~history[k].stale)
         => usage[k].spent = SpentIn(mirror, budgets[k.budget].body, k.start)

(* Since the spend of a window was last below the threshold, the owner was *)
(* mailed each rung at most once, in rising order, up to the one recorded; *)
(* a replay records a rung without mailing it.  Each transaction that read *)
(* the window before another one wrote it may repeat a rung once more,     *)
(* although AlertedPercent is there for "suppressing repeat alerts until   *)
(* spend falls back below it"; nothing else does (recompute,               *)
(* AlertedPercentFor).                                                     *)
AlertsTrue ==
    \A k \in DOMAIN usage :
       LET mails   == history[k].mails
           crossed == history[k].crossed
           last    == IF mails = <<>> THEN 0 ELSE mails[Len(mails)]
       IN  /\ \A r \in 1 .. 100 : Cardinality({i \in DOMAIN mails : mails[i] = r}) <= 1 + crossed
           /\ crossed = 0 =>
                 /\ \A i, j \in DOMAIN mails : i < j => mails[i] < mails[j]
                 /\ last <= usage[k].alerted
                 /\ history[k].replayed \/ last = usage[k].alerted

(* The audit trail has exactly one entry for each event delivered to it.   *)
AuditComplete ==
    /\ \A a \in Aggregates : \A n \in 1 .. delivered["audit"][a] :
          Cardinality({i \in DOMAIN entries : entries[i].event = <<a, n>>}) = 1
    /\ Len(entries) = Sum(delivered["audit"])

(* What the two event-driven ledgers hold is what was delivered to them,    *)
(* each event exactly once: AnalyticsProjection.Handle, AuditProjection.Handle. *)
LedgersAgree == RollupsAgree /\ AuditComplete

(* The dashboard's views agree with one another at every moment: the days  *)
(* of a period add up to its bucket, the weekdays to the days, the         *)
(* categories to the total, and the burn rate extrapolates that total.     *)
DashboardAgrees ==
    \A period \in AnalyticsPeriods :
       LET start == RollupPeriodStart(period, today)
           end   == periodEnd(period, start)
           days  == DailyTotals(start, end - 1)
           Amounts(S) == Sum([x \in S |-> x.amount])
           compare == ComparePeriods(period)
           Current(c) == IF c \in DOMAIN compare THEN compare[c].current ELSE 0
           Of(S, c)   == {x \in S : x.currency = c}
       IN  /\ start <= today /\ today < end
           /\ \A c \in DOMAIN compare \cup {d.currency : d \in days} :
                 /\ Current(c) = Amounts(Of(days, c))
                 /\ Current(c) = Amounts(Of(WeekdayBreakdown(start, end - 1), c))
                 /\ Current(c) = Sum([x \in Of(TopCategoryChanges(period, 50), c) |-> x.current])
           /\ \A c \in DOMAIN BurnRate(period) :
                 LET rate == BurnRate(period)[c]
                 IN  /\ rate.spent = Current(c)
                     /\ rate.elapsed \in 1 .. rate.total
                     /\ rate.elapsed = rate.total => rate.projected <= rate.spent
           /\ \A s \in ListBudgetSuggestions :
                 period = "month" => s.spent <= Sum([c \in DOMAIN compare |-> Current(c)])

(* Once both subscriptions have caught up, the progress bar and the usage  *)
(* row that triggers the alerts differ by the spend in other currencies,   *)
(* which BudgetProgress leaves out and SumContributions counts, and by     *)
(* nothing else: for windows that begin and end at midnight, as all do but *)
(* those of a custom budget due at a time of day, whose last day differs.  *)
ProgressAgrees ==
    \A b \in {c \in Budgets : budgets[c].found} :
       LET progress == BudgetProgress(b)
           k        == [budget |-> b, start |-> progress.start]
           body     == budgets[b].body
           foreign  == {x \in Expenses : mirror[x].found /\ mirror[x].active
                                         /\ mirror[x].body.currency # body.currency}
       IN  (/\ \A s \in {"analytics", "budget_usage"}, x \in Expenses :
                  delivered[s][x] = Len(events[x])
            /\ k \in DOMAIN usage /\ history[k].version = Len(events[b]) /\ ~history[k].stale)
           => usage[k].spent - progress.spent =
                SpentIn([x \in Expenses |-> IF x \in foreign THEN mirror[x] ELSE NoRow],
                        body, k.start)

(* The analytics queries agree with one another and with the budget usage.  *)
ReadsAgree == DashboardAgrees /\ ProgressAgrees
=============================================================================
