# BillPiggy: a TLA+ verification project

BillPiggy (`src/README.md`, `src/docs/architecture.md`) is one Go service, run in
one or more replicas over one PostgreSQL database, an object store and an e-mail
provider. Commands append domain events and update their own read model in one
transaction; projections, e-mails, recurring payments and retention run in
background loops that every replica starts. This directory models the parts where
those loops, the commands of users and the failures of all of them interleave.

Paths below are relative to `src/`; `pg/` stands for
`internal/adapter/outbound/postgres/`, `svc/` for `internal/core/service/`, `dom/`
for `internal/core/domain/`, `cached/` and `memory/` for the other adapters under
`internal/adapter/outbound/`, `main.go` for `cmd/billpiggy/main.go`.

## 1. Inventory

| Component | State | Operations | Interacts with | What makes it correct |
|---|---|---|---|---|
| Event store, units of work (`pg/event_store.go`, `pkg/pgxtx`) | `events.events`, advisory locks, `global_seq` | `Append`, `Within` | every command; feeds the outbox | dense ordered streams, no lost or conflicting version, units end |
| Subscriptions (`pg/outbox_store.go` `EnsureSubscription`) | `events.subscriptions` | register, backfill | races with `Append` at start-up | each event has one row per subscription |
| Outbox (`pg/outbox_store.go`, `pkg/outbox`) | `events.outbox`, leases, `projector_checkpoints` | claim, complete, fail, requeue, lag | one engine per replica and subscription runs a handler | per-aggregate order, exactly once with the read model, drains |
| Projections (`svc/*_projection.go`) | analytics, budget usage, audit tables | `Handle` | driven by the outbox, queue alert e-mails | read model = fold of the events; an alert once per rung |
| Analytics queries (`svc/analytics.go`) | none | dashboard, budgets' progress, suggestions | read the rollups | views agree with one another and with the usage |
| Scheduled payments (`svc/scheduled_payments.go`) | payments, posting ledger | CRUD, `PostDue` | ledger coordinates replicas; posts expenses, queues e-mails | each occurrence posted and announced once, none skipped |
| Expenses and receipts (`svc/expenses.go`, `uploads.go`, `svc/retention.go`) | expenses, object references, object store | commands, upload, sweep | event store, object store, sweepers of all replicas | row agrees with events, a shown receipt exists, replaced ones are reclaimed |
| Rate limiters (`pg/rate_limiter.go`, `pkg/ratelimit`) | windows per key | `Allow`, `CleanupExpired` | e-mail quota, AI limits | no window grants more than its limit |
| Notification delivery (`svc/notifications.go`) | `notifications.deliveries`, leases | queue, claim, send, mark | provider, quota | each e-mail resolved; duplicates only after faults |
| Identity and auth (`svc/auth.go`) | users, invitations, resets, tokens | login, refresh, invite, reset, manage, profile | cached by `cached/`; objects; mail | tokens and invitations single-use, a write is not undone, a new password closes sessions |
| Caching repositories (`cached/`, `pkg/cache`) | entries with TTL, per replica | read-through, invalidate | identity, taxonomy, groups | a writer's own replica shows the write; elsewhere staleness is bounded |
| In-memory adapters (`memory/`) | the same tables as maps | snapshot and restore | replace PostgreSQL in development | nothing is lost, units are transactional |
| Reports (`svc/reports.go`) | report rows, files | `GenerateDue`, list, download | object store, scheduler, mail | every period reported, complete, announced when it is |
| Budgets, groups, taxonomy | their tables | CRUD, members | ownership checks through cached lists, foreign keys | no foreign or dangling reference, revocation takes effect |
| Calendar arithmetic (`dom/`) | none | `NextDueFor`, periods, windows | payments, reports, budgets, analytics | periods tile, recurrences keep their day, clamped |
| Assistant and intake (`svc/assistant.go`, `svc/expense_intake.go`, `openai/`) | `ai.requests` | stream, tools, ask, scan, dictate | limiters, provider, client's connection | a stream ends visibly, calls are recorded, no goroutine is left |
| Handlers, health, metrics, templates, rendering | none of their own that matters here | convert | | |

Hard behaviours: several replicas poll the same tables with leases and
`FOR UPDATE SKIP LOCKED`; a claim commits before the work it claims and the work
before its record; commands read, often from a cache, outside the transaction they
write in, and write whole rows; operations of several statements have no transaction
around them; tables are joined to stores (objects, e-mail, AI provider) that take part
in none; counters sit at their limits; goroutines wait for each other on unbuffered
channels. The list with source lines is in `PROJECT.json` under `hazards`.

## 2. Modules

| Module | Models | Composition |
|---|---|---|
| `OrderedDelivery` | abstract: per aggregate, events are delivered in order, once | |
| `Outbox` | the queue of one subscription, its workers, time, operator | implements `OrderedDelivery` through `Delivery == INSTANCE ... WITH` |
| `EventStore` | `Append` within units of work and `EnsureSubscription`, one SQL statement a step | justifies the guard of `Outbox!Append` (`VisibleInOrder`) |
| `MemoryStore` | the in-memory event store, its engines and its unit of work | `MCEventStore` runs either adapter |
| `ScheduledPayments` | owner commands and the scheduler pass, one committed statement a step | its occurrences are those of `Calendar`, counted in days |
| `Receipts` | expense commands, upload handler, object references, sweepers | relies on `EventStore` for one-step transactions |
| `RateLimit` | the durable and the local limiter, the clean-up job | extended by `Assistant` |
| `Notifications` | the delivery queue, workers, provider, quota window | its `used`/`Quota` is one window of `RateLimit` |
| `Identity` | every operation of `AuthService`, the user cache of each replica | |
| `Calendar` | days, months, periods, budget windows, due dates as operators | used by `Projections` and `Reports` |
| `Projections` | the three handlers, the commands that feed them, the queries | assumes of delivery what `OrderedDelivery` promises |
| `Reports` | `GenerateDue` on several replicas | with `Calendar` |
| `Sharing` | groups, labels, expenses and budgets that name them, list caches | relies on the order of deliveries for the analytics rows |
| `Assistant` | streaming chain, tool rounds, one-shot calls, audit log | with `RateLimit` in front |
| `MC*` | constants for TLC only | extend the above |
| `OutboxProofs`, `EventStoreProofs`, `ScheduledProofs`, `ReceiptsProofs`, `IdentityProofs`, `SharingProofs` | theorems | each extends its module and `TLAPS` |
| `LimitedServicesProofs` | theorems about `RateLimit` and the services behind limits | extends `Assistant`, `Notifications`, `TLAPS` |
| `ReadModelsProofs` | theorems about what is computed from expenses and events | extends `Projections`, `Reports`, `TLAPS` |

Definitions whose comment starts "Mutated form of" are plausible bugs of the
definition that follows them. No specification uses them; put in its place, each
one must make TLC refute the property `PROJECT.json` names under `mutants`.
`TypeOK` (`LimiterTypeOK`) documents the state of a module; those of `Outbox`, `RateLimit`
and `Receipts` are proved, and each other proof proves the types its argument needs
(`StoreTyped`, `Copies`, `QueueTyped`, `Typed`, `JobTyped`, `UsageTypeOK`).

### How state and actions correspond to the code

*Outbox.* The columns of `events.outbox` are functions over `global_seq`. `Blocked`
and `Claimable` are the WHERE clause of `claimStatement`; `Claim` is `claim()`, a
committed statement of its own, with SKIP LOCKED: an earlier row is passed over only
while a live worker's transaction can hold it. `Succeed` is one transaction (handler
writes, `complete()`, checkpoint). `RecordFailure` is `fail()`, which updates by id
alone. `Abandon` is every early error return of `ProcessNext`. Time is what the SQL
compares: `available_at` passed or not, the lease running or expired. `applied` is a
history variable: committed handler runs. `SlowHandlers` and `LostAcks` switch on a
handler that outlives `LeaseTTL` and a COMMIT whose acknowledgement is lost; the history
variable `overruns` counts both per row.

*EventStore.* `Lock`, `ReadVersion`, `InsertEvent`, `FanOut` are the four statements
of `Append`; each sees the committed tables and its own writes (READ COMMITTED).
`Plan` lists the aggregates a unit of work appends to: `postExpense` appends to a
new expense and then to the payment. `Abort` stands for any failed statement or
crash. `Subscribe` waits for another uncommitted row of the same name, as the unique
index makes it. `met` records which units were open during a registration.

*ScheduledPayments.* `PostDue` lists a batch; `ClaimReminder`, `ClaimDue`,
`QueueDueNotification`, `PostExpense`, `Advance` are the committed statements of
`runOccurrence`, working on the row as the batch read it (`cur`). `Refused` is the
foreign key of the ledger (`migrations/000016`). Owner commands read, then write.
`durable` chooses PostgreSQL or the in-memory repositories.

*Receipts.* Each command is a read step and one transaction step, which the
aggregate's advisory lock serialises; the upload handler puts the object first. A
sweeper claims, deletes objects and forgets references in separate steps. `stale`
records expenses that were written from a read no longer current.

*RateLimit.* `AllowDurable` is the single upsert; `AllowLocal` the critical section
of `FixedWindow.Allow`, which on any call may first evict (the code does on each
1000th). `granted` counts what was let through per window, `purged` how often the clean-up
deleted a window's row while it was open.

*Notifications.* `DeliverPending` is the claim statement; a worker then handles its
batch one at a time: outcome (`OptedOut`, `ResolveFails`, `Send`, `AnswerLost`,
`QuotaRefuses`, `SkipForQuota`), then `Resolve`, which marks by id alone.

*MemoryStore.* `holder` is the mutex of `memory.UnitOfWork`, `copy` its participants'
snapshots, `Restore` the undo of a failing unit. Claims, recorded outcomes and direct
writes take only the repository's own mutex and so run inside somebody else's unit.
`torn` records that a restore discarded such a change.

*Identity.* No transaction spans two statements of `AuthService`, so an operation is a
list of steps (`Program`) that a request works off, each step an action: `GetUserByID`
(cache hit or query, then `Fill`), `Admit` (the middleware's check), `Accept` (the
operation's own), `WriteUser` (all columns from the row read), `Evict`, the token,
reset, invitation and object statements. `Fail` ends a request where it stands, with the
statement's effect lost or kept. The history variables say which users were written from
an overtaken row, which cache entries another replica's write or a racing fill left
behind, and what each column's own operation wrote last.

*Projections.* A command commits its row and its event together; `DeliverAnalytics` and
`DeliverAudit` are single transactions, since they only insert and add. The budget usage
handler reads a sum and writes it back, so its transaction takes a step per statement
(`BeginExpense`, `ReadSum`, `ReadUsage`, `SaveUsage`, `Commit`); a row it wrote blocks others until
it commits, and PostgreSQL may choose a `DeadlockVictim`. Repeated deliveries and replays
(`replayUpTo`) are included. `stale` marks a window whose row or pending read another
transaction overtook, also when a removal of the budget deleted the row under it; `crossed`
counts the overtaken writes since the spend was last below the threshold. The tags of an
expense are the list of its request, and `Times` says how often it names a bucket's tag. The
queries are operators on `rollups`, sums are `FoldFunction`. Amounts are small integers in
the run, months and years real.

*Calendar.* Days are numbered; `Year`, `Month`, `Day` and `Date` convert, and
`RollupPeriodStart`, `periodEnd`, `LastCompletedReportPeriod`, `BudgetWindow` and
`NextDueFor` follow `dom/` and `svc/analytics.go`.

*Reports.* A run (`GenerateDue`) goes through users, periods and formats, looks the rows up
(`ListReports`, or `PassOver` when that fails), reads the expenses page by page (`collect`;
`Nth` is the `order by` of the query), stores the file, inserts the row (unique per user,
period and format) and queues the notice, a step each; users edit expenses between two pages.

*Sharing.* A request first gets the lists it needs from its replica's cache (`Hit`) or
the database (`Miss`, `Fill`), validates against them, and then executes one statement,
which the foreign keys may refuse; writes then clear cache keys (`Clear`). Entries are
stamped with the time they were stored. `staleness` is the age of the oldest sight of a
group an answer relied on.

*Assistant.* A send and its receive on an unbuffered channel are one step of `forward`,
the audit, `relayRound`, the handler. Each tool round has its own provider stream, and an
earlier round's goroutines may still be running. `live` is the request's context, which
ends when the client leaves or the handler returns; every send also watches it.
`RecordRequest` is the set of rows the audit's insert may leave: in memory always one, on
PostgreSQL none when the context has ended or the insert fails. `MailAsked` is the quota
check in front of the e-mail provider, a third user of the limiters.

## 3. Runs

| Run | Question | Result | Bounds |
|---|---|---|---|
| `outbox_safe` | do replicas, crashes, failures and requeues keep order and exactly-once, and does the queue implement `OrderedDelivery`? | holds | 2 workers, 3 events over all assignments to 2 subscribed and 1 ignored aggregate, 2 attempts, 2 faults or requeues |
| `outbox_hostile` | how often can a handler commit with slow handlers and lost acknowledgements; does the lag drain? | it commits again at most once for each overrun lease or lost acknowledgement; the lag drains | 2 workers, 2 events, 2 faults |
| `event_store` | are versions, visibility and fan-out right when commands and registrations overlap; do units end? Does the in-memory store do the same? | holds; in memory only while failing units overlap nothing | 3 units (4 appends) over 3 aggregates, 2 registrars of one new subscription; in memory 2 commands (3 appends), 2 engines, 1 direct write, 2 tries, 2 failures |
| `scheduled` | is an occurrence ever posted or announced twice, or skipped, with two schedulers, faults and edits? Does a failing payment hold up others? | never; no | one payment edited once, 4 schedules incl. end date, reminder, pause, 3 days; two payments, unedited, 2 days; 2 schedulers, 1 fault, a batch of 2 |
| `scheduled_stuck` | is an auto-posting payment posted? | violated on PostgreSQL: the ledger row refers to an expense not inserted yet | 1 payment, no fault |
| `receipts` | do events and rows agree, are stored receipts kept and orphans reclaimed? | holds | 1 expense, 3 uploads, 2 clients, 2 sweepers, 4 commands, 1 fault |
| `notifications` | are e-mails resolved, outcomes true, duplicates bounded? | holds | 2 deliveries, 2 workers, 3 attempts, quota 1, 2 refusals, 1 fault |
| `identity` | what do caching, whole-row writes, rotation, password changes, invitations and uploads keep when requests overlap? | holds for users whose row no overtaken read was written to | 2 replicas, 2 requests at once, 9 workloads, 1 fault or restart |
| `projections` | do read models, queries and alerts agree with the expenses and budgets? | holds; a crossing leaves a window stale until its next event and may repeat an alert | 7 scenarios around 31 December 2024, 2 expenses, tag lists with a repeated tag, 2 budgets, 2 workers, 1 fault |
| `reports` | is each completed period reported completely and announced; are periods and recurrences right? | holds, unless expenses change between two pages | every day of 2023 to 2026 for the calendar; 2 replicas with a failure; a run over the year's end; 2 edits while paging, of today or of the reported period; pages of 2 |
| `sharing` | how long does a revoked member see what was shared; can a reference dangle, can an expense carry a foreign label? | at most the TTL and the duration of two requests; no, no (groups of expenses and categories of budgets are not checked, section 5) | 2 replicas, 2 requests, 2 users, 1 group, 2 categories, 2 tags, 1 expense, 1 budget, 7 workloads, TTL 1, request time 1, clock 4, 1 fault |
| `assistant` | are limits kept, streams ended visibly, calls recorded truthfully, goroutines released? | holds; a quota longer than the retention grants its limit again after each clean-up; a row may be missing where its insert failed or the request had ended | limiters with 2 requests or e-mails and a clock; one-shot calls; a streamed chat, with and without failing inserts; limits 2, 1 and 1, intervals 3, 2 and 5, retention 3, clock 4, 3 calls, 1 tool round |

Why these bounds: each interference needs at most two actors on one row plus, for
ordering, a predecessor and a successor, so two workers and three events reach
every combination of blocker, retry and dead letter. One or two faults place a
failure at every statement and let a second one meet its recovery. In
`notifications` three attempts leave room for a crash, a refusal and a failure of
one delivery. Where a product of all operations would be too large, the instance is a set
of workloads (which rows exist, which requests arrive), each chosen for operations that
can meet; they are listed in the `MC` modules. The scenarios of `projections` lie at a
year's end, where day, week, month, quarter and year all turn. In `sharing` a clock of 4
passes the bound on staleness, `TTL + 2 * MaxLag`, which is tight: it fails with one less.
Symmetry is used only in safety runs whose constants treat the permuted processes alike.

`CHECK_DEADLOCK FALSE` is set where clocks, requests and faults are bounded: when they
are used up the loops have nothing to do, which is how the program idles. Waiting for ever
is excluded by the liveness properties instead (`UnitsEnd`, `EventuallyResolved`,
`OrphansReclaimed`, `OthersPosted`, `ResolvedForGood`, `MemoryDelivers`, `RequestsEnd`).
`projections` checks deadlock: its transactions wait for each other's rows, and it may stop
only when everything is delivered (`Rest`).

Fairness is per worker or row, and weak but for one lock. `Engine.Run` polls for ever
(`pkg/outbox/engine.go`), the tickers in `main.go` fire for ever (a minute for
e-mails, five for the sweeper, fifteen for payments, an hour for the clean-up), a started pass runs to its end or
fails, a crashed pod is restarted by its orchestrator, a lease and a backoff are
points in time that pass. No fairness is assumed of users, faults, operators or a
particular handler outcome: a handler may fail always, which is why the promise is
"processed or dead-lettered". In `ScheduledPayments` and `EventStore` a running
transaction executes its next statement; a lock wait counts as such only while the
lock is free. In `MemoryStore` entering a unit of work is strongly fair: a Go mutex hands
itself to a waiter after a millisecond, so nobody starves. In `Assistant` goroutines are
scheduled and the provider's stream goes on or fails; a client need never leave.

## 4. Proofs

Each theorem holds for every value of the constants: any number of replicas, workers,
users, rows, faults and attempts. An invariant is proved by an inductive one that
implies it; every inductive invariant was first checked with TLC on the instance of its
module's run. No history variable is read by a guard, so an exemption ("unless ...") never
restricts what the model does.

`OutboxProofs` (1012 obligations):

* `TypeCorrect`, `RepeatsBounded`: unconditional. `RepeatInv` is a budget: per row, the
  commits made, the workers that may still commit (`Hands`, whether or not their lease runs)
  and the delivery the row may still be given (`Spare`: it is not processed and no live
  worker has its lease) are covered by one and the row's `overruns`. A lease that runs out
  under a live worker is what makes a second worker possible, and pays for it; a lost
  acknowledgement pays for the revival by `fail()`.
* `ExactlyOnceDelivery`, `OrderKept`, `LeaseExclusive`, `ProcessedStays`, `InOrder`
  under `Benign` (no handler outlives its lease, no acknowledgement is lost). None of
  these invariants is inductive alone. `IInv` joins them: a busy worker's row is
  pending, leased, counted with the attempt it claimed, and unblocked, and no two
  workers have the same row. From it: the row a worker completes is still pending
  (so it is applied once), all its predecessors are processed (so nothing is
  overtaken), and the row a worker fails is not processed (so "processed" is final).
  The key case is `Claim`: it needs `lease # "held"`, which under `Benign` means no
  live worker has the row.
* `CheckpointTrue`, under `Benign`: the checkpoint counts the processed rows and names the
  largest, for any set of sequence numbers. `CheckpointInv` adds that the processed rows
  are finitely many; `IInv` says that a row being completed is not among them yet.
* `Refinement`: under `Benign` the queue implements `OrderedDelivery`. An `Append`
  maps to `Commit`, a `Succeed` to `Deliver`, the rest stutters.

`EventStoreProofs` (1021): `StreamInv` gives `StreamsNumbered` and `VisibilityOrdered`. A
unit of work keeps the lock of every aggregate it wrote to until it ends (`Locked`), the
log is what committed units wrote (`Committed`), what a unit sees of an aggregate is
numbered 1 to n in the order of `global_seq` (`Numbered`, `Ordered`), the version it read
is still free when it inserts (`VersionFresh`), and what is in flight has higher sequence
numbers than what is visible (`Later`, which is `VisibleInOrder` at the commit).
`FanOutInv` adds the registrations for `DeliveredExactly`: one transaction at a time
registers a name, a unit of work open meanwhile has met it (`Registration`), the backfill
holds what had committed before (`Backfilled`), and a unit that did not meet it sees the
subscription in its fan-out (`FannedOut`, `Covered`).

`ScheduledProofs` (1202): `OnceInv` gives `PostedOnce`: a scheduler at work on an
occurrence inserted its ledger row, no other scheduler has that claim (`Claims`), nothing
outside the ledger was announced or posted (`Unclaimed`), and what the scheduler is still
to do was not done (`Outstanding`). `SkipInv` gives `SeriesComplete`: not only the stored
row but every copy of an unedited payment that a pass holds, however old, is complete up
to its own cursor (`CopiesSound`), so an advance from an old copy skips nothing.

`ReceiptsProofs` (917): `ReceiptTypes`; `RowIsLastEvent`, inductive with the types;
`ReceiptsNeverDangle` from `ReceiptInv`: a key a request holds is known to nobody else, a
key a sweeper holds is never active again (`KeysOwned`), the receipt shown is tracked as
active and the active one of a live expense is the one shown (`ShownIsActive`,
`ActiveSound`), unless the expense was written from an outdated read.

`LimitedServicesProofs` (2241):

* `LimitsHold`, for every retention. The invariant adds, for the durable limiter, that a
  window that may be open has counted at least what it granted beyond the limits its deleted
  rows allowed, and, for the local one, that the entry of an open window is the history's
  window and count. The arithmetic of aligned windows is the lemma `Aligned`, that of the
  deleted rows `Allowance`. A row is deleted while its window is open only if the interval is
  longer than the retention, as the e-mail quota's is (section 5).
* `AssistantIsLimited`: `AssistantSpec` implements `LimiterSpec`, so `AssistantKeepsLimits`
  follows from `LimitsHold`: a request or an e-mail asks once, goroutines and clients ask
  nothing.
* `EveryCallAudited` and `StreamsEnd` from `AssistantInv`, which says of each request
  (`JobSound`) that its pipes are typed, that the audit of a pipe that is over has counted what
  the provider did, and written it unless the insert failed or the request had ended, or has
  given up because the client left (`PipesSound`), and that the goroutines
  left to run agree with what the client was sent: while one of them may still send, nothing
  final was sent, and once the handler is gone something final was, or the client left
  (`StreamSound`). `JobSound` speaks of one request, so each action is proved to keep it
  once, for every order of the goroutines of all rounds.
* `NobodyMailedTwice`, `AttemptsCounted`, `ResolvedStays`, under `~SlowBatches` (no worker
  outlives its lease; the marks compare only the id, see section 5). `DeliveryInv` says that
  a claim is one worker's and still leased, with the row's attempts (`Leased`), that the one
  acceptance no fault explains is the one recorded or about to be (`AcceptedOnce`), that a
  failure recorded is one of the delivery's own (`FailuresTrue`), and that a claim pays for
  one try (`Budget`).

`ReadModelsProofs` (7506):

* `CalendarHolds`, for every integer day. Years begin in order and are 365 or 366 days long
  (`YearsRise`), so `Year` finds the one a day is in. Months are numbered through: month `k`
  is the `(k % 12 + 1)`-th of year `k \div 12`, `MonthStart` rises by 28 to 31, and `Date` of
  a month that overflows its year is that of the month's number. Periods of 1, 3 and 12
  months, weeks and days then tile (`Tiles`, `LastEnds`), and a due date is the clamped day
  of a month (`Clamped`), from which the next one is found again without drift.
* `RowsHaveFiles`, `FilesListEverything`, `PeriodsReported` from `ReportsInv`. The listing
  order is total, so the rows with fewer than `n` predecessors are the first `n` (`Rank`,
  `Nth`) and what was read so far is exactly the first `offset` rows (`Read`); a page that
  is not full ends with the last. Of each run the invariant says which periods and formats
  are behind it: both files of every period it no longer has to see to are in the table if
  it met no failure (`QueueOK`, `FormatsOK`), and it has inserted a row if `created`.
* `LedgersHold`, `UsageHolds`, `AlertsHold` from `ProjectionsInv` (`ProjectionsSound`): what
  is known of the event feed (`FeedOK`), of contributions and their mirror (`RecordsOK`), of
  the buckets (`RollupsOK`: each is the sum over the contributions in it, as often as they
  name it), of the audit trail
  (`EntriesOK`) and of usage rows and transactions (`UsageInv`: a row, a read and a line to
  be written tell the sum of what their transaction sees, unless they are stale; the mails of
  a window rise up to the rung recorded as long as no transactions crossed on it, and in any
  case a rung was mailed at most `crossed` times, plus once if it is not above the one
  recorded: `Seldom`, which is stronger than `AlertsTrue` because a rung that is no longer
  recorded may be mailed again). Sums over finite sets are `FoldFunction`; that a
  sum splits off any member (`SumSplits`) is proved by a smallest counterexample
  (`SmallestSet`) instead of by the library's induction rules.
  The attempt found one thing wrong in the model: `DeleteUsage` did not mark the rows that
  other transactions had written, but not committed, as overtaken, and with a budget removed
  while its expenses are handled `UsageAgrees` failed; the scenario `Dropping` covers it.
* `ReadsHold`: `ReadsAgree`, from `ProjectionsInv` and `ReadsInv` (`ReadsSound`: the rows of
  categories are finitely many and filed under what expenses carry, `KeysOK`; the mirror is
  what the deliveries to the budgets left, and a transaction in flight brings it to the next
  event, `MirrorOK`). Each query's rows are reduced to the expenses that count in them: an
  expense has one row per period (`HomeIs`), so the total of any rows is what the expenses
  at home in them are worth (`TotalIs`), and two queries agree when the same expenses are at
  home (`PeriodIsItsDays`, by the tiling of periods). Groups that have nothing in common add
  up to their union (`SumByParts`), which gives the days, weekdays, categories and
  currencies. For the progress bar the expenses of the window split into those of the
  budget's currency and the others (`SpentOfSome`, `PartsJoin`). The theorem assumes that
  expenses name at most fifty pairs of category and currency (`FewGroups`):
  `TopCategoryChanges` is asked for fifty and returns no more, so beyond that its list is
  not the whole period.

`IdentityProofs` (3883): the steps left of a request are a suffix of one of the operations'
programs, whose shape (`Sound`, `Staged`) is proved once and carried along by `Typed`.
`SpendingInv` gives `UsedOnce`: families and invitations are spent by one conditional
statement. `CacheInv` gives `CacheServesStored` and `ColumnsKept`: a row about to be used
is the stored one unless the request was overtaken (`Fresh`). `PasswordInv` gives
`PasswordsClose`: once resets are closed and the snapshot is taken, any session outside the
snapshot was begun under the new password (`Closing`). `ImageInv` gives `ShownImagesKept`:
uploads of one user that do not overlap track their key before orphaning others.

`SharingProofs` (2692): every step is first reduced to what the arguments look at
(`RequestStep`, `OtherStep`); `Typed` also says that what a request has not validated yet
is still among the lists it needs (`Checked`). `Referring` gives `ReferencesStand`: labels
named are the owner's because a list, however old, never holds a foreign one, and they are
there because the foreign keys look at rows and rollups; the newest event names no more
than its row. `Agreeing` gives `ListsServeStored`; it includes the lists requests have read
and not stored yet. `Recent` gives `RevocationInTime`: the groups of an entry were seen at
most `TTL + MaxLag` before it expires, since the request that stored it read them within
`MaxLag`, and those a request relies on at most `TTL + MaxLag` before it began.

Assumptions on constants (`ASSUME`, evaluated by TLC in every run) only type them:
sequence numbers are positive, plans are not empty, attempts, quotas and pages are positive,
days are integers, the amounts of expenses natural numbers (`validateExpense`), expenses and
budgets finite in number, ids unique, a budget
has the fields of its row, the
rows a workload starts from are ones the commands could have written (new users show no
image, an expense names existing labels of its owner), categories and tags are different
things, as are expenses and budgets.

Only model-checked:

* all liveness (`UnitsEnd`, `EventuallyResolved`, `OrphansReclaimed`, `OthersPosted`,
  `MemoryDelivers`, `RequestsEnd` and the rest): fairness and ENABLED are beyond the prover;
* `AnswersWhole` as a whole. Its half `StreamEnds` is proved; its half `ToolTurnsWhole` is
  about what `accumulate` and `convertMessages` compute from a stream, by folding, filtering
  and sorting sequences, and is induction over data;
* the safety of `MemoryStore`, the development fallback;
* `DuePosted`, which the code violates.

## 5. Where the code and its documents disagree

With a run (details in `PROJECT.json` under `findings`): auto-posting never succeeds on
PostgreSQL (`DuePosted`), because the ledger's foreign key refuses the claim on every tick.

Reproducible by dropping an exemption from a passing property, or by one constant:

* `EnsureSubscription` misses an event in flight while a subscription is first
  registered, though it "enqueues every existing event" (`pg/outbox_store.go:26`): `met`
  in `FanOutWhenApart`, which shows that nothing else is missed.
* An edit overlapping an upload restores the old receipt key, though
  `svc/expenses.go:189-191` says edits leave it alone: `stale` in `Receipts`.
* The hourly clean-up, which retains a day (`main.go:662`), deletes the open window of the
  30-day e-mail quota (`main.go:62`, `main.go:232`), which then grants its limit again, though
  by `main.go:655-657` "the retain period must stay well above every limiter's interval":
  `purged` in `LimitKept`.
* A failing in-memory unit restores every participant and so undoes claims, outcomes and
  acknowledged writes of others, and a handler may have run for an event that is gone,
  contrary to "exactly as a rolled-back PostgreSQL transaction would"
  (`memory/event_store.go:70-72`): `torn` in `MemoryStore`. It is the development fallback.
* Overlapping whole-row writes of a user lose columns, among them a block: `lost` in
  `Identity`. A login or rotation in flight survives a password change: `late`.
  Overlapping image uploads may orphan the image shown: `mixed`.
* Two workers of one budget leave its usage wrong until the next event of that window:
  `stale` in `Projections`.
* Two workers that recompute one window at once both read the rung alerted so far, and both
  mail the next one (`svc/budget_usage_projection.go:164-185`), though `AlertedPercent` is
  kept for "suppressing repeat alerts until spend falls back below it"
  (`dom/projection.go:61-62`): `crossed` in `AlertsTrue`, which allows one repetition for
  each such transaction and none otherwise.
* A report tears when expenses change between two pages: `torn` in `Reports`.
* A call's row in `ai.requests` may be missing, though the audit "records every call": on
  PostgreSQL the handler's return cancels the context `record` uses, and the error of any
  failing insert is dropped (`svc/ai_audit.go:121`, `:129-140`); the in-memory repository
  looks at no context. The call is counted in the metrics either way: the last conjunct of
  `AuditTrue`.

Seen while modelling; the passing properties are stated so as not to hide them:

* A crash or failed statement after the ledger claim leaves a payment at that
  occurrence for good: later passes find the ledger row and return before advancing
  (`svc/scheduled_payments.go:276-281`). `OthersPosted` exempts the payment hit.
* An edit based on an old read rewinds the cursor; an advance un-pauses a payment
  the owner paused meanwhile (`pg/scheduled_payment_repository.go:152-162`).
  `NothingSkipped` exempts edited payments. Payments that no longer move stay at
  the head of the batch of 500.
* Without `Benign`, exactly-once fails: `complete()` and `fail()` match by id alone,
  while `pkg/outbox/outbox.go:57-59` promises a commit "exactly once". `RepeatsExplained`
  says how often it can fail.
* A crash after each claim raises `attempts` past `MaxAttempts` without a dead
  letter, because only `fail()` compares them.
* `Lag` counts rows of aggregate types the handler never claims.
* Two first uploads at once leave one object active for ever (`svc/expenses.go:310`);
  an upload whose attach fails leaves an object nobody tracks.
* A quota refusal counts as an attempt, so a delivery may be given up on after a
  single failure of its own.
* A batch slower than its lease can be sent twice, the second time with its payload
  cleared (`pg/notification_repository.go:71-73`).
* Durable windows are aligned with the epoch, so a "rolling" window
  (`docs/production-deployment.md:51-52`) permits twice the limit around a boundary.
  The local limiter grants the first operation of a window even if its limit is 0;
  limits are assumed positive.
* With a batch no larger than the number of refused payments the others starve
  (`pg/scheduled_payment_repository.go:127`).
* `ResetPassword` ignores whether it was the one to mark the reset used, so one link can
  be redeemed twice at once; a retried `ManageUser` whose mail failed sends none; a lost
  acknowledgement of `UpdateUser` leaves the cache entry.
* A request that repeats a tag id (`svc/expenses.go:150`, `:187` copy the list, the check at
  `:113` accepts it) is counted twice in the tag's rollups (`svc/analytics_projection.go:94`),
  while the row keeps the tag once (`pg/expense_repository.go:239`). `RollupsAgree` counts as
  the handler does; the category's buckets, which the queries of the dashboard read, are right.
* An uncategorised expense is legal, but the analytics handler rejects it: its delivery is
  dead-lettered and holds back that expense's later events.
* `SumContributions` ignores the currency, `BudgetProgress` filters by it
  (`ProgressAgrees` accounts for the difference). Editing a budget leaves rows of other
  windows as they were.
* Two replicas may each make one format of a report and both announce it; a failed
  notice is not retried; a period whose successor elapses while the service is down is
  never reported, and late expenses are not added.
* The group of an expense is not checked against the visible ones (that of a budget is);
  the category of a budget is not checked for its owner. Deleting a label an undelivered
  event names makes that delivery fail; a label a rollup or a removed row names cannot be
  deleted.
* `AskStream` is documented to relay the last round's content only; `relayRound` forwards
  every round's. A unit of the limit is spent even if the provider fails.

## 6. Plan

Done: every component of the inventory but the last row has a module; every safety property
a run checks is proved for every value of the constants, but for half of `AnswersWhole`.

Left to prove: the safety of `MemoryStore`.

Left to model: the schedules of `ScheduledPayments` in months, through `Calendar`; the
composition of `Projections` with `Outbox` itself instead of with its abstract promise.

## 7. Not modelled

HTTP decoding, status codes and endpoints that only read; formatting, e-mail templates,
CSV and PDF rendering, image processing; metrics, health and logging; admin usage reports;
prompts, the parsing of a draft and what a tool answers; the repositories of `memory/`
other than the event store, which are maps behind a mutex. Validation of single fields is
left out where it does not decide a state change. Hashes, signatures and expiry of tokens
are reduced to whether they verify, and the user's AI opt-out to a precondition.

Abstractions with an effect: recurrences of `ScheduledPayments` are intervals in days
(months are in `Calendar`), and the stop after 1000 of them when a payment is rescheduled
(`svc/scheduled_payments.go:377`) is left out; times of day and zones are left out: the
boundaries the code computes are UTC midnights, but a custom budget's due date may carry a
time of day, and on that last day usage and progress may differ by more than `ProgressAgrees`
says; scheduled payments, which may name a group too (`migrations/000016:22`), are not in
`Sharing`, where a group may be deleted that one of them would hold; an event without labels
stands in `Sharing` for a removal and for a save with neither category nor tags, whose
delivery the code rejects and the model allows; a sweep and a delivery batch hold every candidate of an instance; the order
inside a batch of sweeps or e-mails is free; the HTTP server sets no timeouts
(`main.go:359`), so `MaxLag` in `Sharing` is a bound on requests that the code does not
enforce.
