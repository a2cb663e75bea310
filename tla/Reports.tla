------------------------------- MODULE Reports -------------------------------
(***************************************************************************)
(* The periodic reports: every replica's scheduler runs GenerateDue each    *)
(* hour, and nothing but the unique key of a report row keeps two of them   *)
(* apart.                                                                  *)
(*                                                                         *)
(* A run reads the owner's report rows once, then works through the periods *)
(* that miss a format: it pages through the expenses, stores the rendered   *)
(* file under a key made of owner, period and format, inserts the row, and  *)
(* queues one notice at the end.  No transaction spans two of these, and a  *)
(* failure gives up the period and goes on with the next.                   *)
(*                                                                         *)
(* A rendered file is the sequence of expenses it lists.  The module also   *)
(* states the laws of the calendar that reports, rollups, budgets and       *)
(* scheduled payments count on.                                            *)
(***************************************************************************)
EXTENDS Calendar, Sequences, FiniteSetsExt

CONSTANTS
    Replicas, Owners,
    PageSize,           \* reportPageSize
    Ages,               \* how many days ago an expense that is added may have occurred
    Workloads           \* first day, blocked owners, expenses there are at first, and
                        \* how many days, edits, faults and starts of a run follow

(* A day is a number, and an expense is identified by its id. *)
ASSUME ReportsAssumption ==
    /\ PageSize \in Nat \ {0}
    /\ Ages \subseteq Int
    /\ \A w \in Workloads :
          /\ w.today \in Int
          /\ IsFiniteSet(w.expenses)
          /\ \A x \in w.expenses : x.id \in Int /\ x.day \in Int
          /\ \A x, y \in w.expenses : x.id = y.id => x = y

VARIABLES
    clock,          \* the day it is
    blocked,        \* owners without access
    expenses,       \* expenses.expenses: live rows
    reports,        \* reports.reports, each with the run that inserted it
    objects,        \* object storage: what each key holds
    notices,        \* queued report_ready notifications, with their run
    run,            \* what the scheduler of each replica is doing
    runs,           \* number of runs begun
    left,           \* days, edits, faults and starts still available
    ran             \* history: owner and day of each run that met no failure

reportsVars == <<clock, blocked, expenses, reports, objects, notices, run, runs, left, ran>>

Formats == <<"csv", "pdf">>
Kinds   == <<"week", "month", "year">>
NoRun   == [pc |-> "idle"]

Key(owner, kind, start, format) ==
    [owner |-> owner, kind |-> kind, start |-> start, format |-> format]
Keys == {r.key : r \in reports}

InPeriod(owner, start, end) ==
    {x \in expenses : x.owner = owner /\ x.day >= start /\ x.day < end}

(* order by occurred_at desc, id *)
Before(x, y) == x.day > y.day \/ (x.day = y.day /\ x.id < y.id)

(* The i-th row in that order: i - 1 rows come before it. *)
Nth(rows, i) == CHOOSE x \in rows : Cardinality({y \in rows : Before(y, x)}) = i - 1

ListExpenses(owner, start, end, limit, offset) ==
    LET rows == InPeriod(owner, start, end)
    IN  [i \in 1 .. Min({limit, Cardinality(rows) - offset}) |-> Nth(rows, offset + i)]

-----------------------------------------------------------------------------
(* GenerateDue, from the list of users on. *)

Set(r, value) == run' = [run EXCEPT ![r] = value]

GenerateDue(r) ==
    /\ run[r].pc = "idle" /\ left.starts > 0 /\ Owners \ blocked # {}
    /\ left' = [left EXCEPT !.starts = @ - 1]
    /\ runs' = runs + 1
    /\ Set(r, [pc |-> "users", now |-> clock, owners |-> Owners \ blocked, clean |-> TRUE,
               id |-> runs])
    /\ UNCHANGED <<clock, blocked, expenses, reports, objects, notices, ran>>

\* Mutated form of Missing: a period with one of its files counts as done.
MissingBoth(done, owner, kind, start) ==
    \A i \in DOMAIN Formats : Key(owner, kind, start, Formats[i]) \notin done

Missing(done, owner, kind, start) ==
    \E i \in DOMAIN Formats : Key(owner, kind, start, Formats[i]) \notin done

(* What follows when the periods of one owner have been seen to. *)
NextOwner(v) ==
    IF v.owners # {} THEN [pc |-> "users", now |-> v.now, owners |-> v.owners,
                           clean |-> v.clean, id |-> v.id]
    ELSE NoRun

(* The period being seen to: kinds holds the places in Kinds of those to come. *)
Kind(v) == Kinds[Min(v.kinds)]

(* generatePeriod starts: the end of the period, the first page. *)
OpenKind(v) ==
    IF v.kinds = {} THEN NextOwner(v)
    ELSE LET start == LastCompletedReportPeriod(Kind(v), v.now)
         IN  [v EXCEPT !.pc = "collect", !.start = start, !.rows = <<>>, !.offset = 0,
                       !.created = FALSE, !.torn = FALSE]

(* ListReports once for an owner, and the periods to see to. *)
ListReports(r) ==
    /\ run[r].pc = "users"
    /\ \E o \in run[r].owners :
          LET done == {k \in Keys : k.owner = o}
              v    == [pc |-> "kinds", now |-> run[r].now, owners |-> run[r].owners \ {o},
                       clean |-> run[r].clean, id |-> run[r].id, owner |-> o, done |-> done,
                       kinds |-> {i \in DOMAIN Kinds :
                                    Missing(done, o, Kinds[i],
                                            LastCompletedReportPeriod(Kinds[i], run[r].now))},
                       start |-> 0, rows |-> <<>>, offset |-> 0, created |-> FALSE,
                       torn |-> FALSE, want |-> {}, formats |-> {}]
          IN  /\ Set(r, OpenKind(v))
              /\ ran' = IF v.kinds = {} /\ v.clean
                        THEN ran \cup {[owner |-> o, day |-> v.now]} ELSE ran
    /\ UNCHANGED <<clock, blocked, expenses, reports, objects, notices, runs, left>>

\* Mutated form of LastPage: a full page is taken for the last.
FullPageEnds(page) == Len(page) <= PageSize

LastPage(page) == Len(page) < PageSize

(* collect: one page. *)
collect(r) ==
    LET v    == run[r]
        end  == ReportPeriodEnd(Kind(v), v.start)
        page == ListExpenses(v.owner, v.start, end, PageSize, v.offset)
    IN  /\ v.pc = "collect"
        /\ IF LastPage(page)
           THEN Set(r, [v EXCEPT !.rows = @ \o page, !.pc = "render",
                          !.want = InPeriod(v.owner, v.start, end),
                          !.formats = {i \in DOMAIN Formats :
                             Key(v.owner, Kind(v), v.start, Formats[i]) \notin v.done}])
           ELSE Set(r, [v EXCEPT !.rows = @ \o page, !.offset = @ + PageSize])
        /\ UNCHANGED <<clock, blocked, expenses, reports, objects, notices, runs, left, ran>>

(* The file being made: formats holds the places in Formats of those to come. *)
Current(v) == Key(v.owner, Kind(v), v.start, Formats[Min(v.formats)])

(* render and Put. *)
StoreFile(r) ==
    LET v == run[r]
    IN  /\ objects' = [k \in DOMAIN objects \cup {Current(v)} |->
                         IF k = Current(v)
                         THEN [rows |-> v.rows, torn |-> v.torn, want |-> v.want]
                         ELSE objects[k]]
        /\ UNCHANGED <<clock, blocked, expenses, reports, notices, runs, left, ran>>

(* on conflict do nothing: whichever insert lands first wins. *)
InsertRow(r) ==
    LET v == run[r]
    IN  /\ reports' = IF Current(v) \in Keys THEN reports
                      ELSE reports \cup {[key |-> Current(v), by |-> v.id]}
        /\ UNCHANGED <<clock, blocked, expenses, objects, notices, runs, left, ran>>

\* Mutated form of Created: a row another run inserted counts as well.
CreatedAlways(v) == TRUE

Created(v) == v.created \/ Current(v) \notin Keys

AfterFormat(v) ==
    [v EXCEPT !.created = Created(v), !.formats = @ \ {Min(@)},
              !.pc = IF Cardinality(v.formats) = 1 THEN "notify" ELSE "render"]

\* Mutated form of SaveOrder: the row is inserted before its file is stored.
RowFirst(r) ==
    \/ run[r].pc = "render" /\ InsertRow(r) /\ Set(r, [run[r] EXCEPT !.pc = "save",
                                                      !.created = Created(run[r])])
    \/ run[r].pc = "save" /\ StoreFile(r) /\ Set(r, AfterFormat(run[r]))

(* generatePeriod for one format: the file, then the row. *)
SaveOrder(r) ==
    \/ run[r].pc = "render" /\ StoreFile(r) /\ Set(r, [run[r] EXCEPT !.pc = "save"])
    \/ run[r].pc = "save" /\ InsertRow(r) /\ Set(r, AfterFormat(run[r]))

Close(r, v) ==
    /\ Set(r, OpenKind([v EXCEPT !.kinds = @ \ {Min(@)}]))
    /\ ran' = IF Cardinality(v.kinds) = 1 /\ v.clean
              THEN ran \cup {[owner |-> v.owner, day |-> v.now]} ELSE ran

(* queueReady when at least one row was inserted. *)
queueReady(r) ==
    LET v == run[r]
    IN  /\ v.pc = "notify"
        /\ notices' = IF v.created
                      THEN notices \cup {[owner |-> v.owner, kind |-> Kind(v),
                                          start |-> v.start, by |-> v.id]}
                      ELSE notices
        /\ Close(r, v)
        /\ UNCHANGED <<clock, blocked, expenses, reports, objects, runs, left>>

(* A failure gives up this period and no other. *)
GiveUp(r) ==
    /\ run[r].pc \in {"collect", "render", "save", "notify"} /\ left.faults > 0
    /\ left' = [left EXCEPT !.faults = @ - 1]
    /\ Close(r, [run[r] EXCEPT !.clean = FALSE])
    /\ UNCHANGED <<clock, blocked, expenses, reports, objects, notices, runs>>

(* ListReports fails: this owner is passed over. *)
PassOver(r) ==
    /\ run[r].pc = "users" /\ left.faults > 0
    /\ left' = [left EXCEPT !.faults = @ - 1]
    /\ \E o \in run[r].owners :
          Set(r, NextOwner([run[r] EXCEPT !.owners = @ \ {o}, !.clean = FALSE]))
    /\ UNCHANGED <<clock, blocked, expenses, reports, objects, notices, runs, ran>>

(* The replica stops: nothing remembers the run. *)
Crash(r) ==
    /\ run[r].pc # "idle" /\ left.faults > 0
    /\ left' = [left EXCEPT !.faults = @ - 1]
    /\ Set(r, NoRun)
    /\ UNCHANGED <<clock, blocked, expenses, reports, objects, notices, runs, ran>>

-----------------------------------------------------------------------------
(* What goes on around the schedulers. *)

Edit(live) ==
    /\ left.edits > 0 /\ left' = [left EXCEPT !.edits = @ - 1]
    /\ expenses' = live
    /\ run' = [r \in Replicas |-> IF run[r].pc = "collect" THEN [run[r] EXCEPT !.torn = TRUE]
                                  ELSE run[r]]
    /\ UNCHANGED <<clock, blocked, reports, objects, notices, runs, ran>>

(* An expense may be entered long after the day it occurred, so also in a  *)
(* period that is being reported.                                          *)
ExpenseAdded(o, age) ==
    LET new == [owner |-> o, id |-> 1 + Cardinality(expenses), day |-> clock - age]
    IN  (\A x \in expenses : x.id # new.id) /\ Edit(expenses \cup {new})

ExpenseDeleted(x) == Edit(expenses \ {x})

Tomorrow ==
    /\ left.days > 0 /\ left' = [left EXCEPT !.days = @ - 1]
    /\ clock' = clock + 1
    /\ UNCHANGED <<blocked, expenses, reports, objects, notices, run, runs, ran>>

(* A report is offered for download: its file is read. *)
GetReport(owner, k) == k \in Keys /\ k.owner = owner

ReportsInit ==
    /\ \E w \in Workloads :
          /\ clock = w.today /\ blocked = w.blocked /\ expenses = w.expenses
          /\ left = [days |-> w.days, edits |-> w.edits, faults |-> w.faults,
                     starts |-> w.starts]
    /\ reports = {} /\ objects = <<>> /\ notices = {} /\ runs = 0 /\ ran = {}
    /\ run = [r \in Replicas |-> NoRun]

ReportsNext ==
    \/ \E r \in Replicas : \/ GenerateDue(r) \/ ListReports(r) \/ collect(r) \/ SaveOrder(r)
                           \/ queueReady(r) \/ GiveUp(r) \/ PassOver(r) \/ Crash(r)
    \/ \E o \in Owners, age \in Ages : ExpenseAdded(o, age)
    \/ \E x \in expenses : ExpenseDeleted(x)
    \/ Tomorrow

ReportsSpec == ReportsInit /\ [][ReportsNext]_reportsVars

-----------------------------------------------------------------------------
(* Properties. *)

(* Whoever may list a report can download it: each row's file is stored,   *)
(* whatever fails or crashes in between (Put comes before CreateReport).   *)
FilesBehindRows ==
    \A k \in Keys : GetReport(k.owner, k) => k \in DOMAIN objects

(* A file lists every expense of its period exactly once, unless expenses  *)
(* changed while its pages were read: paging by offset neither drops nor   *)
(* repeats a row at a page boundary.                                       *)
PagesComplete ==
    \A k \in DOMAIN objects :
       LET f == objects[k]
       IN  ~f.torn
             => /\ {f.rows[i] : i \in DOMAIN f.rows} = f.want
                /\ Len(f.rows) = Cardinality(f.want)

(* A notice is queued only by a run that made a file available, so a       *)
(* period's owner hears of it at most once for each format, and once when  *)
(* a single run made both (createdAny, ErrReportExists).                   *)
NoticesEarned ==
    \A n \in notices : \E r \in reports :
       r.by = n.by /\ r.key.owner = n.owner /\ r.key.kind = n.kind /\ r.key.start = n.start

(* A run without failures leaves both files of every period completed by   *)
(* its day, also when an earlier run stopped between the two.              *)
EveryPeriodReported ==
    \A h \in ran : \A i \in DOMAIN Kinds, j \in DOMAIN Formats :
       Key(h.owner, Kinds[i], LastCompletedReportPeriod(Kinds[i], h.day), Formats[j]) \in Keys

(* Reports are generated and announced as often as GenerateDue promises:     *)
(* each completed period is reported, and announced only when it is.        *)
ReportsAnnounced == EveryPeriodReported /\ NoticesEarned

(* Periods tile the calendar: a day lies in the period that RollupPeriodStart *)
(* gives it, every day of that period gives the same start, and both the    *)
(* comparison period and the reported one end where it begins.              *)
PeriodsTile ==
    \A p \in AnalyticsPeriods :
       LET start == RollupPeriodStart(p, clock)
           end   == periodEnd(p, start)
       IN  /\ start <= clock /\ clock < end
           /\ RollupPeriodStart(p, start) = start
           /\ RollupPeriodStart(p, end - 1) = start /\ RollupPeriodStart(p, end) = end
           /\ periodEnd(p, previousPeriodStart(p, start)) = start
           /\ p \in ReportPeriods =>
                 /\ ReportPeriodEnd(p, LastCompletedReportPeriod(p, clock)) = start
                 /\ LastCompletedReportPeriod(p, clock) = previousPeriodStart(p, start)
           /\ BudgetWindow([period |-> budgetPeriodFor(p)], clock) = [from |-> start, to |-> end]

(* A recurrence keeps its day: the n-th payment falls n months on, on the   *)
(* day of the start date or on the last day of a month too short for it,    *)
(* however many short months lie between ("a rent due on the 31st must land *)
(* on Feb 28 and then return to Mar 31").                                  *)
RecurrenceKeepsDay ==
    \A f \in Frequencies \ {"custom"} :
       LET pay   == [frequency |-> f, interval |-> 0, start |-> clock]
           step  == PaymentFrequencyMonths(f)
           first == NextDueFor(pay, clock)
           due   == <<first, NextDueFor(pay, first), NextDueFor(pay, NextDueFor(pay, first))>>
       IN  \A n \in 1 .. 3 :
              LET target == Date(Year(clock), Month(clock) + n * step, 1)
                  last   == Day(Date(Year(target), Month(target) + 1, 1) - 1)
              IN  due[n] = target + Min({Day(clock), last}) - 1

(* The date arithmetic reports, budgets, analytics and payments rest on     *)
(* (RollupPeriodStart, ReportPeriodEnd, BudgetWindow, NextPaymentDue).      *)
CalendarSound == PeriodsTile /\ RecurrenceKeepsDay
=============================================================================
