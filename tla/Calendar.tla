------------------------------ MODULE Calendar ------------------------------
(***************************************************************************)
(* The calendar arithmetic the services share: rollup periods, budget      *)
(* windows, report periods and the recurrence of a scheduled payment.      *)
(*                                                                         *)
(* An instant is a day: the number of days since 0001-01-01, a Monday, in  *)
(* UTC.  Every boundary the code computes is a midnight, so the time of    *)
(* day decides nothing but where a custom budget's due date cuts its last  *)
(* day.                                                                    *)
(***************************************************************************)
EXTENDS Integers, FiniteSets

-----------------------------------------------------------------------------
(* The part of Go's package time the code uses. *)

IsLeap(y) == y % 4 = 0 /\ (y % 100 # 0 \/ y % 400 = 0)

DaysBeforeYear(y) ==
    365 * (y - 1) + ((y - 1) \div 4) - ((y - 1) \div 100) + ((y - 1) \div 400)

DaysBeforeMonth(y, m) ==
    LET usual == <<0, 31, 59, 90, 120, 151, 181, 212, 243, 273, 304, 334>>
    IN  usual[m] + IF m > 2 /\ IsLeap(y) THEN 1 ELSE 0

(* time.Date: a month outside 1..12 and a day outside the month carry over. *)
Date(y, m, d) ==
    LET year  == y + ((m - 1) \div 12)
        month == ((m - 1) % 12) + 1
    IN  DaysBeforeYear(year) + DaysBeforeMonth(year, month) + d - 1

(* A year is 146097 / 400 days long on average: the quotient is off by one *)
(* at most.                                                                *)
Year(t) ==
    LET guess == (400 * t) \div 146097
    IN  CHOOSE y \in guess .. guess + 2 :
           DaysBeforeYear(y) <= t /\ t < DaysBeforeYear(y + 1)

Month(t) ==
    LET y == Year(t)
        n == t - DaysBeforeYear(y)
    IN  CHOOSE m \in (n \div 31) + 1 .. 12 :
           /\ DaysBeforeMonth(y, m) <= n
           /\ m = 12 \/ n < DaysBeforeMonth(y, m + 1)

Day(t) == t - Date(Year(t), Month(t), 1) + 1

(* time.Weekday: 0 is Sunday. *)
Weekday(t) == (t + 1) % 7

AddDate(t, years, months, days) == Date(Year(t) + years, Month(t) + months, Day(t) + days)

-----------------------------------------------------------------------------
(* Rollup periods, budget windows and report periods. *)

AnalyticsPeriods == {"day", "week", "month", "year"}
ReportPeriods    == {"week", "month", "year"}
BudgetPeriods    == {"daily", "weekly", "monthly", "yearly", "custom"}

\* Mutated form of RollupPeriodStart: Weekday counts from Sunday, weeks from Monday.
SundayWeek(period, at) ==
    CASE period = "week"  -> at - (Weekday(at) - 1)
      [] period = "month" -> Date(Year(at), Month(at), 1)
      [] period = "year"  -> Date(Year(at), 1, 1)
      [] OTHER            -> at

RollupPeriodStart(period, at) ==
    CASE period = "week"  -> AddDate(at, 0, 0, -((Weekday(at) + 6) % 7))
      [] period = "month" -> Date(Year(at), Month(at), 1)
      [] period = "year"  -> Date(Year(at), 1, 1)
      [] OTHER            -> at

ReportPeriodEnd(kind, start) ==
    CASE kind = "week"  -> AddDate(start, 0, 0, 7)
      [] kind = "month" -> AddDate(start, 0, 1, 0)
      [] kind = "year"  -> AddDate(start, 1, 0, 0)
      [] OTHER          -> start

periodEnd(period, start) ==
    IF period = "day" THEN AddDate(start, 0, 0, 1) ELSE ReportPeriodEnd(period, start)

previousPeriodStart(period, start) ==
    CASE period = "day"   -> AddDate(start, 0, 0, -1)
      [] period = "week"  -> AddDate(start, 0, 0, -7)
      [] period = "month" -> AddDate(start, 0, -1, 0)
      [] period = "year"  -> AddDate(start, -1, 0, 0)
      [] OTHER            -> start

LastCompletedReportPeriod(kind, now) ==
    CASE kind = "week"  -> AddDate(RollupPeriodStart(kind, now), 0, 0, -7)
      [] kind = "month" -> AddDate(RollupPeriodStart(kind, now), 0, -1, 0)
      [] kind = "year"  -> AddDate(RollupPeriodStart(kind, now), -1, 0, 0)
      [] OTHER          -> RollupPeriodStart(kind, now)

budgetPeriodFor(period) ==
    CASE period = "day"   -> "daily"
      [] period = "week"  -> "weekly"
      [] period = "month" -> "monthly"
      [] period = "year"  -> "yearly"
      [] OTHER            -> ""

(* The window [from, to) of a budget that holds the day at.  A custom      *)
(* budget runs from its creation to its due date, 0 standing for none.     *)
BudgetWindow(budget, at) ==
    LET kind == CHOOSE k \in AnalyticsPeriods : budgetPeriodFor(k) = budget.period
    IN  IF budget.period = "custom"
        THEN [from |-> budget.created,
              to   |-> IF budget.due # 0 THEN budget.due ELSE AddDate(budget.created, 100, 0, 0)]
        ELSE LET start == RollupPeriodStart(kind, at)
             IN  [from |-> start, to |-> periodEnd(kind, start)]

-----------------------------------------------------------------------------
(* The recurrence of a scheduled payment. *)

Frequencies == {"monthly", "quarterly", "yearly", "custom"}

PaymentFrequencyMonths(frequency) ==
    CASE frequency = "monthly"   -> 1
      [] frequency = "quarterly" -> 3
      [] frequency = "yearly"    -> 12
      [] OTHER                   -> 0

daysInMonth(y, m) == Day(Date(y, m + 1, 0))

\* Mutated form of AddMonthsClamped: the day is that of the previous occurrence.
AnchorOnPrevious(at, months, anchorDay) ==
    LET target == Date(Year(at), Month(at) + months, 1)
        last   == daysInMonth(Year(target), Month(target))
    IN  Date(Year(target), Month(target), IF Day(at) > last THEN last ELSE Day(at))

AddMonthsClamped(at, months, anchorDay) ==
    LET target == Date(Year(at), Month(at) + months, 1)
        day    == IF anchorDay < 1 THEN Day(at) ELSE anchorDay
        last   == daysInMonth(Year(target), Month(target))
    IN  Date(Year(target), Month(target), IF day > last THEN last ELSE day)

NextPaymentDue(frequency, customIntervalDays, anchorDay, current) ==
    CASE PaymentFrequencyMonths(frequency) > 0 ->
             AddMonthsClamped(current, PaymentFrequencyMonths(frequency), anchorDay)
      [] frequency = "custom" ->
             AddDate(current, 0, 0, IF customIntervalDays < 1 THEN 1 ELSE customIntervalDays)
      [] OTHER -> current

NextDueFor(payment, current) ==
    NextPaymentDue(payment.frequency, payment.interval, Day(payment.start), current)

=============================================================================
