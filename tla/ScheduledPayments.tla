-------------------------- MODULE ScheduledPayments --------------------------
(***************************************************************************)
(* Recurring payments: the scheduler loop that every replica runs           *)
(* (ScheduledPaymentService.PostDue), the posting ledger that coordinates   *)
(* them, and the owner who creates, edits and deletes payments meanwhile.   *)
(*                                                                         *)
(* Dates are day numbers and a payment recurs every so many days (the       *)
(* month-based cadences only change the successor function).  Every         *)
(* statement that commits on its own is a step of its own: the ledger       *)
(* insert, the notification insert, the expense transaction, the cursor     *)
(* update.                                                                  *)
(*                                                                         *)
(* The program runs on PostgreSQL or, without a database, on in-memory      *)
(* repositories in a single process; the two differ in what the ledger      *)
(* accepts (see Refused) and in what can fail.                              *)
(***************************************************************************)
EXTENDS Integers, FiniteSets

CONSTANTS
    Payments,
    Schedulers,     \* replicas running postDuePayments
    Worlds,         \* what a behaviour is about: which payments there may be, what
                    \* their owner may enter (records as in Template), how many
                    \* edits and deletions, how many days
    MaxDay,         \* bound on the clock
    MaxFaults,      \* bound on failed statements and crashes
    Horizon,        \* maxReminderLeadDays
    BatchSize       \* duePaymentBatchSize

NoDate == 0         \* a NULL end_date or last_posted_at

Day == 1 .. (2 * MaxDay + 2)

(* The editable fields of domain.ScheduledPayment that control scheduling. *)
Template == [start : Day, every : Day, end : Day \cup {NoDate},
             auto : BOOLEAN, lead : Nat, paused : BOOLEAN]

ASSUME ScheduledAssumption ==
    /\ \A w \in Worlds : /\ w.payments \subseteq Payments /\ w.templates \subseteq Template
                          /\ w.edits \in Nat /\ w.days \in 0..MaxDay
    /\ MaxDay \in Nat /\ MaxFaults \in Nat
    /\ Horizon \in Nat /\ BatchSize \in Nat \ {0}

VARIABLES
    world,          \* fixed at the start
    durable,        \* whether there is a database, fixed at the start
    row,            \* payments.scheduled_payments
    ledger,         \* payments.scheduled_payment_postings: <<payment, due, kind>>
    expenses,       \* how often an occurrence was posted: [Payments \X Day -> Nat]
    notices,        \* queued e-mails: [Payments \X Day \X Kind -> Nat]
    postedEvents,   \* scheduled_payment_posted events: <<payment, due>>
    today,          \* the clock
    pc,             \* where each scheduler is in runOccurrence
    now,            \* the time its pass started with
    batch,          \* payments of this pass it has not looked at, as read
    cur,            \* the payment it is working on, as read by the pass
    edit,           \* the owner's request: the payment as read, or none
    edits,          \* requests so far
    edited,         \* history: payments that were ever edited
    hit,            \* history: payments a fault interrupted after a claim
    faults

sched == <<pc, now, batch, cur>>
owner == <<edit, edits, edited>>
posts == <<ledger, expenses, notices, postedEvents>>
fault == <<hit, faults>>
fixed == <<world, durable>>
vars  == <<fixed, row, posts, today, sched, owner, fault>>

Kind == {"reminder", "due"}
PC   == {"idle", "loop", "remind", "notify", "post", "advance"}

Absent == [state |-> "absent"]
RowOf(p, t, next, last) ==
    [state |-> "live", id |-> p, next |-> next, last |-> last, start |-> t.start,
     every |-> t.every, end |-> t.end, auto |-> t.auto, lead |-> t.lead,
     paused |-> t.paused]

TypeOK ==
    /\ durable \in BOOLEAN
    /\ \A p \in Payments : \/ row[p] = Absent
                           \/ row[p].state \in {"live", "deleted"} /\ row[p].id = p
                              /\ row[p].next \in Nat \ {0} /\ row[p].last \in Nat
    /\ ledger \subseteq Payments \X Nat \X Kind
    /\ \A p \in Payments, d \in Day : expenses[<<p, d>>] \in Nat
    /\ \A p \in Payments, d \in Day, k \in Kind : notices[<<p, d, k>>] \in Nat
    /\ postedEvents \subseteq Payments \X Nat
    /\ today \in 0..MaxDay
    /\ pc \in [Schedulers -> PC]
    /\ \A s \in Schedulers : pc[s] \notin {"idle", "loop"} => cur[s].state = "live"
    /\ edits \in 0..world.edits /\ faults \in 0..MaxFaults
    /\ edited \subseteq Payments /\ hit \subseteq Payments

Init ==
    /\ world \in Worlds
    /\ durable \in BOOLEAN
    /\ row = [p \in Payments |-> Absent]
    /\ ledger = {} /\ postedEvents = {}
    /\ expenses = [o \in Payments \X Day |-> 0]
    /\ notices = [o \in Payments \X Day \X Kind |-> 0]
    /\ today = 0
    /\ pc = [s \in Schedulers |-> "idle"]
    /\ now = [s \in Schedulers |-> 0]
    /\ batch = [s \in Schedulers |-> {}]
    /\ cur = [s \in Schedulers |-> Absent]
    /\ edit = Absent /\ edits = 0 /\ edited = {}
    /\ hit = {} /\ faults = 0

Live(p)   == row[p].state = "live"
Finished(r, due) == r.end # NoDate /\ due > r.end
NextDueFor(r, due) == due + r.every

(* The occurrence a scheduler is working on. *)
Due(s) == cur[s].next
Payment(s) == cur[s].id
-----------------------------------------------------------------------------
(* The owner.  Every edit reads the payment first, outside the transaction  *)
(* that appends the event and replaces the row.                             *)
Request == edits < world.edits /\ edits' = edits + 1

(* validateScheduledPayment *)
Valid(t) == t.lead <= Horizon /\ (t.end = NoDate \/ t.end >= t.start)

\* Mutated form of CreateScheduledPayment: the cursor is not set.
CreateWithoutCursor(p) ==
    /\ p \in world.payments /\ row[p] = Absent
    /\ \E t \in world.templates : Valid(t) /\ row' = [row EXCEPT ![p] = RowOf(p, t, NoDate, NoDate)]
    /\ UNCHANGED <<fixed, posts, today, sched, owner, fault>>

CreateScheduledPayment(p) ==
    /\ p \in world.payments /\ row[p] = Absent
    /\ \E t \in world.templates : Valid(t) /\ row' = [row EXCEPT ![p] = RowOf(p, t, t.start, NoDate)]
    /\ UNCHANGED <<fixed, posts, today, sched, owner, fault>>

GetScheduledPayment(p) ==
    /\ edit = Absent
    /\ Live(p)
    /\ Request
    /\ edit' = row[p]
    /\ UNCHANGED <<fixed, row, posts, today, sched, edited, fault>>

(* The first occurrence of the new recurrence after the last posted one;   *)
(* the code steps to it, and gives up after 1000 recurrences.              *)
RescheduleFrom(t, last) ==
    IF last = NoDate \/ t.start > last THEN t.start
    ELSE t.start + ((last - t.start) \div t.every + 1) * t.every

EditedRow(r, t) ==
    LET rescheduled == t.start # r.start \/ t.every # r.every IN
    RowOf(r.id, t, IF rescheduled THEN RescheduleFrom(t, r.last) ELSE r.next, r.last)

(* The whole row is overwritten with what was read and edited, except for   *)
(* last_posted_at on PostgreSQL; a payment deleted meanwhile makes the      *)
(* update fail.                                                             *)
UpdateScheduledPayment ==
    /\ edit # Absent
    /\ \E t \in world.templates :
        /\ Valid(t)
        /\ row' = IF Live(edit.id)
                  THEN [row EXCEPT ![edit.id] =
                          [EditedRow(edit, t) EXCEPT
                             !.last = IF durable THEN row[edit.id].last ELSE edit.last]]
                  ELSE row
    /\ edit' = Absent
    /\ edited' = edited \cup {edit.id}
    /\ UNCHANGED <<fixed, posts, today, sched, edits, fault>>

DeleteScheduledPayment ==
    /\ edit # Absent
    /\ row' = IF Live(edit.id) THEN [row EXCEPT ![edit.id].state = "deleted"] ELSE row
    /\ edit' = Absent
    /\ UNCHANGED <<fixed, posts, today, sched, edits, edited, fault>>
-----------------------------------------------------------------------------
(* The scheduler. *)
NextDay ==
    /\ today < world.days
    /\ today' = today + 1
    /\ UNCHANGED <<fixed, row, posts, sched, owner, fault>>

DueRows == {row[p] : p \in {q \in Payments : /\ Live(q) /\ ~row[q].paused
                                              /\ row[q].next <= today + Horizon}}

\* Mutated form of ListDueScheduledPayments: one payment a pass.
ListOneDuePayment(b) ==
    /\ b \subseteq DueRows
    /\ Cardinality(b) = 1
    /\ \A r \in b, q \in DueRows \ b : r.next <= q.next

(* order by next_due_at limit BatchSize *)
ListDueScheduledPayments(b) ==
    /\ b \subseteq DueRows
    /\ Cardinality(b) = IF Cardinality(DueRows) < BatchSize
                        THEN Cardinality(DueRows) ELSE BatchSize
    /\ \A r \in b, q \in DueRows \ b : r.next <= q.next

(* Without a database there is one process, so one pass at a time.          *)
PostDue(s) ==
    /\ pc[s] = "idle"
    /\ durable \/ \A t \in Schedulers : pc[t] = "idle"
    /\ \E b \in SUBSET DueRows :
        /\ b # {} /\ ListDueScheduledPayments(b)
        /\ batch' = [batch EXCEPT ![s] = b]
    /\ now' = [now EXCEPT ![s] = today]
    /\ pc' = [pc EXCEPT ![s] = "loop"]
    /\ UNCHANGED <<fixed, row, posts, today, cur, owner, fault>>

(* The next payment of the batch, oldest occurrence first. *)
Oldest(s, r) == r \in batch[s] /\ \A q \in batch[s] : r.next <= q.next

Reminds(s, r) == /\ r.lead > 0
                 /\ now[s] >= r.next - r.lead
                 /\ now[s] < r.next

(* Where the pass goes on after this payment. *)
Done(s, b) == /\ batch' = [batch EXCEPT ![s] = b]
              /\ pc' = [pc EXCEPT ![s] = IF b = {} THEN "idle" ELSE "loop"]
              /\ cur' = [cur EXCEPT ![s] = Absent]

Work(s, r, where) == /\ batch' = [batch EXCEPT ![s] = @ \ {r}]
                     /\ pc' = [pc EXCEPT ![s] = where]
                     /\ cur' = [cur EXCEPT ![s] = r]

(* runOccurrence with nothing to do yet. *)
NotYet(s) ==
    /\ pc[s] = "loop"
    /\ \E r \in batch[s] : /\ Oldest(s, r)
                           /\ now[s] < r.next /\ ~Reminds(s, r)
                           /\ Done(s, batch[s] \ {r})
    /\ UNCHANGED <<fixed, row, posts, today, now, owner, fault>>

(* The ledger row of an auto-posting occurrence names the expense that      *)
(* postExpense inserts only afterwards; in PostgreSQL the column references *)
(* expenses.expenses, so the insert fails and the pass moves on.            *)
Refused(r, kind) == durable /\ kind = "due" /\ r.auto

\* Mutated form of Claim: the conflict is not noticed.
ClaimAgain(s, r, kind, where) ==
    IF Refused(r, kind)
    THEN Done(s, batch[s] \ {r}) /\ UNCHANGED ledger
    ELSE ledger' = ledger \cup {<<r.id, r.next, kind>>} /\ Work(s, r, where)

(* ClaimPosting: insert ... on conflict do nothing, one row wins. *)
Claim(s, r, kind, where) ==
    IF <<r.id, r.next, kind>> \in ledger \/ Refused(r, kind)
    THEN Done(s, batch[s] \ {r}) /\ UNCHANGED ledger
    ELSE ledger' = ledger \cup {<<r.id, r.next, kind>>} /\ Work(s, r, where)

ClaimReminder(s) ==
    /\ pc[s] = "loop"
    /\ \E r \in batch[s] : Oldest(s, r) /\ Reminds(s, r) /\ Claim(s, r, "reminder", "remind")
    /\ UNCHANGED <<fixed, row, expenses, notices, postedEvents, today, now, owner, fault>>

ClaimDue(s) ==
    /\ pc[s] = "loop"
    /\ \E r \in batch[s] : /\ Oldest(s, r)
                           /\ now[s] >= r.next /\ ~Finished(r, r.next)
                           /\ Claim(s, r, "due", "notify")
    /\ UNCHANGED <<fixed, row, expenses, notices, postedEvents, today, now, owner, fault>>

(* AdvanceSchedule: nothing but the id and deleted_at is compared; a        *)
(* deleted payment makes it fail, which only ends this payment's turn.      *)
AdvanceSchedule(p, next, last, paused) ==
    row' = IF Live(p)
           THEN [row EXCEPT ![p].next = next, ![p].last = last, ![p].paused = paused]
           ELSE row

(* The cursor already points past the end date. *)
StopFinished(s) ==
    /\ pc[s] = "loop"
    /\ \E r \in batch[s] : /\ Oldest(s, r)
                           /\ now[s] >= r.next /\ Finished(r, r.next)
                           /\ AdvanceSchedule(r.id, r.next, r.next, TRUE)
                           /\ Done(s, batch[s] \ {r})
    /\ UNCHANGED <<fixed, posts, today, now, owner, fault>>

QueueReminder(s) ==
    /\ pc[s] = "remind"
    /\ notices' = [notices EXCEPT ![<<Payment(s), Due(s), "reminder">>] = @ + 1]
    /\ Done(s, batch[s])
    /\ UNCHANGED <<fixed, row, ledger, expenses, postedEvents, today, now, owner, fault>>

QueueDueNotification(s) ==
    /\ pc[s] = "notify"
    /\ notices' = [notices EXCEPT ![<<Payment(s), Due(s), "due">>] = @ + 1]
    /\ pc' = [pc EXCEPT ![s] = IF cur[s].auto THEN "post" ELSE "advance"]
    /\ UNCHANGED <<fixed, row, ledger, expenses, postedEvents, today, now, batch, cur, owner, fault>>

PostExpense(s) ==
    /\ pc[s] = "post"
    /\ expenses' = [expenses EXCEPT ![<<Payment(s), Due(s)>>] = @ + 1]
    /\ postedEvents' = postedEvents \cup {<<Payment(s), Due(s)>>}
    /\ pc' = [pc EXCEPT ![s] = "advance"]
    /\ UNCHANGED <<fixed, row, ledger, notices, today, now, batch, cur, owner, fault>>

\* Mutated form of Advance: the cursor follows the clock, not the occurrence.
AdvanceFromNow(s) ==
    LET next == NextDueFor(cur[s], now[s]) IN
    /\ pc[s] = "advance"
    /\ AdvanceSchedule(Payment(s), next, Due(s), Finished(cur[s], next))
    /\ Done(s, batch[s])
    /\ UNCHANGED <<fixed, posts, today, now, owner, fault>>

Advance(s) ==
    LET next == NextDueFor(cur[s], Due(s)) IN
    /\ pc[s] = "advance"
    /\ AdvanceSchedule(Payment(s), next, Due(s), Finished(cur[s], next))
    /\ Done(s, batch[s])
    /\ UNCHANGED <<fixed, posts, today, now, owner, fault>>

(* The in-memory repositories do not fail, and a crash takes everything     *)
(* with it.                                                                 *)
Fault(s) ==
    /\ durable
    /\ faults < MaxFaults /\ faults' = faults + 1
    /\ hit' = IF cur[s] = Absent THEN hit ELSE hit \cup {Payment(s)}

(* A statement after the claim fails: the error is collected, the pass goes *)
(* on with the next payment.                                                *)
StepFails(s) ==
    /\ pc[s] \in {"remind", "notify", "post", "advance"}
    /\ Fault(s)
    /\ Done(s, batch[s])
    /\ UNCHANGED <<fixed, row, posts, today, now, owner>>

(* The replica dies; a new one starts with an empty pass. *)
Crash(s) ==
    /\ pc[s] # "idle"
    /\ Fault(s)
    /\ Done(s, {})
    /\ UNCHANGED <<fixed, row, posts, today, now, owner>>

RunOccurrence(s) ==
    \/ NotYet(s) \/ ClaimReminder(s) \/ ClaimDue(s) \/ StopFinished(s)
    \/ QueueReminder(s) \/ QueueDueNotification(s) \/ PostExpense(s) \/ Advance(s)

Next ==
    \/ \E p \in Payments : CreateScheduledPayment(p) \/ GetScheduledPayment(p)
    \/ UpdateScheduledPayment
    \/ DeleteScheduledPayment
    \/ NextDay
    \/ \E s \in Schedulers : PostDue(s) \/ RunOccurrence(s) \/ StepFails(s) \/ Crash(s)

Spec == Init /\ [][Next]_vars

(* The ticker fires for ever, a pass that started goes on, days pass.       *)
FairSpec ==
    /\ Spec
    /\ WF_vars(NextDay)
    /\ \A s \in Schedulers : WF_vars(PostDue(s)) /\ WF_vars(RunOccurrence(s))
-----------------------------------------------------------------------------
(* "two schedulers racing on the same occurrence produce exactly one        *)
(* expense and one notification": never more than one, whatever crashes,    *)
(* fails or is edited.                                                      *)
AtMostOnce ==
    \A p \in Payments, d \in Day :
        /\ expenses[<<p, d>>] <= 1
        /\ \A k \in Kind : notices[<<p, d, k>>] <= 1

(* The cursor of a payment nobody edited skips nothing: every occurrence of *)
(* the series before it has been claimed and announced, with its expense if *)
(* the payment auto-posts, whatever replicas, faults and clock did.         *)
NothingSkipped ==
    \A p \in Payments : row[p] # Absent /\ p \notin edited =>
        \A d \in Day :
            /\ d >= row[p].start /\ d < row[p].next
            /\ (d - row[p].start) % row[p].every = 0
            => /\ <<p, d, "due">> \in ledger
               /\ notices[<<p, d, "due">>] = 1
               /\ row[p].auto => expenses[<<p, d>>] = 1

Waiting(p, d) ==
    /\ Live(p) /\ ~row[p].paused
    /\ row[p].next = d /\ d <= today /\ ~Finished(row[p], d)

Settled(p, d) ==
    \/ ~Live(p) \/ row[p].paused
    \/ notices[<<p, d, "due">>] = 1 /\ (row[p].auto => expenses[<<p, d>>] = 1)

(* "auto-posts a confirmed expense as each occurrence falls due": every     *)
(* occurrence that has come due is eventually announced and, if the payment *)
(* auto-posts, posted, unless the payment is paused or deleted first.       *)
DuePosted == \A p \in Payments, d \in 1..MaxDay : Waiting(p, d) ~> Settled(p, d)

(* "a single bad row cannot stall every other user's rent": a payment that  *)
(* fails, once or on every pass, costs that payment only; every other one   *)
(* nobody edits is handled when it comes due.                               *)
OthersPosted ==
    \A p \in Payments, d \in 1..MaxDay :
        Waiting(p, d) /\ ~Refused(row[p], "due")
            ~> Settled(p, d) \/ p \in hit \/ p \in edited
=============================================================================
