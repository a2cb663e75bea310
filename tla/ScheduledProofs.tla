--------------------------- MODULE ScheduledProofs ---------------------------
(***************************************************************************)
(* Proofs about ScheduledPayments for every set of payments, schedulers,    *)
(* schedules and edits, on PostgreSQL and in memory.                        *)
(***************************************************************************)
EXTENDS ScheduledPayments, TLAPS

(* What a scheduler claimed and has not finished with: the ledger row it    *)
(* inserted.                                                                *)
Working(s) == pc[s] \in {"remind", "notify", "post"}
KindOf(s)  == IF pc[s] = "remind" THEN "reminder" ELSE "due"
ClaimOf(s) == <<cur[s].id, cur[s].next, KindOf(s)>>

Counts ==
    /\ expenses \in [Payments \X Day -> Nat]
    /\ notices \in [Payments \X Day \X Kind -> Nat]
    /\ pc \in [Schedulers -> PC]
    /\ cur = [s \in Schedulers |-> cur[s]]

(* A claim is in the ledger, and it is one scheduler's. *)
Claims ==
    \A s \in Schedulers : Working(s) =>
        /\ ClaimOf(s) \in ledger
        /\ \A t \in Schedulers : Working(t) /\ ClaimOf(t) = ClaimOf(s) => t = s

(* What is not in the ledger was neither announced nor posted. *)
Unclaimed ==
    \A p \in Payments, d \in Day :
        /\ \A k \in Kind : <<p, d, k>> \notin ledger => notices[<<p, d, k>>] = 0
        /\ <<p, d, "due">> \notin ledger => expenses[<<p, d>>] = 0

(* What its scheduler has yet to do has not been done. *)
Outstanding ==
    \A s \in Schedulers, p \in Payments, d \in Day :
        Working(s) /\ cur[s].id = p /\ cur[s].next = d =>
            /\ pc[s] = "remind" => notices[<<p, d, "reminder">>] = 0
            /\ pc[s] = "notify" => notices[<<p, d, "due">>] = 0
            /\ pc[s] \in {"notify", "post"} => expenses[<<p, d>>] = 0

OnceInv == Counts /\ AtMostOnce /\ Claims /\ Unclaimed /\ Outstanding

(* Counting one more of c. *)
LEMMA Increment ==
    ASSUME NEW S, NEW f \in [S -> Nat], NEW c
    PROVE  /\ [f EXCEPT ![c] = @ + 1] \in [S -> Nat]
           /\ \A x \in S : /\ x = c => [f EXCEPT ![c] = @ + 1][x] = f[x] + 1
                           /\ x # c => [f EXCEPT ![c] = @ + 1][x] = f[x]
<1>1. CASE c \in S
    BY <1>1
<1>2. CASE c \notin S
  <2>1. [f EXCEPT ![c] = @ + 1] = f
      BY <1>2
  <2> QED BY <1>2, <2>1
<1> QED BY <1>1, <1>2

LEMMA OnceInit == Init => OnceInv
<1> SUFFICES ASSUME Init PROVE OnceInv OBVIOUS
<1>1. \A s \in Schedulers : pc[s] = "idle"
    BY DEF Init
<1>2. Counts
    BY DEF Init, Counts, PC
<1>3. \A p \in Payments, d \in Day : expenses[<<p, d>>] = 0 /\ \A k \in Kind : notices[<<p, d, k>>] = 0
    BY DEF Init
<1>4. AtMostOnce /\ Unclaimed
    BY <1>3 DEF AtMostOnce, Unclaimed
<1>5. Claims /\ Outstanding
    BY <1>1 DEF Claims, Outstanding, Working
<1> QED BY <1>2, <1>4, <1>5 DEF OnceInv

(* A scheduler that drops what it was doing. *)
LEMMA DropKeeps ==
    ASSUME OnceInv, NEW s \in Schedulers, NEW b, Done(s, b),
           UNCHANGED <<ledger, expenses, notices>>
    PROVE  OnceInv'
<1> USE DEF OnceInv
<1>1. pc' = [pc EXCEPT ![s] = IF b = {} THEN "idle" ELSE "loop"] /\ cur' = [cur EXCEPT ![s] = Absent]
    BY DEF Done
<1>2. Counts'
    BY <1>1 DEF Counts, PC
<1>3. ~Working(s)' /\ pc'[s] \notin {"remind", "notify", "post"}
    BY <1>1 DEF Working, Counts
<1>4. \A t \in Schedulers \ {s} : pc'[t] = pc[t] /\ cur'[t] = cur[t]
    BY <1>1 DEF Counts
<1>5. \A t \in Schedulers \ {s} : Working(t)' = Working(t) /\ ClaimOf(t)' = ClaimOf(t)
    BY <1>4 DEF Working, ClaimOf, KindOf
<1>6. Claims'
    BY <1>3, <1>5 DEF Claims
<1>7. Outstanding'
    BY <1>3, <1>4 DEF Outstanding, Working
<1> QED BY <1>2, <1>6, <1>7 DEF AtMostOnce, Unclaimed

(* ClaimPosting: the insert that wins names an occurrence nobody has worked *)
(* on; the one that loses leaves everything as it was.                      *)
LEMMA ClaimKeeps ==
    ASSUME OnceInv, NEW s \in Schedulers, NEW r, NEW kind \in Kind, NEW where,
           pc[s] = "loop",
           \/ kind = "reminder" /\ where = "remind"
           \/ kind = "due" /\ where = "notify",
           Claim(s, r, kind, where), UNCHANGED <<expenses, notices>>
    PROVE  OnceInv'
<1> USE DEF OnceInv
<1> DEFINE c == <<r.id, r.next, kind>>
<1>1. CASE UNCHANGED ledger /\ Done(s, batch[s] \ {r})
    BY <1>1, DropKeeps
<1>2. CASE c \notin ledger /\ ledger' = ledger \cup {c} /\ Work(s, r, where)
  <2>1. pc' = [pc EXCEPT ![s] = where] /\ cur' = [cur EXCEPT ![s] = r]
      BY <1>2 DEF Work
  <2>2. Counts'
      BY <2>1 DEF Counts, PC
  <2>3. pc'[s] = where /\ cur'[s] = r
      BY <2>1 DEF Counts
  <2>4. Working(s)' /\ ClaimOf(s)' = c
      BY <2>3 DEF Working, ClaimOf, KindOf
  <2>5. \A t \in Schedulers \ {s} : pc'[t] = pc[t] /\ cur'[t] = cur[t]
      BY <2>1 DEF Counts
  <2>6. \A t \in Schedulers \ {s} : Working(t)' = Working(t) /\ ClaimOf(t)' = ClaimOf(t)
      BY <2>5 DEF Working, ClaimOf, KindOf
  <2>7. Claims'
      BY <1>2, <2>4, <2>6 DEF Claims
  <2>8. Unclaimed'
      BY <1>2 DEF Unclaimed
  <2>9. Outstanding'
    <3> SUFFICES ASSUME NEW t \in Schedulers, NEW p \in Payments, NEW d \in Day,
                        cur'[t].id = p, cur'[t].next = d
                 PROVE  /\ pc'[t] = "remind" => notices[<<p, d, "reminder">>] = 0
                        /\ pc'[t] = "notify" => notices[<<p, d, "due">>] = 0
                        /\ pc'[t] \in {"notify", "post"} => expenses[<<p, d>>] = 0
        BY DEF Outstanding, Working
    <3>1. CASE t = s
        BY <1>2, <2>3, <3>1 DEF Unclaimed
    <3>2. CASE t # s
        BY <2>5, <3>2 DEF Outstanding, Working
    <3> QED BY <3>1, <3>2
  <2> QED BY <2>2, <2>7, <2>8, <2>9 DEF AtMostOnce
<1> QED BY <1>1, <1>2 DEF Claim

(* The reminder is queued by the scheduler whose claim it is, once. *)
LEMMA ReminderKeeps ==
    ASSUME OnceInv, NEW s \in Schedulers, QueueReminder(s)
    PROVE  OnceInv'
<1> USE DEF OnceInv
<1> DEFINE c == <<cur[s].id, cur[s].next, "reminder">>
<1>1. /\ pc[s] = "remind" /\ Working(s) /\ ClaimOf(s) = c
      /\ notices' = [notices EXCEPT ![c] = @ + 1]
      /\ UNCHANGED <<ledger, expenses>>
    BY DEF QueueReminder, Working, ClaimOf, KindOf, Payment, Due
<1>2. pc' = [pc EXCEPT ![s] = IF batch[s] = {} THEN "idle" ELSE "loop"] /\ cur' = [cur EXCEPT ![s] = Absent]
    BY DEF QueueReminder, Done
<1>3. Counts'
  <2>1. notices' \in [Payments \X Day \X Kind -> Nat]
      BY <1>1, Increment DEF Counts
  <2> QED BY <1>1, <1>2, <2>1 DEF Counts, PC
<1>4. \A p \in Payments, d \in Day, k \in Kind :
        /\ <<p, d, k>> = c => notices'[<<p, d, k>>] = notices[<<p, d, k>>] + 1
        /\ <<p, d, k>> # c => notices'[<<p, d, k>>] = notices[<<p, d, k>>]
    BY <1>1, Increment DEF Counts
<1>5. \A p \in Payments, d \in Day, k \in Kind : <<p, d, k>> = c => notices[<<p, d, k>>] = 0
    BY <1>1, ZenonT(30) DEF Outstanding
<1>6. AtMostOnce'
  <2> SUFFICES ASSUME NEW p \in Payments, NEW d \in Day, NEW k \in Kind
               PROVE  notices'[<<p, d, k>>] <= 1
      BY <1>1 DEF AtMostOnce
  <2>1. notices[<<p, d, k>>] <= 1
      BY DEF AtMostOnce
  <2>2. CASE <<p, d, k>> = c
    <3>1. notices[<<p, d, k>>] = 0
        BY <1>5, <2>2
    <3>2. notices'[<<p, d, k>>] = notices[<<p, d, k>>] + 1
        BY <1>4, <2>2
    <3> QED BY <3>1, <3>2
  <2>3. CASE <<p, d, k>> # c
      BY <1>4, <2>1, <2>3
  <2> QED BY <2>2, <2>3
<1>7. c \in ledger
    BY <1>1 DEF Claims
<1>8. Unclaimed'
    BY <1>1, <1>4, <1>7 DEF Unclaimed
<1>9. ~Working(s)' /\ pc'[s] \notin {"remind", "notify", "post"}
    BY <1>2 DEF Working, Counts
<1>10. \A t \in Schedulers \ {s} : pc'[t] = pc[t] /\ cur'[t] = cur[t]
    BY <1>2 DEF Counts
<1>11. \A t \in Schedulers \ {s} : Working(t)' = Working(t) /\ ClaimOf(t)' = ClaimOf(t)
    BY <1>10 DEF Working, ClaimOf, KindOf
<1>12. Claims'
    BY <1>1, <1>9, <1>11 DEF Claims
<1>13. Outstanding'
  <2> SUFFICES ASSUME NEW t \in Schedulers \ {s}, NEW p \in Payments, NEW d \in Day,
                      cur[t].id = p, cur[t].next = d
               PROVE  /\ pc[t] = "remind" => notices'[<<p, d, "reminder">>] = 0
                      /\ pc[t] = "notify" => notices'[<<p, d, "due">>] = 0
                      /\ pc[t] \in {"notify", "post"} => expenses[<<p, d>>] = 0
      BY <1>1, <1>9, <1>10 DEF Outstanding, Working
  <2>1. pc[t] = "remind" => <<p, d, "reminder">> # c
      BY <1>1 DEF Claims, Working, ClaimOf, KindOf
  <2>2. <<p, d, "due">> # c
      OBVIOUS
  <2>3. "due" \in Kind /\ "reminder" \in Kind
      BY DEF Kind
  <2> QED BY <1>4, <2>1, <2>2, <2>3 DEF Outstanding, Working
<1> QED BY <1>3, <1>6, <1>8, <1>12, <1>13

(* So is the notification of an occurrence that came due. *)
LEMMA NotifyKeeps ==
    ASSUME OnceInv, NEW s \in Schedulers, QueueDueNotification(s)
    PROVE  OnceInv'
<1> USE DEF OnceInv
<1> DEFINE c == <<cur[s].id, cur[s].next, "due">>
<1>1. /\ pc[s] = "notify" /\ Working(s) /\ ClaimOf(s) = c
      /\ notices' = [notices EXCEPT ![c] = @ + 1]
      /\ UNCHANGED <<ledger, expenses, cur>>
    BY DEF QueueDueNotification, Working, ClaimOf, KindOf, Payment, Due
<1>2. pc' = [pc EXCEPT ![s] = IF cur[s].auto THEN "post" ELSE "advance"]
    BY DEF QueueDueNotification
<1>3. Counts'
  <2>1. notices' \in [Payments \X Day \X Kind -> Nat]
      BY <1>1, Increment DEF Counts
  <2> QED BY <1>1, <1>2, <2>1 DEF Counts, PC
<1>4. \A p \in Payments, d \in Day, k \in Kind :
        /\ <<p, d, k>> = c => notices'[<<p, d, k>>] = notices[<<p, d, k>>] + 1
        /\ <<p, d, k>> # c => notices'[<<p, d, k>>] = notices[<<p, d, k>>]
    BY <1>1, Increment DEF Counts
<1>5. \A p \in Payments, d \in Day, k \in Kind : <<p, d, k>> = c => notices[<<p, d, k>>] = 0
    BY <1>1 DEF Outstanding, Working
<1>6. AtMostOnce'
  <2> SUFFICES ASSUME NEW p \in Payments, NEW d \in Day, NEW k \in Kind
               PROVE  notices'[<<p, d, k>>] <= 1
      BY <1>1 DEF AtMostOnce
  <2>1. notices[<<p, d, k>>] <= 1
      BY DEF AtMostOnce
  <2>2. CASE <<p, d, k>> = c
    <3>1. notices[<<p, d, k>>] = 0
        BY <1>5, <2>2
    <3>2. notices'[<<p, d, k>>] = notices[<<p, d, k>>] + 1
        BY <1>4, <2>2
    <3> QED BY <3>1, <3>2
  <2>3. CASE <<p, d, k>> # c
      BY <1>4, <2>1, <2>3
  <2> QED BY <2>2, <2>3
<1>7. c \in ledger
    BY <1>1 DEF Claims
<1>8. Unclaimed'
    BY <1>1, <1>4, <1>7 DEF Unclaimed
<1>9. pc'[s] \in {"post", "advance"}
    BY <1>2 DEF Counts
<1>10. \A t \in Schedulers \ {s} : pc'[t] = pc[t]
    BY <1>2 DEF Counts
<1>11. \A t \in Schedulers : (Working(t)' => Working(t)) /\ ClaimOf(t)' = ClaimOf(t)
    BY <1>1, <1>9, <1>10 DEF Working, ClaimOf, KindOf
<1>12. Claims'
    BY <1>1, <1>11 DEF Claims
<1>13. Outstanding'
  <2> SUFFICES ASSUME NEW t \in Schedulers, NEW p \in Payments, NEW d \in Day,
                      cur[t].id = p, cur[t].next = d
               PROVE  /\ pc'[t] = "remind" => notices'[<<p, d, "reminder">>] = 0
                      /\ pc'[t] = "notify" => notices'[<<p, d, "due">>] = 0
                      /\ pc'[t] \in {"notify", "post"} => expenses[<<p, d>>] = 0
      BY <1>1 DEF Outstanding, Working
  <2>1. CASE t = s
      BY <1>1, <1>9, <2>1 DEF Outstanding, Working
  <2>2. CASE t # s
    <3>1. pc[t] = "notify" => <<p, d, "due">> # c
        BY <1>1, <2>2 DEF Claims, Working, ClaimOf, KindOf
    <3>2. <<p, d, "reminder">> # c
        OBVIOUS
    <3>3. "due" \in Kind /\ "reminder" \in Kind
        BY DEF Kind
    <3> QED BY <1>4, <1>10, <2>2, <3>1, <3>2, <3>3 DEF Outstanding, Working
  <2> QED BY <2>1, <2>2
<1> QED BY <1>3, <1>6, <1>8, <1>12, <1>13

(* And the expense. *)
LEMMA PostKeeps ==
    ASSUME OnceInv, NEW s \in Schedulers, PostExpense(s)
    PROVE  OnceInv'
<1> USE DEF OnceInv
<1> DEFINE c == <<cur[s].id, cur[s].next, "due">>
           o == <<cur[s].id, cur[s].next>>
<1>1. /\ pc[s] = "post" /\ Working(s) /\ ClaimOf(s) = c
      /\ expenses' = [expenses EXCEPT ![o] = @ + 1]
      /\ UNCHANGED <<ledger, notices, cur>>
    BY DEF PostExpense, Working, ClaimOf, KindOf, Payment, Due
<1>2. pc' = [pc EXCEPT ![s] = "advance"]
    BY DEF PostExpense
<1>3. Counts'
  <2>1. expenses' \in [Payments \X Day -> Nat]
      BY <1>1, Increment DEF Counts
  <2> QED BY <1>1, <1>2, <2>1 DEF Counts, PC
<1>4. \A p \in Payments, d \in Day :
        /\ <<p, d>> = o => expenses'[<<p, d>>] = expenses[<<p, d>>] + 1
        /\ <<p, d>> # o => expenses'[<<p, d>>] = expenses[<<p, d>>]
    BY <1>1, Increment DEF Counts
<1>5. \A p \in Payments, d \in Day : <<p, d>> = o => expenses[<<p, d>>] = 0
    BY <1>1 DEF Outstanding, Working
<1>6. AtMostOnce'
  <2> SUFFICES ASSUME NEW p \in Payments, NEW d \in Day
               PROVE  expenses'[<<p, d>>] <= 1
      BY <1>1 DEF AtMostOnce
  <2>1. expenses[<<p, d>>] <= 1
      BY DEF AtMostOnce
  <2>2. CASE <<p, d>> = o
    <3>1. expenses[<<p, d>>] = 0
        BY <1>5, <2>2
    <3>2. expenses'[<<p, d>>] = expenses[<<p, d>>] + 1
        BY <1>4, <2>2
    <3> QED BY <3>1, <3>2
  <2>3. CASE <<p, d>> # o
      BY <1>4, <2>1, <2>3
  <2> QED BY <2>2, <2>3
<1>7. c \in ledger
    BY <1>1 DEF Claims
<1>8. Unclaimed'
    BY <1>1, <1>4, <1>7 DEF Unclaimed
<1>9. pc'[s] = "advance"
    BY <1>2 DEF Counts
<1>10. \A t \in Schedulers \ {s} : pc'[t] = pc[t]
    BY <1>2 DEF Counts
<1>11. \A t \in Schedulers : (Working(t)' => Working(t)) /\ ClaimOf(t)' = ClaimOf(t)
    BY <1>1, <1>9, <1>10 DEF Working, ClaimOf, KindOf
<1>12. Claims'
    BY <1>1, <1>11 DEF Claims
<1>13. Outstanding'
  <2> SUFFICES ASSUME NEW t \in Schedulers \ {s}, NEW p \in Payments, NEW d \in Day,
                      cur[t].id = p, cur[t].next = d
               PROVE  /\ pc[t] = "remind" => notices[<<p, d, "reminder">>] = 0
                      /\ pc[t] = "notify" => notices[<<p, d, "due">>] = 0
                      /\ pc[t] \in {"notify", "post"} => expenses'[<<p, d>>] = 0
      BY <1>1, <1>9, <1>10 DEF Outstanding, Working
  <2>1. pc[t] \in {"notify", "post"} => <<p, d, "due">> # c
      BY <1>1 DEF Claims, Working, ClaimOf, KindOf
  <2> QED BY <1>4, <2>1 DEF Outstanding, Working
<1> QED BY <1>3, <1>6, <1>8, <1>12, <1>13

(* A pass that starts holds no claim yet. *)
LEMMA PassKeeps ==
    ASSUME OnceInv, NEW s \in Schedulers, PostDue(s)
    PROVE  OnceInv'
<1> USE DEF OnceInv
<1>1. /\ pc[s] = "idle" /\ pc' = [pc EXCEPT ![s] = "loop"]
      /\ UNCHANGED <<ledger, expenses, notices, cur>>
    BY DEF PostDue, posts
<1>2. Counts'
    BY <1>1 DEF Counts, PC
<1>3. pc'[s] = "loop" /\ \A t \in Schedulers \ {s} : pc'[t] = pc[t]
    BY <1>1 DEF Counts
<1>4. \A t \in Schedulers : (Working(t)' => Working(t)) /\ ClaimOf(t)' = ClaimOf(t)
    BY <1>1, <1>3 DEF Working, ClaimOf, KindOf
<1>5. Claims' /\ Outstanding'
    BY <1>1, <1>3, <1>4 DEF Claims, Outstanding, Working
<1> QED BY <1>1, <1>2, <1>5 DEF AtMostOnce, Unclaimed

(* What the owner and the clock do touches neither claims nor posts. *)
LEMMA ElsewhereKeeps ==
    ASSUME OnceInv, UNCHANGED <<ledger, expenses, notices, pc, cur>>
    PROVE  OnceInv'
<1>1. Counts' /\ Claims' /\ Outstanding'
    BY DEF OnceInv, Counts, Claims, Outstanding, Working, ClaimOf, KindOf
<1> QED BY <1>1 DEF OnceInv, AtMostOnce, Unclaimed

LEMMA OnceNext == OnceInv /\ [Next]_vars => OnceInv'
<1> SUFFICES ASSUME OnceInv, [Next]_vars PROVE OnceInv' OBVIOUS
<1> USE DEF posts, sched
<1>1. ASSUME NEW p \in Payments, CreateScheduledPayment(p) PROVE OnceInv'
    BY <1>1, ElsewhereKeeps DEF CreateScheduledPayment
<1>2. ASSUME NEW p \in Payments, GetScheduledPayment(p) PROVE OnceInv'
    BY <1>2, ElsewhereKeeps DEF GetScheduledPayment
<1>3. CASE UpdateScheduledPayment
    BY <1>3, ElsewhereKeeps DEF UpdateScheduledPayment
<1>4. CASE DeleteScheduledPayment
    BY <1>4, ElsewhereKeeps DEF DeleteScheduledPayment
<1>5. CASE NextDay
    BY <1>5, ElsewhereKeeps DEF NextDay
<1>6. ASSUME NEW s \in Schedulers, NotYet(s) PROVE OnceInv'
    BY <1>6, DropKeeps DEF NotYet
<1>7. ASSUME NEW s \in Schedulers, ClaimReminder(s) PROVE OnceInv'
    BY <1>7, ClaimKeeps DEF ClaimReminder, Kind
<1>8. ASSUME NEW s \in Schedulers, ClaimDue(s) PROVE OnceInv'
    BY <1>8, ClaimKeeps DEF ClaimDue, Kind
<1>9. ASSUME NEW s \in Schedulers, StopFinished(s) PROVE OnceInv'
    BY <1>9, DropKeeps DEF StopFinished
<1>10. ASSUME NEW s \in Schedulers, Advance(s) PROVE OnceInv'
    BY <1>10, DropKeeps DEF Advance
<1>11. ASSUME NEW s \in Schedulers, StepFails(s) PROVE OnceInv'
    BY <1>11, DropKeeps DEF StepFails
<1>12. ASSUME NEW s \in Schedulers, Crash(s) PROVE OnceInv'
    BY <1>12, DropKeeps DEF Crash
<1>13. CASE UNCHANGED vars
    BY <1>13, ElsewhereKeeps DEF vars
<1> QED
    BY <1>1, <1>2, <1>3, <1>4, <1>5, <1>6, <1>7, <1>8, <1>9, <1>10, <1>11, <1>12, <1>13,
       ReminderKeeps, NotifyKeeps, PostKeeps, PassKeeps DEF Next, RunOccurrence

(* An occurrence is posted and announced at most once, with any number of   *)
(* replicas racing on it and whatever fails, dies or is edited meanwhile    *)
(* (PostDue, ClaimPosting).                                                 *)
THEOREM PostedOnce == Spec => []AtMostOnce
<1>1. OnceInv => AtMostOnce
    BY DEF OnceInv
<1> QED BY OnceInit, OnceNext, <1>1, PTL DEF Spec
-----------------------------------------------------------------------------
(* NothingSkipped.  Every copy of a payment in the system - the row, what a *)
(* pass read, what a scheduler is working on - has a cursor before which    *)
(* the series is complete; so a stale copy that is written back moves the   *)
(* cursor to a place that is complete too.                                  *)
Rows == [state : {"live", "deleted"}, id : Payments, next : Int, last : Int, start : Day,
         every : Day, end : Int, auto : BOOLEAN, lead : Int, paused : BOOLEAN]

Copies ==
    /\ world \in Worlds
    /\ row \in [Payments -> Rows \cup {Absent}]
    /\ \A p \in Payments : row[p] # Absent => row[p].id = p
    /\ edit \in Rows \cup {Absent}
    /\ batch \in [Schedulers -> SUBSET Rows]
    /\ cur \in [Schedulers -> Rows \cup {Absent}]
    /\ \A s \in Schedulers : pc[s] \in {"remind", "notify", "post", "advance"} => cur[s] \in Rows

Announced(p, d) == <<p, d, "due">> \in ledger /\ notices[<<p, d, "due">>] = 1
Handled(p, d, auto) == Announced(p, d) /\ (auto => expenses[<<p, d>>] = 1)

(* The cursor is a date of the series, and all before it are handled. *)
CompleteTo(r, next) ==
    /\ (next - r.start) % r.every = 0
    /\ \A d \in Day : d >= r.start /\ d < next /\ (d - r.start) % r.every = 0
                        => Handled(r.id, d, r.auto)

Complete(r) == CompleteTo(r, r.next)

SameSeries(r) ==
    /\ row[r.id] # Absent
    /\ r.start = row[r.id].start /\ r.every = row[r.id].every /\ r.auto = row[r.id].auto

Sound(r) == r.id \notin edited => SameSeries(r) /\ Complete(r)

Read == UNION {batch[s] : s \in Schedulers}
Held == {row[p] : p \in Payments} \cup Read \cup {cur[s] : s \in Schedulers}

CopiesSound == \A r \in Held \ {Absent} : Sound(r)

(* How far a scheduler is with the occurrence it claimed. *)
Progress ==
    \A s \in Schedulers : pc[s] \in {"post", "advance"} /\ cur[s].next \in Day =>
        /\ pc[s] = "post" => Announced(cur[s].id, cur[s].next)
        /\ pc[s] = "advance" => Handled(cur[s].id, cur[s].next, cur[s].auto)

SkipInv == OnceInv /\ Copies /\ CopiesSound /\ Progress

(* The places a copy can be. *)
LEMMA HeldIs ==
    /\ \A r : r \in Held <=> \/ \E p \in Payments : r = row[p]
                             \/ \E s \in Schedulers : r \in batch[s]
                             \/ \E s \in Schedulers : r = cur[s]
    /\ \A r : r \in Held' <=> \/ \E p \in Payments : r = row'[p]
                              \/ \E s \in Schedulers : r \in batch'[s]
                              \/ \E s \in Schedulers : r = cur'[s]
<1>1. ASSUME NEW b, NEW r
      PROVE  r \in UNION {b[s] : s \in Schedulers} <=> \E s \in Schedulers : r \in b[s]
    BY Zenon
<1>2. \A r : r \in Read <=> \E s \in Schedulers : r \in batch[s]
    BY <1>1 DEF Read
<1>3. \A r : r \in Read' <=> \E s \in Schedulers : r \in batch'[s]
    BY <1>1 DEF Read
<1>4. \A r : r \in Held <=> (\E p \in Payments : r = row[p]) \/ r \in Read \/ \E s \in Schedulers : r = cur[s]
    BY DEF Held
<1>5. \A r : r \in Held' <=> (\E p \in Payments : r = row'[p]) \/ r \in Read' \/ \E s \in Schedulers : r = cur'[s]
    BY DEF Held
<1> QED BY <1>2, <1>3, <1>4, <1>5

(* A cursor update of a live payment moves the cursor and nothing else of   *)
(* the schedule.                                                            *)
LEMMA AdvanceRow ==
    ASSUME Copies, NEW p \in Payments, NEW next \in Int, NEW last \in Int,
           NEW paused \in BOOLEAN, AdvanceSchedule(p, next, last, paused)
    PROVE  /\ \A q \in Payments : q # p => row'[q] = row[q]
           /\ ~Live(p) => row'[p] = row[p]
           /\ Live(p) => /\ row'[p] \in Rows /\ row'[p].id = p
                         /\ row'[p].start = row[p].start /\ row'[p].every = row[p].every
                         /\ row'[p].auto = row[p].auto /\ row'[p].next = next
           /\ row' \in [Payments -> Rows \cup {Absent}]
<1>1. CASE ~Live(p)
    BY <1>1 DEF AdvanceSchedule, Copies
<1>2. CASE Live(p)
  <2>1. row[p] \in Rows /\ row[p].id = p /\ row[p] # Absent
      BY <1>2 DEF Copies, Live, Absent, Rows
  <2> DEFINE new == [row[p] EXCEPT !.next = next, !.last = last, !.paused = paused]
  <2>2. row' = [row EXCEPT ![p] = new]
      BY <1>2 DEF AdvanceSchedule, Copies
  <2>3. /\ new \in Rows /\ new.id = p /\ new.start = row[p].start /\ new.every = row[p].every
        /\ new.auto = row[p].auto /\ new.next = next
      BY <2>1 DEF Rows
  <2> HIDE DEF new
  <2> QED BY <1>2, <2>2, <2>3 DEF Copies
<1> QED BY <1>1, <1>2

(* A new row of validated input. *)
LEMMA TemplateRow ==
    ASSUME NEW t \in Template, NEW p \in Payments, NEW next \in Int, NEW last \in Int
    PROVE  /\ RowOf(p, t, next, last) \in Rows
           /\ RowOf(p, t, next, last).id = p
           /\ RowOf(p, t, next, last).start = t.start
           /\ RowOf(p, t, next, last).every = t.every
           /\ RowOf(p, t, next, last).next = next
           /\ t.start \in Int /\ t.every \in Int /\ t.every > 0
<1>1. Day \subseteq Int /\ \A d \in Day : d > 0
    BY DEF Day
<1>2. NoDate \in Int
    BY DEF NoDate
<1>3. Nat \subseteq Int
    OBVIOUS
<1> QED BY <1>1, <1>2, <1>3 DEF RowOf, Rows, Template

(* Dropping a batch element, or the payment being worked on, and taking one  *)
(* up keep the copies well formed.                                          *)
LEMMA DoneCopies ==
    ASSUME Copies, Counts, NEW s \in Schedulers, NEW b, b \subseteq batch[s], Done(s, b)
    PROVE  /\ batch' \in [Schedulers -> SUBSET Rows] /\ cur' \in [Schedulers -> Rows \cup {Absent}]
           /\ batch'[s] = b /\ cur'[s] = Absent /\ pc'[s] \in {"idle", "loop"}
           /\ \A t \in Schedulers : t # s =>
                 batch'[t] = batch[t] /\ cur'[t] = cur[t] /\ pc'[t] = pc[t]
           /\ \A t \in Schedulers : pc'[t] \in {"remind", "notify", "post", "advance"} => cur'[t] \in Rows
<1>1. batch' = [batch EXCEPT ![s] = b] /\ cur' = [cur EXCEPT ![s] = Absent]
      /\ pc' = [pc EXCEPT ![s] = IF b = {} THEN "idle" ELSE "loop"]
    BY DEF Done
<1>2. /\ batch' \in [Schedulers -> SUBSET Rows] /\ cur' \in [Schedulers -> Rows \cup {Absent}]
      /\ batch'[s] = b /\ cur'[s] = Absent
      /\ \A t \in Schedulers : t # s => batch'[t] = batch[t] /\ cur'[t] = cur[t]
    BY <1>1 DEF Copies
<1>3. pc'[s] \in {"idle", "loop"} /\ \A t \in Schedulers : t # s => pc'[t] = pc[t]
    BY <1>1 DEF Counts
<1> QED BY <1>2, <1>3 DEF Copies

LEMMA WorkCopies ==
    ASSUME Copies, Counts, NEW s \in Schedulers, NEW r \in batch[s], NEW where \in PC, Work(s, r, where)
    PROVE  /\ batch' \in [Schedulers -> SUBSET Rows] /\ cur' \in [Schedulers -> Rows \cup {Absent}]
           /\ batch'[s] \subseteq batch[s] /\ cur'[s] = r /\ pc'[s] = where
           /\ \A t \in Schedulers : t # s =>
                 batch'[t] = batch[t] /\ cur'[t] = cur[t] /\ pc'[t] = pc[t]
           /\ \A t \in Schedulers : pc'[t] \in {"remind", "notify", "post", "advance"} => cur'[t] \in Rows
<1>1. batch' = [batch EXCEPT ![s] = @ \ {r}] /\ cur' = [cur EXCEPT ![s] = r]
      /\ pc' = [pc EXCEPT ![s] = where]
    BY DEF Work
<1>2. r \in Rows
    BY DEF Copies
<1>3. /\ batch' \in [Schedulers -> SUBSET Rows] /\ cur' \in [Schedulers -> Rows \cup {Absent}]
      /\ batch'[s] = batch[s] \ {r} /\ cur'[s] = r
      /\ \A t \in Schedulers : t # s => batch'[t] = batch[t] /\ cur'[t] = cur[t]
    BY <1>1, <1>2 DEF Copies
<1>4. pc'[s] = where /\ \A t \in Schedulers : t # s => pc'[t] = pc[t]
    BY <1>1 DEF Counts
<1> QED BY <1>2, <1>3, <1>4 DEF Copies

(* What a scheduler holds after a step it held before, or it was the row. *)
CopyFlow ==
    \A s \in Schedulers :
        /\ \A r \in batch'[s] : r \in batch[s] \/ \E p \in Payments : row[p] # Absent /\ r = row[p]
        /\ cur'[s] = Absent \/ cur'[s] = cur[s] \/ cur'[s] \in batch[s]

(* The schedule of a payment nobody edits stays. *)
RowFlow ==
    /\ edited \subseteq edited'
    /\ \A p \in Payments : row[p] # Absent /\ p \notin edited' =>
          /\ row'[p] # Absent
          /\ row'[p].start = row[p].start /\ row'[p].every = row[p].every
          /\ row'[p].auto = row[p].auto

LEMMA OwnerFlow ==
    ASSUME Copies,
           \/ \E p \in Payments : CreateScheduledPayment(p) \/ GetScheduledPayment(p)
           \/ UpdateScheduledPayment
           \/ DeleteScheduledPayment
    PROVE  Copies' /\ CopyFlow /\ RowFlow
<1> USE DEF sched, owner, fixed
<1>0. UNCHANGED <<world, pc, batch, cur>>
    BY DEF CreateScheduledPayment, GetScheduledPayment, UpdateScheduledPayment, DeleteScheduledPayment
<1>1. CopyFlow
    BY <1>0 DEF CopyFlow
<1>2. \A t \in world.templates : t \in Template
    BY ScheduledAssumption DEF Copies
<1>3. ASSUME NEW p \in Payments, CreateScheduledPayment(p) PROVE Copies' /\ RowFlow
  <2>1. PICK t \in world.templates : row' = [row EXCEPT ![p] = RowOf(p, t, t.start, NoDate)]
      BY <1>3 DEF CreateScheduledPayment
  <2>2. t \in Template
      BY <1>2
  <2>3. NoDate \in Int /\ t.start \in Int
      BY <2>2, TemplateRow, <1>3 DEF NoDate, Template, Day
  <2> DEFINE new == RowOf(p, t, t.start, NoDate)
  <2>4. new \in Rows /\ new.id = p
      BY <2>2, <2>3, TemplateRow
  <2>5. row[p] = Absent /\ UNCHANGED <<edit, edited>>
      BY <1>3 DEF CreateScheduledPayment
  <2> HIDE DEF new
  <2>6. row' = [row EXCEPT ![p] = new]
      BY <2>1 DEF new
  <2> QED BY <1>0, <2>4, <2>5, <2>6 DEF Copies, RowFlow
<1>4. ASSUME NEW p \in Payments, GetScheduledPayment(p) PROVE Copies' /\ RowFlow
    BY <1>0, <1>4 DEF GetScheduledPayment, Copies, RowFlow
<1>5. CASE UpdateScheduledPayment
  <2>1. PICK t \in world.templates :
          row' = IF Live(edit.id)
                 THEN [row EXCEPT ![edit.id] =
                         [EditedRow(edit, t) EXCEPT
                            !.last = IF durable THEN row[edit.id].last ELSE edit.last]]
                 ELSE row
      BY <1>5 DEF UpdateScheduledPayment
  <2>2. t \in Template /\ edit \in Rows
      BY <1>2, <1>5 DEF UpdateScheduledPayment, Copies
  <2>3. edit.id \in Payments /\ edit.next \in Int /\ edit.last \in Int
      BY <2>2 DEF Rows
  <2>4. t.start \in Int /\ t.every \in Int /\ t.every > 0
      BY <2>2, <2>3, TemplateRow
  <2>5. RescheduleFrom(t, edit.last) \in Int
    <3>1. (edit.last - t.start) \div t.every \in Int
        BY <2>3, <2>4
    <3>2. \A q \in Int : t.start + (q + 1) * t.every \in Int
        BY <2>4
    <3> QED BY <2>4, <3>1, <3>2 DEF RescheduleFrom
  <2> DEFINE new == EditedRow(edit, t)
  <2>6. new \in Rows /\ new.id = edit.id
      BY <2>2, <2>3, <2>5, TemplateRow DEF EditedRow
  <2> HIDE DEF new
  <2>7. CASE Live(edit.id)
    <3>1. row[edit.id] \in Rows
        BY <2>3, <2>7 DEF Live, Copies, Absent, Rows
    <3> DEFINE last == IF durable THEN row[edit.id].last ELSE edit.last
    <3> DEFINE new2 == [new EXCEPT !.last = last]
    <3>2. new2 \in Rows /\ new2.id = edit.id
      <4>1. last \in Int
          BY <2>3, <3>1 DEF Rows
      <4> HIDE DEF last
      <4> QED BY <2>6, <4>1 DEF Rows
    <3> HIDE DEF new2
    <3>3. row' = [row EXCEPT ![edit.id] = new2]
        BY <2>1, <2>7 DEF new2, new
    <3>4. edit' = Absent /\ edited' = edited \cup {edit.id}
        BY <1>5 DEF UpdateScheduledPayment
    <3> QED BY <1>0, <1>1, <2>3, <3>2, <3>3, <3>4 DEF Copies, RowFlow
  <2>8. CASE ~Live(edit.id)
    <3>1. row' = row /\ edit' = Absent /\ edited' = edited \cup {edit.id}
        BY <1>5, <2>1, <2>8 DEF UpdateScheduledPayment
    <3> QED BY <1>0, <1>1, <3>1 DEF Copies, RowFlow
  <2> QED BY <2>7, <2>8
<1>6. CASE DeleteScheduledPayment
  <2>1. edit \in Rows /\ edit' = Absent /\ UNCHANGED edited
      BY <1>6 DEF DeleteScheduledPayment, Copies
  <2>2. edit.id \in Payments
      BY <2>1 DEF Rows
  <2>3. CASE Live(edit.id)
    <3>1. row[edit.id] \in Rows
        BY <2>2, <2>3 DEF Live, Copies, Absent, Rows
    <3> DEFINE new == [row[edit.id] EXCEPT !.state = "deleted"]
    <3>2. /\ new \in Rows /\ new.id = row[edit.id].id /\ new.start = row[edit.id].start
          /\ new.every = row[edit.id].every /\ new.auto = row[edit.id].auto
        BY <3>1 DEF Rows
    <3> HIDE DEF new
    <3>3. row' = [row EXCEPT ![edit.id] = new]
        BY <1>6, <2>3 DEF DeleteScheduledPayment, new, Copies
    <3>4. \A r \in Rows : r # Absent
        BY DEF Rows, Absent
    <3> QED BY <1>0, <1>1, <2>1, <2>2, <3>1, <3>2, <3>3, <3>4 DEF Copies, RowFlow
  <2>4. CASE ~Live(edit.id)
      BY <1>0, <1>1, <1>6, <2>1, <2>4 DEF DeleteScheduledPayment, Copies, RowFlow
  <2> QED BY <2>3, <2>4
<1> QED BY <1>1, <1>3, <1>4, <1>5, <1>6

(* Ending a payment's turn, with whatever the cursor update left in row. *)
LEMMA DoneFlow ==
    ASSUME Copies, Counts, NEW s \in Schedulers, NEW b, b \subseteq batch[s], Done(s, b),
           row' = row \/ \E p \in Payments, next \in Int, last \in Int, paused \in BOOLEAN :
                            AdvanceSchedule(p, next, last, paused),
           UNCHANGED <<world, edit, edited>>
    PROVE  Copies' /\ CopyFlow /\ RowFlow
<1>1. CopyFlow
    BY DoneCopies DEF CopyFlow
<1>2. /\ batch' \in [Schedulers -> SUBSET Rows] /\ cur' \in [Schedulers -> Rows \cup {Absent}]
      /\ \A t \in Schedulers : pc'[t] \in {"remind", "notify", "post", "advance"} => cur'[t] \in Rows
    BY DoneCopies
<1>3. CASE row' = row
    BY <1>1, <1>2, <1>3 DEF Copies, RowFlow
<1>4. ASSUME NEW p \in Payments, NEW next \in Int, NEW last \in Int, NEW paused \in BOOLEAN,
             AdvanceSchedule(p, next, last, paused)
      PROVE  Copies' /\ RowFlow
  <2>1. /\ \A q \in Payments : q # p => row'[q] = row[q]
        /\ ~Live(p) => row'[p] = row[p]
        /\ Live(p) => /\ row'[p] \in Rows /\ row'[p].id = p
                      /\ row'[p].start = row[p].start /\ row'[p].every = row[p].every
                      /\ row'[p].auto = row[p].auto /\ row'[p].next = next
        /\ row' \in [Payments -> Rows \cup {Absent}]
      BY <1>4, AdvanceRow
  <2>2. \A r \in Rows : r # Absent
      BY DEF Rows, Absent
  <2>3. Copies'
      BY <1>2, <2>1 DEF Copies
  <2>4. RowFlow
      BY <2>1, <2>2 DEF RowFlow
  <2> QED BY <2>3, <2>4
<1> QED BY <1>1, <1>3, <1>4

LEMMA SchedulerFlow ==
    ASSUME Copies, Counts, NEW s \in Schedulers,
           PostDue(s) \/ RunOccurrence(s) \/ StepFails(s) \/ Crash(s)
    PROVE  Copies' /\ CopyFlow /\ RowFlow
<1> USE DEF owner, fixed
<1>1. UNCHANGED <<world, edit, edited>>
    BY DEF PostDue, RunOccurrence, NotYet, ClaimReminder, ClaimDue, StopFinished, QueueReminder,
           QueueDueNotification, PostExpense, Advance, StepFails, Crash
<1>2. \A r \in batch[s] : r \in Rows /\ r.id \in Payments /\ r.next \in Int
    BY DEF Copies, Rows
<1>3. \A r \in batch[s] : batch[s] \ {r} \subseteq batch[s]
    OBVIOUS
<1>4. CASE PostDue(s)
  <2>1. PICK b \in SUBSET DueRows : batch' = [batch EXCEPT ![s] = b]
      BY <1>4 DEF PostDue
  <2>2. \A r \in DueRows : \E p \in Payments : row[p] # Absent /\ r = row[p] /\ row[p] \in Rows
      BY DEF DueRows, Live, Copies, Absent
  <2>3. b \subseteq Rows
      BY <2>2
  <2>4. batch' \in [Schedulers -> SUBSET Rows] /\ batch'[s] = b
        /\ \A t \in Schedulers : t # s => batch'[t] = batch[t]
      BY <2>1, <2>3 DEF Copies
  <2>5. pc' = [pc EXCEPT ![s] = "loop"] /\ UNCHANGED <<row, cur>>
      BY <1>4 DEF PostDue
  <2>6. pc'[s] = "loop" /\ \A t \in Schedulers : t # s => pc'[t] = pc[t]
      BY <2>5 DEF Counts
  <2>7. CopyFlow
      BY <2>2, <2>4, <2>5 DEF CopyFlow
  <2>8. Copies'
      BY <1>1, <2>4, <2>5, <2>6 DEF Copies
  <2> QED BY <1>1, <2>5, <2>7, <2>8 DEF RowFlow
<1>5. CASE NotYet(s)
    BY <1>1, <1>3, <1>5, DoneFlow DEF NotYet
<1>6. ASSUME NEW r \in batch[s], NEW kind, NEW where \in PC, Claim(s, r, kind, where), UNCHANGED row
      PROVE  Copies' /\ CopyFlow /\ RowFlow
  <2>1. CASE Done(s, batch[s] \ {r})
      BY <1>1, <1>3, <1>6, <2>1, DoneFlow
  <2>2. CASE Work(s, r, where)
      BY <1>1, <1>6, <2>2, WorkCopies DEF Copies, CopyFlow, RowFlow
  <2> QED BY <1>6, <2>1, <2>2 DEF Claim
<1>7. CASE ClaimReminder(s)
    BY <1>6, <1>7 DEF ClaimReminder, PC
<1>8. CASE ClaimDue(s)
    BY <1>6, <1>8 DEF ClaimDue, PC
<1>9. CASE StopFinished(s)
    BY <1>1, <1>2, <1>3, <1>9, DoneFlow DEF StopFinished
<1>10. CASE QueueReminder(s)
    BY <1>1, <1>10, DoneFlow DEF QueueReminder
<1>11. CASE QueueDueNotification(s) \/ PostExpense(s)
  <2>1. UNCHANGED <<row, batch, cur>> /\ pc[s] \in {"notify", "post"}
        /\ pc' = [pc EXCEPT ![s] = pc'[s]]
      BY <1>11 DEF QueueDueNotification, PostExpense, Counts
  <2>2. \A t \in Schedulers : t # s => pc'[t] = pc[t]
      BY <2>1 DEF Counts
  <2> QED BY <1>1, <2>1, <2>2 DEF Copies, CopyFlow, RowFlow
<1>12. CASE Advance(s)
  <2>1. cur[s] \in Rows
      BY <1>12 DEF Advance, Copies
  <2>2. Payment(s) \in Payments /\ Due(s) \in Int /\ cur[s].every \in Int /\ cur[s].end \in Int
      BY <2>1 DEF Payment, Due, Rows, Day
  <2>3. NextDueFor(cur[s], Due(s)) \in Int
      BY <2>2 DEF NextDueFor
  <2>4. Finished(cur[s], NextDueFor(cur[s], Due(s))) \in BOOLEAN
      BY DEF Finished
  <2>5. AdvanceSchedule(Payment(s), NextDueFor(cur[s], Due(s)), Due(s),
                        Finished(cur[s], NextDueFor(cur[s], Due(s))))
        /\ Done(s, batch[s])
      BY <1>12 DEF Advance
  <2> QED BY <1>1, <2>2, <2>3, <2>4, <2>5, DoneFlow
<1>13. CASE StepFails(s)
    BY <1>1, <1>13, DoneFlow DEF StepFails
<1>14. CASE Crash(s)
    BY <1>1, <1>14, DoneFlow DEF Crash
<1> QED
    BY <1>4, <1>5, <1>7, <1>8, <1>9, <1>10, <1>11, <1>12, <1>13, <1>14 DEF RunOccurrence

LEMMA Flow == OnceInv /\ Copies /\ [Next]_vars => Copies' /\ CopyFlow /\ RowFlow
<1> SUFFICES ASSUME OnceInv, Copies, [Next]_vars PROVE Copies' /\ CopyFlow /\ RowFlow OBVIOUS
<1>1. Counts
    BY DEF OnceInv
<1>2. CASE NextDay \/ UNCHANGED vars
    BY <1>2 DEF NextDay, vars, sched, owner, fixed, Copies, CopyFlow, RowFlow
<1> QED BY <1>1, <1>2, OwnerFlow, SchedulerFlow DEF Next

(* What was handled stays handled. *)
LEMMA HandledStays ==
    ASSUME OnceInv, OnceInv', [Next]_vars, NEW p \in Payments, NEW d \in Day
    PROVE  (Announced(p, d) => Announced(p, d)') /\ \A a \in BOOLEAN : Handled(p, d, a) => Handled(p, d, a)'
<1> USE DEF posts
<1>1. ledger \subseteq ledger'
    BY DEF vars, Next, RunOccurrence, CreateScheduledPayment, GetScheduledPayment,
           UpdateScheduledPayment, DeleteScheduledPayment, NextDay, PostDue, NotYet, ClaimReminder,
           ClaimDue, StopFinished, QueueReminder, QueueDueNotification, PostExpense, Advance,
           StepFails, Crash, Claim
<1>2. notices' = notices \/ \E c : notices' = [notices EXCEPT ![c] = @ + 1]
    BY DEF vars, Next, RunOccurrence, CreateScheduledPayment, GetScheduledPayment,
           UpdateScheduledPayment, DeleteScheduledPayment, NextDay, PostDue, NotYet, ClaimReminder,
           ClaimDue, StopFinished, QueueReminder, QueueDueNotification, PostExpense, Advance,
           StepFails, Crash
<1>3. expenses' = expenses \/ \E c : expenses' = [expenses EXCEPT ![c] = @ + 1]
    BY DEF vars, Next, RunOccurrence, CreateScheduledPayment, GetScheduledPayment,
           UpdateScheduledPayment, DeleteScheduledPayment, NextDay, PostDue, NotYet, ClaimReminder,
           ClaimDue, StopFinished, QueueReminder, QueueDueNotification, PostExpense, Advance,
           StepFails, Crash
<1>4. notices[<<p, d, "due">>] = 1 => notices'[<<p, d, "due">>] = 1
  <2> SUFFICES ASSUME notices[<<p, d, "due">>] = 1 PROVE notices'[<<p, d, "due">>] = 1
      OBVIOUS
  <2>1. notices'[<<p, d, "due">>] <= 1
      BY DEF OnceInv, AtMostOnce, Kind
  <2>2. ASSUME NEW c, notices' = [notices EXCEPT ![c] = @ + 1] PROVE notices'[<<p, d, "due">>] \in {1, 2}
    <3>1. <<p, d, "due">> \in Payments \X Day \X Kind
        BY DEF Kind
    <3>2. notices \in [Payments \X Day \X Kind -> Nat]
        BY DEF OnceInv, Counts
    <3>3. notices'[<<p, d, "due">>] \in {notices[<<p, d, "due">>], notices[<<p, d, "due">>] + 1}
        BY ONLY <2>2, <3>1, <3>2, Increment
    <3> QED BY <3>3
  <2> QED BY <1>2, <2>1, <2>2
<1>5. expenses[<<p, d>>] = 1 => expenses'[<<p, d>>] = 1
  <2> SUFFICES ASSUME expenses[<<p, d>>] = 1 PROVE expenses'[<<p, d>>] = 1
      OBVIOUS
  <2>1. expenses'[<<p, d>>] <= 1
      BY DEF OnceInv, AtMostOnce
  <2>2. ASSUME NEW c, expenses' = [expenses EXCEPT ![c] = @ + 1] PROVE expenses'[<<p, d>>] \in {1, 2}
      BY <2>2, Increment DEF OnceInv, Counts
  <2> QED BY <1>3, <2>1, <2>2
<1> QED BY <1>1, <1>4, <1>5 DEF Announced, Handled

(* Two dates of a series are not closer than its interval, and the date an   *)
(* interval later is one of it.                                             *)
LEMMA DivMod ==
    ASSUME NEW m \in Int, m > 0, NEW a \in Int
    PROVE  /\ a \div m \in Int /\ a % m \in Int /\ 0 <= a % m /\ a % m < m
           /\ a = m * (a \div m) + (a % m)
OBVIOUS

LEMMA Multiples ==
    ASSUME NEW m \in Int, m > 0, NEW x \in Int, NEW y \in Int, x < y
    PROVE  m * x + m <= m * y
<1>1. y - x - 1 >= 0
    OBVIOUS
<1>2. m * (y - x - 1) >= 0
    BY <1>1
<1> QED BY <1>2

LEMMA NextInSeries ==
    ASSUME NEW m \in Int, m > 0, NEW a \in Int, a % m = 0
    PROVE  (a + m) % m = 0
<1> DEFINE q == a \div m
           k == (a + m) \div m
           z == (a + m) % m
<1>1. /\ q \in Int /\ k \in Int /\ z \in Int /\ 0 <= z /\ z < m
      /\ a = m * q /\ a + m = m * k + z
    BY DivMod
<1> HIDE DEF q, k, z
<1>2. m * (q + 1) = m * k + z
    BY <1>1
<1>3. q + 1 = k
    BY <1>1, <1>2, Multiples
<1>4. z = 0
    BY <1>1, <1>2, <1>3
<1> QED BY <1>4 DEF z

LEMMA SeriesGap ==
    ASSUME NEW m \in Int, m > 0, NEW a \in Int, NEW b \in Int,
           a % m = 0, b % m = 0, a <= b, b < a + m
    PROVE  a = b
<1> DEFINE q == a \div m
           k == b \div m
<1>1. q \in Int /\ k \in Int /\ a = m * q /\ b = m * k
    BY DivMod
<1> HIDE DEF q, k
<1>2. q = k
    BY <1>1, Multiples
<1> QED BY <1>1, <1>2

LEMMA CompleteStays ==
    ASSUME OnceInv, OnceInv', [Next]_vars, NEW r \in Rows, NEW next, CompleteTo(r, next)
    PROVE  CompleteTo(r, next)'
<1>1. \A d \in Day : Handled(r.id, d, r.auto) => Handled(r.id, d, r.auto)'
  <2>1. r.id \in Payments /\ r.auto \in BOOLEAN
      BY DEF Rows
  <2> QED BY <2>1, HandledStays
<1> QED BY <1>1 DEF CompleteTo

(* A copy that was sound stays so: schedules do not change under it and     *)
(* nothing handled is undone.                                               *)
LEMMA SoundStays ==
    ASSUME OnceInv, OnceInv', Copies, Copies', RowFlow, [Next]_vars, NEW r \in Rows, Sound(r)
    PROVE  Sound(r)'
<1> SUFFICES ASSUME r.id \notin edited' PROVE SameSeries(r)' /\ Complete(r)'
    BY DEF Sound
<1>1. r.id \notin edited /\ r.id \in Payments /\ r.auto \in BOOLEAN
    BY DEF RowFlow, Rows
<1>2. SameSeries(r) /\ Complete(r)
    BY <1>1 DEF Sound
<1>3. SameSeries(r)'
    BY <1>1, <1>2 DEF SameSeries, RowFlow
<1>4. Complete(r)'
    BY <1>2, CompleteStays DEF Complete
<1> QED BY <1>3, <1>4

(* Where a cursor update leaves a row. *)
LEMMA AdvancedSound ==
    ASSUME Copies, NEW r \in Rows, SameSeries(r), Live(r.id),
           NEW next \in Int, NEW last \in Int, NEW paused \in BOOLEAN,
           AdvanceSchedule(r.id, next, last, paused),
           CompleteTo(r, next)',
           NEW n, n = row'[r.id]
    PROVE  Sound(n)'
<1>1. r.id \in Payments
    BY DEF Rows
<1>2. /\ n \in Rows /\ n.id = r.id /\ n.start = r.start
      /\ n.every = r.every /\ n.auto = r.auto /\ n.next = next
    BY <1>1, AdvanceRow DEF SameSeries
<1>3. n # Absent
    BY <1>2 DEF Rows, Absent
<1>4. SameSeries(n)'
    BY <1>2, <1>3 DEF SameSeries
<1>5. CompleteTo(n, next)'
    BY <1>2 DEF CompleteTo
<1>6. Complete(n)'
    BY <1>2, <1>5 DEF Complete
<1> QED BY <1>4, <1>6 DEF Sound

(* The whole series up to the occurrence after the one just handled. *)
LEMMA CompleteNext ==
    ASSUME NEW r \in Rows, Complete(r), r.next \in Day => Handled(r.id, r.next, r.auto)
    PROVE  CompleteTo(r, NextDueFor(r, r.next))
<1>1. r.next \in Int /\ r.start \in Int /\ r.every \in Int /\ r.every > 0
    BY DEF Rows, Day
<1>2. (r.next - r.start) % r.every = 0
    BY DEF Complete, CompleteTo
<1>3. ((r.next + r.every) - r.start) % r.every = 0
  <2>1. ((r.next - r.start) + r.every) % r.every = 0
      BY <1>1, <1>2, NextInSeries, SMTT(20)
  <2>2. (r.next + r.every) - r.start = (r.next - r.start) + r.every
      BY <1>1
  <2> QED BY <2>1, <2>2
<1>4. ASSUME NEW d \in Day, d >= r.start, d < r.next + r.every, (d - r.start) % r.every = 0
      PROVE  Handled(r.id, d, r.auto)
  <2>1. d \in Int
      BY DEF Day
  <2>2. CASE d < r.next
      BY <1>4, <2>2 DEF Complete, CompleteTo
  <2>3. CASE d >= r.next
    <3>1. r.next - r.start <= d - r.start /\ d - r.start < (r.next - r.start) + r.every
        BY <1>1, <1>4, <2>1, <2>3
    <3>2. r.next - r.start = d - r.start
      <4> DEFINE a == r.next - r.start
                 b == d - r.start
      <4>1. a \in Int /\ b \in Int /\ a % r.every = 0 /\ b % r.every = 0 /\ a <= b /\ b < a + r.every
          BY <1>1, <1>2, <1>4, <2>1, <3>1
      <4> HIDE DEF a, b
      <4>2. a = b
          BY <1>1, <4>1, SeriesGap
      <4> QED BY <4>2 DEF a, b
    <3>3. r.next = d
        BY <1>1, <2>1, <3>2
    <3> QED BY <3>3
  <2> QED BY <1>1, <2>1, <2>2, <2>3
<1> QED BY <1>3, <1>4 DEF CompleteTo, NextDueFor

(* The rows after a step. *)
LEMMA RowsSound ==
    ASSUME SkipInv, OnceInv', Copies', RowFlow, [Next]_vars, NEW p \in Payments,
           NEW n, n = row'[p], n # Absent
    PROVE  Sound(n)'
<1> USE DEF owner, fixed
<1>1. OnceInv /\ Copies /\ CopiesSound /\ Progress
    BY DEF SkipInv
<1>2. n \in Rows /\ n.id = p
    BY DEF Copies
<1>3. CASE row'[p] = row[p]
  <2>1. Sound(n)
      BY <1>1, <1>3, HeldIs DEF CopiesSound
  <2> QED BY <1>1, <1>2, <2>1, SoundStays
<1>4. CASE p \in edited'
    BY <1>2, <1>4 DEF Sound
<1>5. SUFFICES ASSUME row'[p] # row[p], p \notin edited' PROVE Sound(n)'
    BY <1>3, <1>4
<1>6. p \notin edited
    BY <1>5 DEF RowFlow
<1>7. ASSUME CreateScheduledPayment(p) PROVE Sound(n)'
  <2>1. PICK t \in world.templates : row' = [row EXCEPT ![p] = RowOf(p, t, t.start, NoDate)]
      BY <1>7 DEF CreateScheduledPayment
  <2>2. t \in Template
      BY <1>1, ScheduledAssumption DEF Copies
  <2>3. n = RowOf(p, t, t.start, NoDate)
      BY <1>1, <2>1 DEF Copies
  <2>4. n.start = n.next /\ n.next \in Int /\ n.every \in Int /\ n.every > 0
    <3>1. t.start \in Int /\ NoDate \in Int
        BY <2>2, TemplateRow DEF Template, Day, NoDate
    <3> QED BY <2>2, <2>3, <3>1, TemplateRow
  <2>5. (n.next - n.start) % n.every = 0
      BY <2>4
  <2>6. \A d \in Day : d \in Int
      BY DEF Day
  <2>7. Complete(n)'
      BY <2>4, <2>5, <2>6 DEF Complete, CompleteTo
  <2>8. SameSeries(n)'
      BY <1>2 DEF SameSeries
  <2> QED BY <2>7, <2>8 DEF Sound
<1>8. CASE DeleteScheduledPayment
  <2>1. edit \in Rows /\ row' = IF Live(edit.id) THEN [row EXCEPT ![edit.id].state = "deleted"] ELSE row
      BY <1>1, <1>8 DEF DeleteScheduledPayment, Copies
  <2>2. edit.id \in Payments
      BY <2>1 DEF Rows
  <2>3. edit.id = p /\ Live(p) /\ row' = [row EXCEPT ![p].state = "deleted"]
      BY <1>1, <1>5, <2>1, <2>2 DEF Copies
  <2>4. row[p] \in Rows /\ row[p] # Absent
      BY <1>1, <2>3 DEF Copies, Live, Absent
  <2>5. n = [row[p] EXCEPT !.state = "deleted"]
      BY <1>1, <2>3 DEF Copies
  <2>6. n.id = row[p].id /\ n.next = row[p].next /\ n.start = row[p].start /\ n.every = row[p].every /\ n.auto = row[p].auto
      BY <2>4, <2>5 DEF Rows
  <2>7. Sound(row[p])
      BY <1>1, <2>4, HeldIs DEF CopiesSound
  <2>8. Sound(n)
      BY <2>6, <2>7 DEF Sound, SameSeries, Complete, CompleteTo
  <2> QED BY <1>1, <1>2, <2>8, SoundStays
<1>9. ASSUME NEW s \in Schedulers, NEW r \in batch[s], r.id \in Payments,
             AdvanceSchedule(r.id, r.next, r.next, TRUE), UNCHANGED edited
      PROVE  Sound(n)'
  <2>1. r \in Rows /\ r # Absent
      BY <1>1, <1>9 DEF Copies, Rows, Absent
  <2>2. r.id = p /\ Live(p)
      BY <1>1, <1>5, <1>9 DEF AdvanceSchedule, Copies
  <2>3. Sound(r)
      BY <1>1, <1>9, <2>1, HeldIs DEF CopiesSound
  <2>4. Sound(r)'
      BY <1>1, <2>1, <2>3, SoundStays
  <2>5. CompleteTo(r, r.next)' /\ SameSeries(r)
      BY <1>5, <1>6, <2>2, <2>3, <2>4 DEF Sound, Complete
  <2>6. r.next \in Int
      BY <2>1 DEF Rows
  <2> QED BY <1>1, <1>9, <2>1, <2>2, <2>5, <2>6, AdvancedSound
<1>10. ASSUME NEW s \in Schedulers, Advance(s) PROVE Sound(n)'
  <2> DEFINE r == cur[s]
             next == NextDueFor(r, r.next)
             paused == Finished(r, next)
  <2>1. r \in Rows /\ r # Absent
      BY <1>1, <1>10 DEF Advance, Copies, Rows, Absent
  <2>2. AdvanceSchedule(r.id, next, r.next, paused) /\ UNCHANGED edited /\ pc[s] = "advance"
      BY <1>10 DEF Advance, Payment, Due
  <2>3. r.id \in Payments /\ r.next \in Int /\ next \in Int /\ paused \in BOOLEAN
      BY <2>1 DEF Rows, NextDueFor, Day, Finished
  <2> HIDE DEF next, paused
  <2>4. r.id = p /\ Live(p)
      BY <1>1, <1>5, <2>2, <2>3 DEF AdvanceSchedule, Copies
  <2>5. Sound(r)
    <3>1. r \in Held
        BY <1>10, HeldIs
    <3> QED BY <1>1, <2>1, <3>1 DEF CopiesSound
  <2>6. Complete(r) /\ SameSeries(r)
      BY <1>6, <2>4, <2>5 DEF Sound
  <2>7. r.next \in Day => Handled(r.id, r.next, r.auto)
      BY <1>1, <2>2 DEF Progress
  <2>8. CompleteTo(r, next)
      BY <2>1, <2>6, <2>7, CompleteNext DEF next
  <2> SUFFICES ASSUME NEW c \in Rows, c = r, NEW m \in Int, m = next PROVE Sound(n)'
      BY <2>1, <2>3
  <2> HIDE DEF r
  <2>9. CompleteTo(c, m)'
      BY <1>1, <2>8, CompleteStays
  <2>10. SameSeries(c) /\ Live(c.id) /\ AdvanceSchedule(c.id, m, c.next, paused) /\ n = row'[c.id]
         /\ c.next \in Int
      BY <2>2, <2>3, <2>4, <2>6
  <2> QED BY <1>1, <2>3, <2>9, <2>10, AdvancedSound
<1>11. row' = row \/ p \in edited' \/ CreateScheduledPayment(p) \/ row'[p] = row[p]
       \/ DeleteScheduledPayment \/ \E s \in Schedulers : StopFinished(s) \/ Advance(s)
  <2>1. ASSUME NEW q \in Payments, CreateScheduledPayment(q), q # p PROVE row'[p] = row[p]
      BY <1>1, <2>1 DEF CreateScheduledPayment, Copies
  <2>2. ASSUME UpdateScheduledPayment, p \notin edited' PROVE row'[p] = row[p]
      BY <1>1, <2>2 DEF UpdateScheduledPayment, Copies
  <2>3. ASSUME NEW s \in Schedulers,
               \/ PostDue(s) \/ NotYet(s) \/ ClaimReminder(s) \/ ClaimDue(s) \/ QueueReminder(s)
               \/ QueueDueNotification(s) \/ PostExpense(s) \/ StepFails(s) \/ Crash(s)
        PROVE  row' = row
      BY <2>3 DEF PostDue, NotYet, ClaimReminder, ClaimDue, QueueReminder, QueueDueNotification,
                  PostExpense, StepFails, Crash
  <2>4. ASSUME NEW q \in Payments, GetScheduledPayment(q) PROVE row' = row
      BY <2>4 DEF GetScheduledPayment
  <2>5. CASE NextDay \/ UNCHANGED vars
      BY <2>5 DEF NextDay, vars
  <2> QED BY <2>1, <2>2, <2>3, <2>4, <2>5 DEF Next, RunOccurrence
<1>12. ASSUME NEW s \in Schedulers, StopFinished(s) PROVE Sound(n)'
  <2>1. PICK r \in batch[s] : AdvanceSchedule(r.id, r.next, r.next, TRUE)
      BY <1>12 DEF StopFinished
  <2>2. r.id \in Payments /\ UNCHANGED edited
      BY <1>1, <1>12 DEF StopFinished, Copies, Rows
  <2> QED BY <1>9, <2>1, <2>2
<1> QED BY <1>5, <1>7, <1>8, <1>10, <1>11, <1>12

(* How far a scheduler is after a step. *)
LEMMA ProgressNext ==
    ASSUME SkipInv, OnceInv', Copies', [Next]_vars
    PROVE  Progress'
<1> USE DEF posts
<1>1. OnceInv /\ Copies /\ Progress /\ Counts
    BY DEF SkipInv, OnceInv
<1> SUFFICES ASSUME NEW s \in Schedulers, NEW c, c = cur'[s], pc'[s] \in {"post", "advance"}, c.next \in Day
             PROVE  /\ pc'[s] = "post" => Announced(c.id, c.next)'
                    /\ pc'[s] = "advance" => Handled(c.id, c.next, c.auto)'
    BY DEF Progress, Announced, Handled
<1>2. c \in Rows
    BY DEF Copies
<1>3. c.id \in Payments /\ c.auto \in BOOLEAN
    BY <1>2 DEF Rows
<1>4. CASE pc'[s] = pc[s] /\ cur'[s] = cur[s]
  <2>1. /\ pc[s] = "post" => Announced(c.id, c.next)
        /\ pc[s] = "advance" => Handled(c.id, c.next, c.auto)
      BY <1>1, <1>4 DEF Progress
  <2> QED BY <1>1, <1>3, <1>4, <2>1, HandledStays
<1>5. CASE QueueDueNotification(s)
  <2>1. /\ c = cur[s] /\ pc[s] = "notify" /\ pc' = [pc EXCEPT ![s] = IF c.auto THEN "post" ELSE "advance"]
        /\ notices' = [notices EXCEPT ![<<c.id, c.next, "due">>] = @ + 1] /\ ledger' = ledger
      BY <1>5 DEF QueueDueNotification, Payment, Due
  <2>2. <<c.id, c.next, "due">> \in ledger /\ notices[<<c.id, c.next, "due">>] = 0
      BY <1>1, <1>3, <2>1, ZenonT(30) DEF OnceInv, Claims, Outstanding, Working, ClaimOf, KindOf
  <2>3. notices'[<<c.id, c.next, "due">>] = 1
    <3>1. <<c.id, c.next, "due">> \in Payments \X Day \X Kind
        BY <1>3 DEF Kind
    <3>2. notices \in [Payments \X Day \X Kind -> Nat]
        BY <1>1 DEF Counts
    <3>3. notices'[<<c.id, c.next, "due">>] = notices[<<c.id, c.next, "due">>] + 1
        BY ONLY <2>1, <3>1, <3>2, Increment
    <3> QED BY <2>2, <3>3
  <2>4. pc'[s] = "advance" => ~c.auto
      BY <1>1, <2>1 DEF Counts
  <2> QED BY <2>1, <2>2, <2>3, <2>4 DEF Announced, Handled
<1>6. CASE PostExpense(s)
  <2>1. /\ c = cur[s] /\ pc[s] = "post" /\ pc'[s] = "advance"
        /\ expenses' = [expenses EXCEPT ![<<c.id, c.next>>] = @ + 1] /\ UNCHANGED <<ledger, notices>>
      BY <1>1, <1>6 DEF PostExpense, Payment, Due, Counts
  <2>2. Announced(c.id, c.next) /\ expenses[<<c.id, c.next>>] = 0
      BY <1>1, <1>3, <2>1 DEF OnceInv, Outstanding, Working, Progress
  <2>3. expenses'[<<c.id, c.next>>] = 1
    <3>1. <<c.id, c.next>> \in Payments \X Day
        BY <1>3
    <3>2. expenses \in [Payments \X Day -> Nat]
        BY <1>1 DEF Counts
    <3>3. expenses'[<<c.id, c.next>>] = expenses[<<c.id, c.next>>] + 1
        BY ONLY <2>1, <3>1, <3>2, Increment
    <3> QED BY <2>2, <3>3
  <2> QED BY <2>1, <2>2, <2>3 DEF Announced, Handled
<1>7. CASE UNCHANGED <<pc, cur>>
    BY <1>4, <1>7
<1>8. ASSUME NEW t \in Schedulers, NEW b, Done(t, b) PROVE pc'[s] = pc[s] /\ cur'[s] = cur[s]
    BY <1>1, <1>8 DEF Done, Counts
<1>9. ASSUME NEW t \in Schedulers, NEW r, NEW where \in {"remind", "notify"}, Work(t, r, where)
      PROVE  pc'[s] = pc[s] /\ cur'[s] = cur[s]
    BY <1>1, <1>9 DEF Work, Counts
<1>10. ASSUME NEW t \in Schedulers, PostDue(t) PROVE pc'[s] = pc[s] /\ cur'[s] = cur[s]
    BY <1>1, <1>10 DEF PostDue, Counts
<1>11. ASSUME NEW t \in Schedulers, QueueDueNotification(t) \/ PostExpense(t), t # s
       PROVE  pc'[s] = pc[s] /\ cur'[s] = cur[s]
    BY <1>1, <1>11 DEF QueueDueNotification, PostExpense, Counts
<1>12. ASSUME NEW t \in Schedulers,
              NotYet(t) \/ StopFinished(t) \/ QueueReminder(t) \/ Advance(t) \/ StepFails(t) \/ Crash(t)
       PROVE  \E b : Done(t, b)
    BY <1>12 DEF NotYet, StopFinished, QueueReminder, Advance, StepFails, Crash
<1>13. ASSUME NEW t \in Schedulers, ClaimReminder(t) \/ ClaimDue(t)
       PROVE  (\E b : Done(t, b)) \/ \E r : \E where \in {"remind", "notify"} : Work(t, r, where)
    BY <1>13 DEF ClaimReminder, ClaimDue, Claim
<1>14. \/ UNCHANGED <<pc, cur>>
       \/ \E t \in Schedulers : \/ PostDue(t) \/ RunOccurrence(t) \/ StepFails(t) \/ Crash(t)
    BY DEF Next, vars, sched, CreateScheduledPayment, GetScheduledPayment, UpdateScheduledPayment,
           DeleteScheduledPayment, NextDay
<1> QED
    BY <1>4, <1>5, <1>6, <1>7, <1>8, <1>9, <1>10, <1>11, <1>12, <1>13, <1>14 DEF RunOccurrence

LEMMA SkipInit == Init => SkipInv
<1> SUFFICES ASSUME Init PROVE SkipInv OBVIOUS
<1>1. OnceInv
    BY OnceInit
<1>2. Copies
    BY DEF Init, Copies
<1>3. Held \subseteq {Absent}
    BY HeldIs DEF Init
<1>4. CopiesSound /\ Progress
    BY <1>3 DEF CopiesSound, Progress, Init
<1> QED BY <1>1, <1>2, <1>4 DEF SkipInv

LEMMA SkipNext == SkipInv /\ [Next]_vars => SkipInv'
<1> SUFFICES ASSUME SkipInv, [Next]_vars PROVE SkipInv' OBVIOUS
<1>1. OnceInv /\ Copies /\ CopiesSound
    BY DEF SkipInv
<1>2. OnceInv'
    BY <1>1, OnceNext
<1>3. Copies' /\ CopyFlow /\ RowFlow
    BY <1>1, Flow
<1>4. CopiesSound'
  <2> SUFFICES ASSUME NEW n \in Held', n # Absent PROVE Sound(n)'
      BY DEF CopiesSound
  <2>1. CASE \E p \in Payments : n = row'[p]
      BY <1>2, <1>3, <2>1, RowsSound
  <2>2. CASE n \in Held
    <3>1. n \in Rows
        BY <1>1, <2>2, HeldIs DEF Copies
    <3>2. Sound(n)
        BY <1>1, <2>2 DEF CopiesSound
    <3> QED BY <1>1, <1>2, <1>3, <3>1, <3>2, SoundStays
  <2>3. ASSUME NEW s \in Schedulers, n \in batch'[s] PROVE n \in Held
      BY <1>3, <2>3, HeldIs DEF CopyFlow
  <2>4. ASSUME NEW s \in Schedulers, n = cur'[s] PROVE n \in Held
      BY <1>3, <2>4, HeldIs DEF CopyFlow
  <2> QED BY <2>1, <2>2, <2>3, <2>4, HeldIs
<1>5. Progress'
    BY <1>2, <1>3, ProgressNext
<1> QED BY <1>2, <1>3, <1>4, <1>5 DEF SkipInv

(* Whatever replicas, faults, edits of other payments and the clock do, the *)
(* cursor of a payment nobody edited never passes an occurrence that was    *)
(* not claimed, announced and, if it auto-posts, posted (runOccurrence,     *)
(* AdvanceSchedule).                                                        *)
THEOREM SeriesComplete == Spec => []NothingSkipped
<1>1. SkipInv => NothingSkipped
  <2> SUFFICES ASSUME SkipInv, NEW p \in Payments, row[p] # Absent, p \notin edited,
                      NEW d \in Day, d >= row[p].start, d < row[p].next,
                      (d - row[p].start) % row[p].every = 0
               PROVE  Handled(p, d, row[p].auto)
      BY DEF NothingSkipped, Handled, Announced
  <2>1. row[p] \in Held /\ row[p].id = p
      BY HeldIs DEF SkipInv, Copies
  <2>2. Complete(row[p])
      BY <2>1 DEF SkipInv, CopiesSound, Sound
  <2> QED BY <2>1, <2>2 DEF Complete, CompleteTo
<1> QED BY SkipInit, SkipNext, <1>1, PTL DEF Spec
=============================================================================
