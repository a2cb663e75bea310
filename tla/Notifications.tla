---------------------------- MODULE Notifications ----------------------------
(***************************************************************************)
(* E-mail delivery: the queue in notifications.deliveries and the workers   *)
(* (NotificationService.DeliverPending, one per replica) that claim a       *)
(* batch under a lease, hand each e-mail to the provider within the shared  *)
(* send quota, and record the outcome.                                      *)
(*                                                                         *)
(* Time is abstracted: a lease is fresh or expired, a delivery is available *)
(* or backing off, and an action makes either change.  A batch of 25 sends  *)
(* one after the other with an HTTP timeout each can outlast the two-minute *)
(* lease; SlowBatches says whether it does.                                 *)
(***************************************************************************)
EXTENDS Naturals, FiniteSets

CONSTANTS
    Deliveries,
    Workers,
    MaxAttempts,    \* notificationMaxAttempts
    Quota,          \* e-mails the provider takes per window
    MaxExhausted,   \* bound on the sends refused for the quota
    MaxFaults,      \* bound on crashes, failed statements, lost answers
    SlowBatches     \* whether a worker can outlive its own lease

ASSUME NotificationsAssumption ==
    /\ MaxAttempts \in Nat \ {0} /\ Quota \in Nat \ {0}
    /\ MaxExhausted \in Nat /\ MaxFaults \in Nat
    /\ SlowBatches \in BOOLEAN

VARIABLES
    row,            \* the deliveries table
    accepted,       \* e-mails the provider accepted, per delivery
    ownFailures,    \* failures of a delivery that were not the quota's
    used,           \* sends counted in the current quota window
    todo,           \* claimed deliveries a worker has not handled, as read
    doing,          \* the delivery it is handling and the outcome so far
    stop,           \* quotaExceeded
    exhausted, faults

work == <<todo, doing, stop>>
vars == <<row, accepted, ownFailures, used, work, exhausted, faults>>

Status == {"queued", "pending", "processing", "sent", "failed"}
Nobody == [outcome |-> "none"]

(* "queued" stands for a delivery no producer has written yet. *)
TypeOK ==
    /\ row \in [Deliveries -> [status : Status, attempts : 0 .. MaxAttempts,
                               due : BOOLEAN, lease : BOOLEAN, payload : BOOLEAN]]
    /\ accepted \in [Deliveries -> Nat] /\ ownFailures \in [Deliveries -> Nat]
    /\ used \in 0 .. Quota
    /\ todo \in [Workers -> SUBSET (Deliveries \X (1 .. MaxAttempts))]
    /\ \A w \in Workers : \/ doing[w] = Nobody
                          \/ /\ doing[w].d \in Deliveries
                             /\ doing[w].attempts \in 1 .. MaxAttempts
                             /\ doing[w].outcome \in {"sent", "failed", "quota"}
    /\ stop \in [Workers -> BOOLEAN]
    /\ exhausted \in 0 .. MaxExhausted /\ faults \in 0 .. MaxFaults

Init ==
    /\ row = [d \in Deliveries |-> [status |-> "queued", attempts |-> 0, due |-> FALSE,
                                    lease |-> FALSE, payload |-> TRUE]]
    /\ accepted = [d \in Deliveries |-> 0]
    /\ ownFailures = [d \in Deliveries |-> 0]
    /\ used = 0
    /\ todo = [w \in Workers |-> {}]
    /\ doing = [w \in Workers |-> Nobody]
    /\ stop = [w \in Workers |-> FALSE]
    /\ exhausted = 0 /\ faults = 0

QueueNotification(d) ==
    /\ row[d].status = "queued"
    /\ row' = [row EXCEPT ![d].status = "pending", ![d].due = TRUE]
    /\ UNCHANGED <<accepted, ownFailures, used, work, exhausted, faults>>
-----------------------------------------------------------------------------
(* The passage of time. *)
Holds(w, d) == \/ \E n \in 1 .. MaxAttempts : <<d, n>> \in todo[w]
               \/ doing[w] # Nobody /\ doing[w].d = d

LeaseExpires(d) ==
    /\ row[d].lease
    /\ SlowBatches \/ \A w \in Workers : ~Holds(w, d)
    /\ row' = [row EXCEPT ![d].lease = FALSE]
    /\ UNCHANGED <<accepted, ownFailures, used, work, exhausted, faults>>

BackoffElapses(d) ==
    /\ row[d].status = "pending" /\ ~row[d].due
    /\ row' = [row EXCEPT ![d].due = TRUE]
    /\ UNCHANGED <<accepted, ownFailures, used, work, exhausted, faults>>

(* The quota window rolls over (RateLimit). *)
WindowRolls ==
    /\ used > 0
    /\ used' = 0
    /\ UNCHANGED <<row, accepted, ownFailures, work, exhausted, faults>>
-----------------------------------------------------------------------------
\* Mutated form of Claimable: processing deliveries are claimed again.
ClaimableIgnoringLease(d) ==
    \/ row[d].status = "pending" /\ row[d].due
    \/ row[d].status = "processing"

\* Mutated form of Claimable: a claim nobody resolved is lost.
ClaimablePendingOnly(d) == row[d].status = "pending" /\ row[d].due

Claimable(d) ==
    \/ row[d].status = "pending" /\ row[d].due
    \/ row[d].status = "processing" /\ ~row[d].lease

(* The counter is only ever compared with MaxAttempts, so it stops there.   *)
Attempt(n) == IF n < MaxAttempts THEN n + 1 ELSE n

(* "returning d.attempts" gives the claim's own number. *)
Returned(d) == Attempt(row[d].attempts)

(* ClaimNotifications: one statement; a batch holds every claimable row of  *)
(* an instance.                                                             *)
DeliverPending(w) ==
    LET claimed == {d \in Deliveries : Claimable(d)} IN
    /\ todo[w] = {} /\ doing[w] = Nobody
    /\ claimed # {}
    /\ row' = [d \in Deliveries |->
                  IF d \in claimed
                  THEN [row[d] EXCEPT !.status = "processing", !.lease = TRUE,
                                      !.attempts = Attempt(@)]
                  ELSE row[d]]
    /\ todo' = [todo EXCEPT ![w] = {<<d, Returned(d)>> : d \in claimed}]
    /\ stop' = [stop EXCEPT ![w] = FALSE]
    /\ UNCHANGED <<accepted, ownFailures, used, doing, exhausted, faults>>

(* deliverOne up to the point where the outcome is known. *)
Handle(w, outcome) ==
    \E t \in todo[w] :
        /\ todo' = [todo EXCEPT ![w] = @ \ {t}]
        /\ doing' = [doing EXCEPT ![w] =
              [d |-> t[1], attempts |-> t[2], outcome |-> outcome]]

Ready(w) == doing[w] = Nobody /\ ~stop[w]

(* The recipient opted out: delivered as far as the queue is concerned. *)
OptedOut(w) ==
    /\ Ready(w)
    /\ Handle(w, "sent")
    /\ UNCHANGED <<row, accepted, ownFailures, used, stop, exhausted, faults>>

(* The recipient is gone, rendering fails or the limiter's statement does:  *)
(* no e-mail, an ordinary failure.                                          *)
ResolveFails(w) ==
    /\ Ready(w)
    /\ Handle(w, "failed")
    /\ ownFailures' = [ownFailures EXCEPT ![doing'[w].d] = @ + 1]
    /\ UNCHANGED <<row, accepted, used, stop, exhausted, faults>>

Send(w) ==
    /\ Ready(w)
    /\ used < Quota /\ used' = used + 1
    /\ \/ /\ Handle(w, "sent")
          /\ accepted' = [accepted EXCEPT ![doing'[w].d] = @ + 1]
          /\ UNCHANGED ownFailures
       \/ /\ Handle(w, "failed")
          /\ ownFailures' = [ownFailures EXCEPT ![doing'[w].d] = @ + 1]
          /\ UNCHANGED accepted
    /\ UNCHANGED <<row, stop, exhausted, faults>>

(* The provider takes the e-mail, but its answer does not arrive in time:   *)
(* an ordinary failure to the worker.                                       *)
AnswerLost(w) ==
    /\ Ready(w)
    /\ used < Quota /\ used' = used + 1
    /\ faults < MaxFaults /\ faults' = faults + 1
    /\ Handle(w, "failed")
    /\ accepted' = [accepted EXCEPT ![doing'[w].d] = @ + 1]
    /\ ownFailures' = [ownFailures EXCEPT ![doing'[w].d] = @ + 1]
    /\ UNCHANGED <<row, stop, exhausted>>

(* ErrSendLimitExceeded: the rest of the batch will not be sent either. *)
QuotaRefuses(w) ==
    /\ Ready(w)
    /\ used = Quota
    /\ exhausted < MaxExhausted /\ exhausted' = exhausted + 1
    /\ Handle(w, "quota")
    /\ stop' = [stop EXCEPT ![w] = TRUE]
    /\ UNCHANGED <<row, accepted, ownFailures, used, faults>>

SkipForQuota(w) ==
    /\ doing[w] = Nobody /\ stop[w]
    /\ Handle(w, "quota")
    /\ UNCHANGED <<row, accepted, ownFailures, used, stop, exhausted, faults>>

(* The three ways a delivery is resolved, each by id alone. *)
MarkNotificationSent(d) ==
    [row EXCEPT ![d].status = "sent", ![d].payload = FALSE]

MarkNotificationRetry(d) ==
    [row EXCEPT ![d].status = "pending", ![d].due = FALSE, ![d].lease = FALSE]

MarkNotificationDeadLettered(d) ==
    [row EXCEPT ![d].status = "failed", ![d].payload = FALSE]

\* Mutated form of Exhausted: one attempt more.
ExhaustedLate(attempts) == attempts > MaxAttempts

Exhausted(attempts) == attempts >= MaxAttempts

\* Mutated form of Mark: the attempts are looked at before the outcome.
MarkAttemptsFirst(w) ==
    LET m == doing[w] IN
    row' = CASE m.outcome = "quota" -> MarkNotificationRetry(m.d)
             [] m.outcome # "quota" /\ Exhausted(m.attempts) -> MarkNotificationDeadLettered(m.d)
             [] m.outcome = "sent" /\ ~Exhausted(m.attempts) -> MarkNotificationSent(m.d)
             [] m.outcome = "failed" /\ ~Exhausted(m.attempts) -> MarkNotificationRetry(m.d)

Mark(w) ==
    LET m == doing[w] IN
    row' = CASE m.outcome = "sent"  -> MarkNotificationSent(m.d)
             [] m.outcome = "quota" -> MarkNotificationRetry(m.d)
             [] m.outcome = "failed" /\ Exhausted(m.attempts) -> MarkNotificationDeadLettered(m.d)
             [] m.outcome = "failed" /\ ~Exhausted(m.attempts) -> MarkNotificationRetry(m.d)

Resolve(w) ==
    /\ doing[w] # Nobody
    /\ Mark(w)
    /\ doing' = [doing EXCEPT ![w] = Nobody]
    /\ UNCHANGED <<accepted, ownFailures, used, todo, stop, exhausted, faults>>

(* A failed statement ends the pass, a crash the process: what is claimed   *)
(* stays claimed until its lease runs out.                                  *)
PassEnds(w) ==
    /\ todo[w] # {} \/ doing[w] # Nobody
    /\ faults < MaxFaults /\ faults' = faults + 1
    /\ todo' = [todo EXCEPT ![w] = {}]
    /\ doing' = [doing EXCEPT ![w] = Nobody]
    /\ UNCHANGED <<row, accepted, ownFailures, used, stop, exhausted>>

DeliverOne(w) == OptedOut(w) \/ ResolveFails(w) \/ Send(w) \/ QuotaRefuses(w)
                 \/ SkipForQuota(w) \/ Resolve(w)

Next ==
    \/ \E d \in Deliveries : QueueNotification(d) \/ LeaseExpires(d) \/ BackoffElapses(d)
    \/ WindowRolls
    \/ \E w \in Workers : DeliverPending(w) \/ DeliverOne(w) \/ AnswerLost(w) \/ PassEnds(w)

Spec == Init /\ [][Next]_vars

(* The ticker fires for ever, passes go on, and time goes on. *)
FairSpec ==
    /\ Spec
    /\ \A d \in Deliveries : WF_vars(LeaseExpires(d)) /\ WF_vars(BackoffElapses(d))
    /\ WF_vars(WindowRolls)
    /\ \A w \in Workers : WF_vars(DeliverPending(w)) /\ WF_vars(DeliverOne(w))
-----------------------------------------------------------------------------
(* While workers keep their leases, none crashes and no answer of the       *)
(* provider is lost, nobody gets the same e-mail twice: a claim belongs to  *)
(* one worker (ClaimNotifications); each such fault costs one duplicate.    *)
NoDuplicates == \A d \in Deliveries : accepted[d] <= 1 + faults

(* Five attempts: a delivery whose claims are all resolved is tried at most *)
(* MaxAttempts times; every fault costs at most one more.                   *)
TriesBounded == \A d \in Deliveries : accepted[d] + ownFailures[d] <= MaxAttempts + faults

(* A delivery given up on was never sent, unless a fault hid that; one      *)
(* recorded as sent is over (deliverOne resolves by the outcome of Send).   *)
OutcomeTrue ==
    \A d \in Deliveries : row[d].status = "failed" => ownFailures[d] > 0 /\ accepted[d] <= faults

(* What a delivery's row says was tried is what was tried (deliverOne).      *)
AttemptsTrue == OutcomeTrue /\ TriesBounded

(* A delivery recorded as sent or failed stays so and is not tried again:   *)
(* no other worker, late mark or expired lease puts it back on the queue    *)
(* (MarkNotificationSent and its siblings compare nothing but the id).      *)
ResolvedIsFinal ==
    [][\A d \in Deliveries : row[d].status \in {"sent", "failed"} =>
          /\ row'[d].status = row[d].status
          /\ row'[d].attempts = row[d].attempts]_vars

(* Every queued notification is eventually sent or given up on: no crash,   *)
(* failed statement or used-up quota leaves it in the queue for ever.       *)
EventuallyResolved ==
    \A d \in Deliveries : row[d].status = "pending" ~> row[d].status \in {"sent", "failed"}

(* Every queued notification reaches an outcome, and keeps it.              *)
ResolvedForGood == EventuallyResolved /\ ResolvedIsFinal
=============================================================================
