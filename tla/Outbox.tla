------------------------------- MODULE Outbox -------------------------------
(***************************************************************************)
(* The transactional outbox of one subscription: the delivery rows of      *)
(* events.outbox (postgres.OutboxStore), the engines that drain them       *)
(* (pkg/outbox.Engine, one per replica) and the operator who requeues      *)
(* dead letters.                                                           *)
(*                                                                         *)
(* A row is identified by the global_seq of its event.  The columns of the *)
(* table are functions over Seqs.  Time is abstracted to what the claim    *)
(* statement tells apart: has available_at passed, is the lease (locked_at)*)
(* none, running or expired.                                               *)
(*                                                                         *)
(* Two switches say how hostile the environment is.  SlowHandlers lets a   *)
(* live worker keep running after its lease has expired; LostAcks lets a   *)
(* COMMIT succeed in the database while the worker sees an error.          *)
(***************************************************************************)
EXTENDS Integers, FiniteSets

CONSTANTS
    Workers,        \* engines polling this subscription, one per replica
    Aggregates,     \* (aggregate_type, aggregate_id) pairs
    Subscribed,     \* those whose type is in the handler's AggregateTypes()
    Seqs,           \* global_seq values
    MaxAttempts,    \* Policy.MaxAttempts
    MaxFaults,      \* bound on faults and operator requeues in one behaviour
    SlowHandlers,   \* may a handler outlive LeaseTTL?
    LostAcks        \* may a successful COMMIT be reported as an error?

ASSUME OutboxAssumption ==
    /\ IsFiniteSet(Workers)
    /\ Subscribed \subseteq Aggregates
    /\ Seqs \subseteq Int /\ Seqs # {} /\ \A s \in Seqs : s > 0
    /\ MaxAttempts \in Nat \ {0}
    /\ MaxFaults \in Nat
    /\ SlowHandlers \in BOOLEAN
    /\ LostAcks \in BOOLEAN

VARIABLES
    agg,            \* aggregate of each row, fixed when the behaviour starts
    status,         \* "absent" until the appending transaction commits
    attempts,       \* deliveries counted so far
    available,      \* available_at <= now()
    lease,          \* locked_at: "none", "held" (within LeaseTTL), "expired"
    pc,             \* what each worker is doing inside ProcessNext
    claimed,        \* the message each worker holds: [seq, attempts]
    applied,        \* history: committed handler runs per row
    overruns,       \* history: per row, leases that ran out under a live worker
                    \* and commits whose acknowledgement was lost
    checkpoint,     \* events.projector_checkpoints of the subscription
    faults          \* faults spent so far

rows    == <<agg, status, attempts, available, lease>>
workers == <<pc, claimed>>
vars    == <<rows, workers, applied, overruns, checkpoint, faults>>

RowStatus   == {"absent", "pending", "processed", "dead"}
LeaseState  == {"none", "held", "expired"}
WorkerState == {"idle", "handling", "failing", "down"}
Message     == [seq : Seqs, attempts : Nat]
NoMessage   == [seq |-> CHOOSE s \in Seqs : TRUE, attempts |-> 0]

Present(s)     == status[s] # "absent"
Same(q, s)     == agg[q] = agg[s]
Busy(w)        == pc[w] \in {"handling", "failing"}
Holds(w, s)    == Busy(w) /\ claimed[w].seq = s
HeldAlive(s)   == \E w \in Workers : Holds(w, s)

TypeOK ==
    /\ agg \in [Seqs -> Aggregates]
    /\ status \in [Seqs -> RowStatus]
    /\ attempts \in [Seqs -> Nat]
    /\ available \in [Seqs -> BOOLEAN]
    /\ lease \in [Seqs -> LeaseState]
    /\ pc \in [Workers -> WorkerState]
    /\ claimed \in [Workers -> Message]
    /\ applied \in [Seqs -> Nat]
    /\ overruns \in [Seqs -> Nat]
    /\ checkpoint \in [last : Int, count : Nat]
    /\ faults \in 0..MaxFaults

Init ==
    /\ agg \in [Seqs -> Aggregates]
    /\ status = [s \in Seqs |-> "absent"]
    /\ attempts = [s \in Seqs |-> 0]
    /\ available = [s \in Seqs |-> TRUE]
    /\ lease = [s \in Seqs |-> "none"]
    /\ pc = [w \in Workers |-> "idle"]
    /\ claimed = [w \in Workers |-> NoMessage]
    /\ applied = [s \in Seqs |-> 0]
    /\ overruns = [s \in Seqs |-> 0]
    /\ checkpoint = [last |-> 0, count |-> 0]
    /\ faults = 0

Fault == faults < MaxFaults /\ faults' = faults + 1

-----------------------------------------------------------------------------
(* EventStore.Append, as the queue sees it: the committed transaction makes *)
(* one pending row visible.  The advisory lock of the aggregate is held     *)
(* until commit, so within one aggregate rows appear in global_seq order;   *)
(* across aggregates they may appear out of order.                          *)
Append(s) ==
    /\ status[s] = "absent"
    /\ \A q \in Seqs : Same(q, s) /\ Present(q) => q < s
    /\ status' = [status EXCEPT ![s] = "pending"]
    /\ UNCHANGED <<agg, attempts, available, lease, workers, applied,
                   overruns, checkpoint, faults>>

\* Mutated form of Blocked: dead letters no longer hold their successors.
BlockedByPendingOnly(s) ==
    \E q \in Seqs : Same(q, s) /\ q < s /\ status[q] = "pending"

(* The NOT EXISTS guard of the claim statement. *)
Blocked(s) ==
    \E q \in Seqs : /\ Same(q, s)
                    /\ q < s
                    /\ status[q] \in {"pending", "dead"}

\* Mutated form of Claimable: the lease of another worker is ignored.
ClaimableIgnoringLease(s) ==
    status[s] = "pending" /\ available[s] /\ agg[s] \in Subscribed /\ ~Blocked(s)

\* Mutated form of Claimable: the blocker guard is missing.
ClaimableUnordered(s) ==
    status[s] = "pending" /\ available[s] /\ lease[s] # "held" /\ agg[s] \in Subscribed

(* The WHERE clause of the claim statement. *)
Claimable(s) ==
    /\ status[s] = "pending"
    /\ available[s]
    /\ lease[s] # "held"
    /\ agg[s] \in Subscribed
    /\ ~Blocked(s)

(* OutboxStore.claim: ORDER BY global_seq FOR UPDATE SKIP LOCKED LIMIT 1. An *)
(* earlier claimable row is passed over only while another worker's open     *)
(* transaction can hold its row lock.                                        *)
Claim(w) ==
    /\ pc[w] = "idle"
    /\ \E s \in Seqs :
        /\ Claimable(s)
        /\ \A q \in Seqs : Claimable(q) /\ q < s => HeldAlive(q)
        /\ lease' = [lease EXCEPT ![s] = "held"]
        /\ attempts' = [attempts EXCEPT ![s] = @ + 1]
        /\ claimed' = [claimed EXCEPT ![w] =
                          [seq |-> s, attempts |-> attempts[s] + 1]]
        /\ pc' = [pc EXCEPT ![w] = "handling"]
    /\ UNCHANGED <<agg, status, available, applied, overruns, checkpoint,
                   faults>>

\* Mutated form of CommitHandled: the checkpoint is not a maximum and is
\* counted only when it advances.
CommitHandledSkippingCheckpoint(w) ==
    LET s == claimed[w].seq IN
    /\ status' = [status EXCEPT ![s] = "processed"]
    /\ lease' = [lease EXCEPT ![s] = "none"]
    /\ applied' = [applied EXCEPT ![s] = @ + 1]
    /\ checkpoint' = IF s > checkpoint.last
                     THEN [last |-> s, count |-> checkpoint.count + 1]
                     ELSE checkpoint
    /\ UNCHANGED <<agg, attempts, available, claimed>>

\* Mutated form of CommitHandled: the handler's writes commit, the outcome
\* does not.
CommitHandledWithoutOutcome(w) ==
    /\ applied' = [applied EXCEPT ![claimed[w].seq] = @ + 1]
    /\ lease' = [lease EXCEPT ![claimed[w].seq] = "none"]
    /\ UNCHANGED <<agg, status, attempts, available, claimed, checkpoint>>

(* Handler success: the read-model write, complete() and the checkpoint     *)
(* commit in one transaction.  complete() updates the row by id only.       *)
CommitHandled(w) ==
    LET s == claimed[w].seq IN
    /\ status' = [status EXCEPT ![s] = "processed"]
    /\ lease' = [lease EXCEPT ![s] = "none"]
    /\ applied' = [applied EXCEPT ![s] = @ + 1]
    /\ checkpoint' = [last  |-> IF s > checkpoint.last
                                THEN s ELSE checkpoint.last,
                      count |-> checkpoint.count + 1]
    /\ UNCHANGED <<agg, attempts, available, claimed>>

Succeed(w) ==
    /\ pc[w] = "handling"
    /\ CommitHandled(w)
    /\ pc' = [pc EXCEPT ![w] = "idle"]
    /\ UNCHANGED <<overruns, faults>>

(* tx.Commit returns an error although the database committed. *)
CommitAckLost(w) ==
    /\ LostAcks
    /\ pc[w] = "handling"
    /\ CommitHandled(w)
    /\ overruns' = [overruns EXCEPT ![claimed[w].seq] = @ + 1]
    /\ pc' = [pc EXCEPT ![w] = "failing"]
    /\ Fault

(* The handler, complete() or the commit fails: the transaction rolls back. *)
HandlerFails(w) ==
    /\ pc[w] = "handling"
    /\ pc' = [pc EXCEPT ![w] = "failing"]
    /\ UNCHANGED <<rows, claimed, applied, overruns, checkpoint, faults>>

\* Mutated form of RecordFailure: a failed delivery is retried for ever.
RecordFailureForever(w) ==
    LET s == claimed[w].seq IN
    /\ pc[w] = "failing"
    /\ status' = [status EXCEPT ![s] = "pending"]
    /\ available' = [available EXCEPT ![s] = FALSE]
    /\ attempts' = [attempts EXCEPT ![s] = 0]
    /\ lease' = [lease EXCEPT ![s] = "none"]
    /\ pc' = [pc EXCEPT ![w] = "idle"]
    /\ UNCHANGED <<agg, claimed, applied, overruns, checkpoint, faults>>

(* OutboxStore.fail: retry with backoff, or dead-letter at MaxAttempts.  The *)
(* row is updated by id, whatever its status is by now.                      *)
RecordFailure(w) ==
    LET s == claimed[w].seq IN
    /\ pc[w] = "failing"
    /\ status' = [status EXCEPT ![s] = IF claimed[w].attempts >= MaxAttempts
                                       THEN "dead" ELSE "pending"]
    /\ available' = [available EXCEPT ![s] = FALSE]
    /\ lease' = [lease EXCEPT ![s] = "none"]
    /\ pc' = [pc EXCEPT ![w] = "idle"]
    /\ UNCHANGED <<agg, attempts, claimed, applied, overruns, checkpoint,
                   faults>>

(* Begin of the projection transaction, or fail() itself, returns an error: *)
(* ProcessNext gives up and the row keeps its lease.                        *)
Abandon(w) ==
    /\ Busy(w)
    /\ pc' = [pc EXCEPT ![w] = "idle"]
    /\ Fault
    /\ UNCHANGED <<rows, claimed, applied, overruns, checkpoint>>

(* The process dies; an open transaction rolls back, the lease stays. *)
Crash(w) ==
    /\ pc[w] # "down"
    /\ pc' = [pc EXCEPT ![w] = "down"]
    /\ Fault
    /\ UNCHANGED <<rows, claimed, applied, overruns, checkpoint>>

Restart(w) ==
    /\ pc[w] = "down"
    /\ pc' = [pc EXCEPT ![w] = "idle"]
    /\ UNCHANGED <<rows, claimed, applied, overruns, checkpoint, faults>>

(* now() passes locked_at + LeaseTTL.  Unless SlowHandlers, no live worker  *)
(* is still inside ProcessNext for the row by then.                         *)
LeaseExpires(s) ==
    /\ lease[s] = "held"
    /\ IF HeldAlive(s)
       THEN SlowHandlers /\ Fault /\ overruns' = [overruns EXCEPT ![s] = @ + 1]
       ELSE UNCHANGED <<faults, overruns>>
    /\ lease' = [lease EXCEPT ![s] = "expired"]
    /\ UNCHANGED <<agg, status, attempts, available, workers, applied,
                   checkpoint>>

(* now() passes available_at. *)
BackoffElapses(s) ==
    /\ ~available[s]
    /\ available' = [available EXCEPT ![s] = TRUE]
    /\ UNCHANGED <<agg, status, attempts, lease, workers, applied, overruns,
                   checkpoint, faults>>

\* Mutated form of RequeueDeadLetter: any resolved row may be requeued.
RequeueAnyResolved(s) ==
    /\ status[s] \in {"dead", "processed"}
    /\ status' = [status EXCEPT ![s] = "pending"]
    /\ attempts' = [attempts EXCEPT ![s] = 0]
    /\ available' = [available EXCEPT ![s] = TRUE]
    /\ lease' = [lease EXCEPT ![s] = "none"]
    /\ Fault
    /\ UNCHANGED <<agg, workers, applied, overruns, checkpoint>>

(* OutboxStore.RequeueDeadLetter: an operator intervenes, so it is bounded  *)
(* like the faults.                                                          *)
RequeueDeadLetter(s) ==
    /\ status[s] = "dead"
    /\ status' = [status EXCEPT ![s] = "pending"]
    /\ attempts' = [attempts EXCEPT ![s] = 0]
    /\ available' = [available EXCEPT ![s] = TRUE]
    /\ lease' = [lease EXCEPT ![s] = "none"]
    /\ Fault
    /\ UNCHANGED <<agg, workers, applied, overruns, checkpoint>>

Next ==
    \/ \E s \in Seqs : \/ Append(s)
                       \/ LeaseExpires(s)
                       \/ BackoffElapses(s)
                       \/ RequeueDeadLetter(s)
    \/ \E w \in Workers : \/ Claim(w)
                          \/ Succeed(w)
                          \/ CommitAckLost(w)
                          \/ HandlerFails(w)
                          \/ RecordFailure(w)
                          \/ Abandon(w)
                          \/ Crash(w)
                          \/ Restart(w)

Spec == Init /\ [][Next]_vars

(* What the code's scheduling justifies: Engine.Run polls for ever, a      *)
(* started ProcessNext finishes, a crashed pod is restarted, time passes.  *)
Fairness ==
    /\ \A w \in Workers :
        /\ WF_vars(Claim(w))
        /\ WF_vars(Succeed(w) \/ HandlerFails(w))
        /\ WF_vars(RecordFailure(w))
        /\ WF_vars(Restart(w))
    /\ \A s \in Seqs :
        /\ WF_vars(LeaseExpires(s) /\ UNCHANGED faults)
        /\ WF_vars(BackoffElapses(s))

FairSpec == Spec /\ Fairness
-----------------------------------------------------------------------------
(* OutboxStore.Lag: pending rows that are not behind a dead letter.  Unlike *)
(* the claim statement it does not filter by aggregate type.                *)
BehindDead(s) ==
    \E q \in Seqs : Same(q, s) /\ q < s /\ status[q] = "dead"

Lag == {s \in Seqs : status[s] = "pending" /\ ~BehindDead(s)}
-----------------------------------------------------------------------------
(* Every committed handler run is recorded and no row's handler commits     *)
(* twice: outbox.Handler.Handle, "a handler returning nil is committed      *)
(* exactly once together with its outcome".                                 *)
ExactlyOnce ==
    \A s \in Seqs : applied[s] = IF status[s] = "processed" THEN 1 ELSE 0

(* No processed row has an unprocessed predecessor in its aggregate: a      *)
(* retried or dead-lettered event freezes its aggregate, it is never        *)
(* overtaken (the blocker guard of claimStatement).                         *)
NoOvertaking ==
    \A q, s \in Seqs : /\ Same(q, s) /\ q < s
                       /\ Present(q) /\ status[s] = "processed"
                       => status[q] = "processed"

(* Two live workers are never inside ProcessNext for the same row, and the  *)
(* row they work on is still theirs: pending, leased and not rewritten      *)
(* since the claim.                                                         *)
OneHolder ==
    /\ \A v, w \in Workers : /\ Busy(v) /\ Busy(w)
                             /\ claimed[v].seq = claimed[w].seq
                             => v = w
    /\ \A w \in Workers : Busy(w) =>
        /\ status[claimed[w].seq] = "pending"
        /\ lease[claimed[w].seq] = "held"
        /\ attempts[claimed[w].seq] = claimed[w].attempts

(* The checkpoint counts exactly the processed rows and names the largest   *)
(* of them, however the rows were interleaved, retried or requeued          *)
(* (OutboxStore.complete).                                                  *)
CheckpointAgrees ==
    LET done == {s \in Seqs : status[s] = "processed"} IN
    /\ checkpoint.count = Cardinality(done)
    /\ \A s \in done : s <= checkpoint.last
    /\ done # {} => checkpoint.last \in done

(* A handler never commits for a row once the handler of a later row of the *)
(* same aggregate has committed: handlers observe each aggregate in order.  *)
AppliedInOrder ==
    [][\A s \in Seqs : applied'[s] > applied[s] =>
          \A q \in Seqs : Same(q, s) /\ q > s => applied[q] = 0]_vars

(* "processed" is final: no failure record, crash or requeue puts a row     *)
(* back on the queue after its handler committed.                           *)
ProcessedIsFinal ==
    [][\A s \in Seqs : status[s] = "processed" => status'[s] = "processed"]_vars

(* A handler commits again for a row only because of a lease that ran out   *)
(* under a live worker or a lost acknowledgement of that row, once for each *)
(* of them, and only they can leave a row on the queue whose handler has    *)
(* committed.  complete() and fail() match by id alone, so each worker that *)
(* lost its lease may still finish or revive the row; crashes, retries,     *)
(* requeues and what befalls other rows never repeat a handler's effect.    *)
RepeatsExplained ==
    \A s \in Seqs : applied[s] <= overruns[s] + (IF status[s] = "processed" THEN 1 ELSE 0)

(* Every subscribed row that counts as lag is eventually processed,         *)
(* dead-lettered, or parked behind a dead letter of its own aggregate: no   *)
(* crash, backoff or lease loses it and no other aggregate holds it up, so  *)
(* the lag an operator watches drains.                                      *)
EventuallyResolved ==
    \A s \in Seqs : s \in Lag /\ agg[s] \in Subscribed ~> s \notin Lag

(* The queue implements in-order, exactly-once delivery per aggregate. *)
Delivery == INSTANCE OrderedDelivery WITH
    log <- [a \in Aggregates |-> {s \in Seqs : Present(s) /\ agg[s] = a}],
    delivered <- [a \in Aggregates |->
                    {s \in Seqs : status[s] = "processed" /\ agg[s] = a}]

ImplementsOrderedDelivery == Delivery!Spec
=============================================================================
