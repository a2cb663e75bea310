----------------------------- MODULE EventStore -----------------------------
(***************************************************************************)
(* Appending events and registering subscriptions in PostgreSQL:           *)
(* postgres.EventStore.Append inside pgxtx.Runner.Within, and              *)
(* postgres.OutboxStore.EnsureSubscription, statement by statement.        *)
(*                                                                         *)
(* Transactions run at READ COMMITTED: every statement sees what had       *)
(* committed when it started, plus the transaction's own writes.  The      *)
(* advisory lock of an aggregate is held until commit or rollback.         *)
(***************************************************************************)
EXTENDS Integers, Sequences, FiniteSets, FiniteSetsExt

CONSTANTS
    Txns,           \* command units of work (UnitOfWork.Within)
    Plan,           \* the aggregates each one appends to, in program order
    Aggregates,
    Subscriptions,
    Registered,     \* subscriptions registered before the behaviour starts
    Registrars,     \* starting replicas, each running EnsureSubscription
    Registers       \* the subscription each of them ensures

Nobody == "nobody"

ASSUME EventStoreAssumption ==
    /\ Plan \in [Txns -> Seq(Aggregates)]
    /\ \A t \in Txns : Plan[t] # << >>
    /\ Nobody \notin Txns
    /\ Registered \subseteq Subscriptions
    /\ Registers \in [Registrars -> Subscriptions]

VARIABLES
    events,         \* committed rows of events.events
    outbox,         \* committed rows of events.outbox, as <<seq, sub>>
    subs,           \* committed rows of events.subscriptions
    nextSeq,        \* events.event_global_seq
    lock,           \* advisory lock holder of each aggregate
    step,           \* next statement of each unit of work
    at,             \* position of that statement's Append in Plan
    version,        \* aggregate_version read by the current Append
    written,        \* uncommitted events of each unit of work
    fanned,         \* uncommitted outbox rows of each unit of work
    reg,            \* next statement of each registrar
    backfill,       \* uncommitted outbox rows of each registrar
    met             \* history: units of work and subscriptions whose
                    \* transactions were open at the same time

txns == <<step, at, version, written, fanned>>
regs == <<reg, backfill>>
db   == <<events, outbox, subs>>
vars == <<db, nextSeq, lock, txns, regs, met>>

Event == [seq : Nat, agg : Aggregates, ver : Nat]

TxnStep == {"lock", "version", "insert", "fanout", "commit", "committed", "aborted"}
RegStep == {"subscribe", "backfill", "commit", "done"}

TypeOK ==
    /\ events \subseteq Event
    /\ outbox \subseteq Nat \X Subscriptions
    /\ subs \subseteq Subscriptions
    /\ nextSeq \in Nat
    /\ lock \in [Aggregates -> Txns \cup {Nobody}]
    /\ step \in [Txns -> TxnStep]
    /\ at \in [Txns -> Nat]
    /\ version \in [Txns -> Nat]
    /\ \A t \in Txns : written[t] \subseteq Event
    /\ \A t \in Txns : fanned[t] \subseteq Nat \X Subscriptions
    /\ reg \in [Registrars -> RegStep]
    /\ \A r \in Registrars : backfill[r] \subseteq Nat \X Subscriptions
    /\ met \subseteq Txns \X Subscriptions

Init ==
    /\ events = {} /\ outbox = {} /\ subs = Registered
    /\ nextSeq = 1
    /\ lock = [a \in Aggregates |-> Nobody]
    /\ step = [t \in Txns |-> "lock"]
    /\ at = [t \in Txns |-> 1]
    /\ version = [t \in Txns |-> 0]
    /\ written = [t \in Txns |-> {}]
    /\ fanned = [t \in Txns |-> {}]
    /\ reg = [r \in Registrars |-> "subscribe"]
    /\ backfill = [r \in Registrars |-> {}]
    /\ met = {}

Target(t) == Plan[t][at[t]]

(* A unit of work is open from its first statement to its end. *)
Open(t) == /\ step[t] \notin {"committed", "aborted"}
           /\ ~(step[t] = "lock" /\ at[t] = 1)

Registering(r) == reg[r] \in {"backfill", "commit"}
-----------------------------------------------------------------------------
\* Mutated form of Lock: the advisory lock is not taken.
LockSkipped(t) ==
    /\ step[t] = "lock"
    /\ met' = met \cup ({t} \X {Registers[r] : r \in {q \in Registrars : Registering(q)}})
    /\ step' = [step EXCEPT ![t] = "version"]
    /\ UNCHANGED <<db, nextSeq, lock, at, version, written, fanned, regs>>

(* select pg_advisory_xact_lock(...): waits for the holder. *)
Lock(t) ==
    /\ step[t] = "lock"
    /\ lock[Target(t)] \in {Nobody, t}
    /\ met' = met \cup ({t} \X {Registers[r] : r \in {q \in Registrars : Registering(q)}})
    /\ lock' = [lock EXCEPT ![Target(t)] = t]
    /\ step' = [step EXCEPT ![t] = "version"]
    /\ UNCHANGED <<db, nextSeq, at, version, written, fanned, regs>>

VersionsOf(a, es) == {e.ver : e \in {f \in es : f.agg = a}}

\* Mutated form of ReadVersion: versions number the store, not the aggregate.
ReadVersionOfStore(t) ==
    /\ step[t] = "version"
    /\ version' = [version EXCEPT ![t] =
            Max({0} \cup {e.ver : e \in events \cup written[t]}) + 1]
    /\ step' = [step EXCEPT ![t] = "insert"]
    /\ UNCHANGED <<db, nextSeq, lock, at, written, fanned, regs, met>>

(* select coalesce(max(aggregate_version), 0) + 1 *)
ReadVersion(t) ==
    /\ step[t] = "version"
    /\ version' = [version EXCEPT ![t] =
            Max({0} \cup VersionsOf(Target(t), events \cup written[t])) + 1]
    /\ step' = [step EXCEPT ![t] = "insert"]
    /\ UNCHANGED <<db, nextSeq, lock, at, written, fanned, regs, met>>

(* insert into events.events ... returning global_seq.  The sequence is not *)
(* transactional: a rolled back insert leaves a gap.                        *)
InsertEvent(t) ==
    /\ step[t] = "insert"
    /\ written' = [written EXCEPT ![t] = @ \cup
            {[seq |-> nextSeq, agg |-> Target(t), ver |-> version[t]]}]
    /\ nextSeq' = nextSeq + 1
    /\ step' = [step EXCEPT ![t] = "fanout"]
    /\ UNCHANGED <<db, lock, at, version, fanned, regs, met>>

\* Mutated form of FanOut: the lock is released when Append returns.
FanOutUnlocking(t) ==
    /\ step[t] = "fanout"
    /\ fanned' = [fanned EXCEPT ![t] = @ \cup ({Max({e.seq : e \in written[t]})} \X subs)]
    /\ IF at[t] < Len(Plan[t])
       THEN at' = [at EXCEPT ![t] = @ + 1] /\ step' = [step EXCEPT ![t] = "lock"]
       ELSE UNCHANGED at /\ step' = [step EXCEPT ![t] = "commit"]
    /\ lock' = [lock EXCEPT ![Target(t)] = Nobody]
    /\ UNCHANGED <<db, nextSeq, version, written, regs, met>>

(* insert into events.outbox ... select from events.subscriptions, then the *)
(* next Append of the unit, if any.                                         *)
FanOut(t) ==
    /\ step[t] = "fanout"
    /\ fanned' = [fanned EXCEPT ![t] = @ \cup ({Max({e.seq : e \in written[t]})} \X subs)]
    /\ IF at[t] < Len(Plan[t])
       THEN at' = [at EXCEPT ![t] = @ + 1] /\ step' = [step EXCEPT ![t] = "lock"]
       ELSE UNCHANGED at /\ step' = [step EXCEPT ![t] = "commit"]
    /\ UNCHANGED <<db, nextSeq, lock, version, written, regs, met>>

Unlock(t) ==
    lock' = [a \in Aggregates |-> IF lock[a] = t THEN Nobody ELSE lock[a]]

\* Mutated form of Commit: the locks are not transaction scoped.
CommitKeepingLocks(t) ==
    /\ step[t] = "commit"
    /\ events' = events \cup written[t]
    /\ outbox' = outbox \cup fanned[t]
    /\ step' = [step EXCEPT ![t] = "committed"]
    /\ UNCHANGED <<subs, nextSeq, lock, at, version, written, fanned, regs, met>>

(* Runner.Within: tx.Commit after fn returned nil. *)
Commit(t) ==
    /\ step[t] = "commit"
    /\ events' = events \cup written[t]
    /\ outbox' = outbox \cup fanned[t]
    /\ step' = [step EXCEPT ![t] = "committed"]
    /\ Unlock(t)
    /\ UNCHANGED <<subs, nextSeq, at, version, written, fanned, regs, met>>

(* Runner.Within: fn returned an error (a failed statement, a lock timeout, *)
(* a failed write of the service) or the process died: everything rolls     *)
(* back.                                                                    *)
Abort(t) ==
    /\ Open(t)
    /\ step' = [step EXCEPT ![t] = "aborted"]
    /\ Unlock(t)
    /\ UNCHANGED <<db, nextSeq, at, version, written, fanned, regs, met>>
-----------------------------------------------------------------------------
\* Mutated form of Subscribe: the backfill runs at every start.
SubscribeAfresh(r) ==
    /\ reg[r] = "subscribe"
    /\ \A q \in Registrars : Registering(q) => Registers[q] # Registers[r]
    /\ met' = met \cup ({t \in Txns : Open(t)} \X {Registers[r]})
    /\ reg' = [reg EXCEPT ![r] = "backfill"]
    /\ UNCHANGED <<db, nextSeq, lock, txns, backfill>>

(* insert into events.subscriptions ... on conflict do update returning     *)
(* (xmax = 0): waits for another registrar's uncommitted row of that name.  *)
Subscribe(r) ==
    /\ reg[r] = "subscribe"
    /\ \A q \in Registrars : Registering(q) => Registers[q] # Registers[r]
    /\ met' = IF Registers[r] \in subs THEN met
              ELSE met \cup ({t \in Txns : Open(t)} \X {Registers[r]})
    /\ reg' = [reg EXCEPT ![r] = IF Registers[r] \in subs THEN "done" ELSE "backfill"]
    /\ UNCHANGED <<db, nextSeq, lock, txns, backfill>>

\* Mutated form of Backfill: history is not replayed.
BackfillNothing(r) ==
    /\ reg[r] = "backfill"
    /\ reg' = [reg EXCEPT ![r] = "commit"]
    /\ UNCHANGED <<db, nextSeq, lock, txns, backfill, met>>

(* insert into events.outbox ... select from events.events. *)
Backfill(r) ==
    /\ reg[r] = "backfill"
    /\ backfill' = [backfill EXCEPT ![r] = {<<e.seq, Registers[r]>> : e \in events}]
    /\ reg' = [reg EXCEPT ![r] = "commit"]
    /\ UNCHANGED <<db, nextSeq, lock, txns, met>>

CommitRegistration(r) ==
    /\ reg[r] = "commit"
    /\ subs' = subs \cup {Registers[r]}
    /\ outbox' = outbox \cup backfill[r]
    /\ reg' = [reg EXCEPT ![r] = "done"]
    /\ UNCHANGED <<events, nextSeq, lock, txns, backfill, met>>

(* The replica dies or a statement fails; it registers again on restart. *)
AbortRegistration(r) ==
    /\ Registering(r)
    /\ reg' = [reg EXCEPT ![r] = "subscribe"]
    /\ backfill' = [backfill EXCEPT ![r] = {}]
    /\ UNCHANGED <<db, nextSeq, lock, txns, met>>

Next ==
    \/ \E t \in Txns : \/ Lock(t) \/ ReadVersion(t) \/ InsertEvent(t)
                       \/ FanOut(t) \/ Commit(t) \/ Abort(t)
    \/ \E r \in Registrars : \/ Subscribe(r) \/ Backfill(r)
                             \/ CommitRegistration(r) \/ AbortRegistration(r)

Spec == Init /\ [][Next]_vars

(* A running transaction executes its next statement once it may. *)
Fairness ==
    \A t \in Txns :
        WF_vars(Lock(t) \/ ReadVersion(t) \/ InsertEvent(t) \/ FanOut(t) \/ Commit(t))

FairSpec == Spec /\ Fairness
-----------------------------------------------------------------------------
(* The UNIQUE (aggregate, aggregate_version) constraint never fires: when   *)
(* an Append is about to insert, nobody else, committed or in flight, has   *)
(* an event of that aggregate and version.                                  *)
NoVersionConflict ==
    \A t \in Txns : step[t] = "insert" =>
        \A u \in Txns : \A e \in events \cup written[u] :
            (u = t \/ Open(u)) /\ e.agg = Target(t) => e.ver # version[t]

(* The committed stream of an aggregate is numbered 1, 2, 3, ... in the     *)
(* order of global_seq.                                                     *)
StreamsDense ==
    \A a \in Aggregates :
        LET es == {e \in events : e.agg = a} IN
        /\ VersionsOf(a, es) = 1..Cardinality(es)
        /\ \A e, f \in es : e.ver < f.ver <=> e.seq < f.seq

(* Concurrent Appends to one aggregate number its stream soundly: as it      *)
(* stands and as it will be once those in flight commit.                    *)
StreamsSound == StreamsDense /\ NoVersionConflict

(* Within one aggregate events become visible in global_seq order, which is *)
(* what the blocker guard of the claim statement needs of its producer.     *)
VisibleInOrder ==
    [][\A e \in events' \ events : \A f \in events : f.agg = e.agg => f.seq < e.seq]_vars

(* The UNIQUE (event_id, subscription) constraint never fires: fan-out and  *)
(* backfill never both insert a row.                                        *)
NoDoubleDelivery ==
    \A r \in Registrars, t \in Txns :
        /\ reg[r] = "commit" => backfill[r] \cap outbox = {}
        /\ step[t] = "commit" => fanned[t] \cap outbox = {}

(* Every committed event has a delivery row for every registered            *)
(* subscription and no other - Append fans out to every subscription and    *)
(* EnsureSubscription "enqueues every existing event" - except for an event *)
(* whose unit of work was open while the subscription was being registered  *)
(* (met), whichever replica registered it and however often it had to start *)
(* again.                                                                   *)
FanOutWhenApart ==
    /\ outbox \subseteq {e.seq : e \in events} \X subs
    /\ \A t \in Txns, s \in subs :
        step[t] = "committed" /\ <<t, s>> \notin met
            => \A e \in written[t] : <<e.seq, s>> \in outbox

(* Each event reaches each subscription's queue, by fan-out or by backfill,  *)
(* and never by both (Append, EnsureSubscription).                          *)
FanOutExact == FanOutWhenApart /\ NoDoubleDelivery

(* Units of work end: no set of them waits for each other's locks.          *)
UnitsEnd == <>\A t \in Txns : step[t] \in {"committed", "aborted"}
=============================================================================
