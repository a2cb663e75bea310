----------------------------- MODULE MemoryStore -----------------------------
(***************************************************************************)
(* The event log and its subscriptions without PostgreSQL: memory.EventStore *)
(* under memory.UnitOfWork, the adapters of a process that is given no       *)
(* database.                                                                *)
(*                                                                         *)
(* Units of work run one at a time behind a mutex; a failing one puts every  *)
(* participant back to the copy taken when it began.  Claiming a delivery,   *)
(* recording its outcome and a write that uses no unit of work take only     *)
(* the repository's own mutex, so they go on while a unit is open, and the   *)
(* copy knows nothing of them.                                              *)
(*                                                                         *)
(* Nothing outlives the process: the three engines register before the      *)
(* first command, on an empty log, and there is one engine for each          *)
(* subscription.                                                            *)
(***************************************************************************)
EXTENDS Integers, Sequences, SequencesExt

CONSTANTS
    Commands,           \* units of work of the services
    Appends,            \* the aggregates each one appends to, in order
    Engines,            \* the subscriptions, each with its engine
    Handles,            \* the aggregates an engine's handler asks for
    Writes,             \* writes made outside any unit of work
    MaxTries,           \* Policy.MaxAttempts
    MaxFailures         \* handlers that fail and dead letters requeued, together

ASSUME MemoryStoreAssumption ==
    /\ Handles \in [Engines -> SUBSET UNION {Range(Appends[c]) : c \in Commands}]
    /\ MaxTries \in Nat \ {0} /\ MaxFailures \in Nat

VARIABLES
    log,                \* EventStore.events; an event's place is its sequence number
    queue,              \* EventStore.deliveries, by subscription and event
    direct,             \* the rows written outside a unit of work
    projected,          \* events whose handler's writes stand, by subscription
    holder,             \* who holds the mutex of the unit of work
    copy,               \* what it restores if it fails
    command,            \* events appended by each command, or how it ended
    engine,             \* what each engine is doing
    spent,              \* failures so far
    acknowledged,       \* history: writes whose caller was answered
    torn                \* history: a restore discarded somebody else's change

state == <<log, queue, direct, projected>>
memoryVars == <<state, holder, copy, command, engine, spent, acknowledged, torn>>

Nil == "nil"
Idle == [at |-> "idle", id |-> <<>>]
Queued == [status |-> "pending", attempts |-> 0, locked |-> FALSE, due |-> TRUE]
Row(s, e) == queue[s, e.id]

(* Stored events, earliest first. *)
Earlier(i, j) == i < j /\ log[i].agg = log[j].agg

MemoryInit ==
    /\ log = <<>> /\ queue = <<>> /\ direct = {}
    /\ projected = [s \in Engines |-> <<>>]
    /\ holder = Nil /\ copy = <<>>
    /\ command = [c \in Commands |-> 0]
    /\ engine = [s \in Engines |-> Idle]
    /\ spent = 0 /\ acknowledged = {} /\ torn = FALSE

-----------------------------------------------------------------------------
(* The unit of work. *)

Snapshot == [log |-> log, queue |-> queue, direct |-> direct, projected |-> projected]

(* Within: wait for the mutex, then copy every participant. *)
Within(who) == holder = Nil /\ holder' = who /\ copy' = Snapshot

Leave == holder' = Nil /\ copy' = <<>>

(* A delivery somebody else has touched since the copy, or a row written. *)
Overlapped ==
    \/ direct # copy.direct
    \/ \E d \in DOMAIN queue :
          queue[d] # IF d \in DOMAIN copy.queue THEN copy.queue[d] ELSE Queued

Restore ==
    /\ log' = copy.log /\ queue' = copy.queue /\ direct' = copy.direct
    /\ projected' = copy.projected
    /\ torn' = (torn \/ Overlapped)

-----------------------------------------------------------------------------
(* Commands: they append first and write their rows afterwards. *)

Running(c) == holder = c
Appended(c) == command[c] = Len(Appends[c])

BeginCommand(c) ==
    /\ command[c] = 0 /\ Within(c)
    /\ UNCHANGED <<state, command, engine, spent, acknowledged, torn>>

(* The event and a delivery for every subscription, at once visible. *)
AppendEvent(c) ==
    LET e == [id |-> <<c, command[c] + 1>>, agg |-> Appends[c][command[c] + 1]] IN
    /\ Running(c) /\ ~Appended(c)
    /\ log' = Append(log, e)
    /\ queue' = [d \in DOMAIN queue \cup (Engines \X {e.id}) |->
                    IF d \in DOMAIN queue THEN queue[d] ELSE Queued]
    /\ command' = [command EXCEPT ![c] = @ + 1]
    /\ UNCHANGED <<direct, projected, holder, copy, engine, spent, acknowledged, torn>>

CommandEnds(c) ==
    /\ Running(c) /\ Appended(c) /\ Leave
    /\ command' = [command EXCEPT ![c] = -1]
    /\ UNCHANGED <<state, engine, spent, acknowledged, torn>>

(* The write that follows an append is refused. *)
CommandFails(c) ==
    /\ Running(c) /\ command[c] > 0 /\ Restore /\ Leave
    /\ command' = [command EXCEPT ![c] = -1]
    /\ UNCHANGED <<engine, spent, acknowledged>>

(* A write that joins no unit, a new category for one. *)
CreateDirectly(w) ==
    /\ w \notin acknowledged
    /\ direct' = direct \cup {w} /\ acknowledged' = acknowledged \cup {w}
    /\ UNCHANGED <<log, queue, projected, holder, copy, command, engine, spent, torn>>

-----------------------------------------------------------------------------
(* Deliveries. *)

\* Mutated form of blockedLocked: a dead letter holds nothing up.
BlockedByPending(s, j) ==
    \E i \in 1 .. Len(log) : Earlier(i, j) /\ Row(s, log[i]).status = "pending"

(* An earlier event of the aggregate is outstanding. *)
blockedLocked(s, j) ==
    \E i \in 1 .. Len(log) : Earlier(i, j) /\ Row(s, log[i]).status \in {"pending", "dead"}

Candidates(s) ==
    {j \in 1 .. Len(log) :
        /\ Row(s, log[j]).status = "pending" /\ Row(s, log[j]).due /\ ~Row(s, log[j]).locked
        /\ log[j].agg \in Handles[s]
        /\ ~blockedLocked(s, j)}

(* The first one is counted and leased. *)
claim(s) ==
    /\ engine[s].at = "idle" /\ Candidates(s) # {}
    /\ LET e == log[Min(Candidates(s))] IN
       /\ queue' = [queue EXCEPT ![s, e.id].attempts = @ + 1, ![s, e.id].locked = TRUE]
       /\ engine' = [engine EXCEPT ![s] = [at |-> "claimed", id |-> e.id]]
    /\ UNCHANGED <<log, direct, projected, holder, copy, command, spent, acknowledged, torn>>

BeginHandler(s) ==
    /\ engine[s].at = "claimed" /\ Within(s)
    /\ engine' = [engine EXCEPT ![s].at = "handling"]
    /\ UNCHANGED <<state, command, spent, acknowledged, torn>>

HandlerReturns(s) ==
    /\ engine[s].at = "handling" /\ Leave
    /\ projected' = [projected EXCEPT ![s] = Append(@, engine[s].id)]
    /\ engine' = [engine EXCEPT ![s].at = "handled"]
    /\ UNCHANGED <<log, queue, direct, command, spent, acknowledged, torn>>

HandlerErrs(s) ==
    /\ engine[s].at = "handling" /\ spent < MaxFailures
    /\ Restore /\ Leave
    /\ engine' = [engine EXCEPT ![s].at = "failed"]
    /\ spent' = spent + 1
    /\ UNCHANGED <<command, acknowledged>>

Processed(d) == [d EXCEPT !.status = "processed", !.locked = FALSE]

(* The backoff is counted from here; the last attempt is the end. *)
Failed(d) ==
    [d EXCEPT !.locked = FALSE, !.due = FALSE,
              !.status = IF d.attempts >= MaxTries THEN "dead" ELSE @]

(* The outcome is written to the delivery that was claimed, if a restore    *)
(* has not taken it out of the queue.                                       *)
RecordOutcome(s) ==
    LET d == <<s, engine[s].id>> IN
    /\ engine[s].at \in {"handled", "failed"}
    /\ queue' = [q \in DOMAIN queue |->
                    IF q # d THEN queue[q]
                    ELSE IF engine[s].at = "handled" THEN Processed(queue[q])
                    ELSE Failed(queue[q])]
    /\ engine' = [engine EXCEPT ![s] = Idle]
    /\ UNCHANGED <<log, direct, projected, holder, copy, command, spent, acknowledged, torn>>

ProcessNext(s) ==
    claim(s) \/ BeginHandler(s) \/ HandlerReturns(s) \/ HandlerErrs(s) \/ RecordOutcome(s)

(* A lease nobody holds any more, brought back by a restore.  (Nobody but   *)
(* its own engine could claim a delivery whose handler still runs.)         *)
LeaseEnds(d) ==
    /\ queue[d].locked /\ engine[d[1]].id # d[2]
    /\ queue' = [queue EXCEPT ![d].locked = FALSE]
    /\ UNCHANGED <<log, direct, projected, holder, copy, command, engine, spent, acknowledged, torn>>

BackoffEnds(d) ==
    /\ ~queue[d].due
    /\ queue' = [queue EXCEPT ![d].due = TRUE]
    /\ UNCHANGED <<log, direct, projected, holder, copy, command, engine, spent, acknowledged, torn>>

RequeueLetter(d) ==
    /\ queue[d].status = "dead" /\ spent < MaxFailures
    /\ queue' = [queue EXCEPT ![d] = Queued]
    /\ spent' = spent + 1
    /\ UNCHANGED <<log, direct, projected, holder, copy, command, engine, acknowledged, torn>>

MemoryNext ==
    \/ \E c \in Commands : BeginCommand(c) \/ AppendEvent(c) \/ CommandEnds(c) \/ CommandFails(c)
    \/ \E s \in Engines : ProcessNext(s)
    \/ \E w \in Writes : CreateDirectly(w)
    \/ \E d \in DOMAIN queue : LeaseEnds(d) \/ BackoffEnds(d) \/ RequeueLetter(d)

(* Commands and engines run on, a Go mutex starves nobody, and leases and    *)
(* backoffs end with time.                                                  *)
MemoryFairness ==
    /\ \A c \in Commands : WF_memoryVars(AppendEvent(c) \/ CommandEnds(c))
    /\ \A s \in Engines : SF_memoryVars(BeginHandler(s)) /\ WF_memoryVars(ProcessNext(s))
    /\ \A s \in Engines, c \in Commands : \A n \in 1 .. Len(Appends[c]) :
          WF_memoryVars(<<s, <<c, n>>>> \in DOMAIN queue
                            /\ (LeaseEnds(<<s, <<c, n>>>>) \/ BackoffEnds(<<s, <<c, n>>>>)))

-----------------------------------------------------------------------------
Ids(es) == [n \in 1 .. Len(es) |-> es[n].id]
Of(a) == Ids(SelectSeq(log, LAMBDA e : e.agg = a))
Seen(s, a) == SelectSeq(projected[s], LAMBDA i : Appends[i[1]][i[2]] = a)

(* Every stored event has its delivery for every subscription and no other   *)
(* exists, and what is marked processed has been projected, whatever fails.  *)
NothingLost ==
    /\ DOMAIN queue = Engines \X Range(Ids(log))
    /\ \A d \in DOMAIN queue :
          queue[d].status = "processed" => d[2] \in Range(projected[d[1]])

(* "a failing handler discards its partial writes exactly as a rolled-back   *)
(* PostgreSQL transaction would": as long as no failing unit overlapped a    *)
(* claim, an outcome or a write of somebody else, handlers have seen each    *)
(* aggregate in order and once, and every acknowledged write is there.       *)
AsIfTransactional ==
    ~torn =>
        /\ \A s \in Engines : \A a \in Handles[s] : IsPrefix(Seen(s, a), Of(a))
        /\ direct = acknowledged

(* deadBlockedLocked: what is behind a dead letter is not deliverable. *)
Outstanding(s, j) ==
    /\ log[j].agg \in Handles[s] /\ Row(s, log[j]).status = "pending"
    /\ ~\E i \in 1 .. Len(log) : Earlier(i, j) /\ Row(s, log[i]).status = "dead"

(* The in-memory log loses nothing, is as good as a transaction while no    *)
(* failing unit overlaps another's work, and drains: once commands and       *)
(* failures have ceased, all that was deliverable has been delivered, given  *)
(* up or parked behind a dead letter (memory.EventStore, memory.UnitOfWork). *)
MemoryDelivers ==
    /\ [](NothingLost /\ AsIfTransactional)
    /\ <>[]\A s \in Engines, j \in 1 .. Len(log) : ~Outstanding(s, j)
=============================================================================
