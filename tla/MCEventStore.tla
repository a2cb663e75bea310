---------------------------- MODULE MCEventStore ----------------------------
(* Instances of EventStore and MemoryStore for TLC: the two adapters of the  *)
(* event log, one of which a process is wired with.                          *)
EXTENDS EventStore, MemoryStore

CONSTANTS c1, c2, c3, e1, e2, p1, old, new, r1, r2, w1

VARIABLE adapter

(* Two commands on one scheduled payment, one of which is postExpense with  *)
(* its fresh expense, and a command on another expense.                     *)
ThreeCommands ==
    [t \in {c1, c2, c3} |-> CASE t = c1 -> <<e1, p1>>
                              [] t = c2 -> <<p1>>
                              [] t = c3 -> <<e2>>]
NewForAll == [r \in {r1, r2} |-> new]

(* One subscription asks for expenses only, as the analytics do, the other  *)
(* for scheduled payments; both get a delivery of every event.              *)
ExpensesOrPayments == [s \in {old, new} |-> IF s = old THEN {e1} ELSE {p1}]
TwoCommands == [t \in {c1, c2} |-> IF t = c1 THEN <<e1, p1>> ELSE <<e1>>]

MCInit ==
    /\ MemoryInit
    /\ \/ adapter = "postgres" /\ Init
       \/ /\ adapter = "memory"
          /\ events = {} /\ outbox = {} /\ subs = Registered /\ nextSeq = 1
          /\ lock = [a \in Aggregates |-> Nobody]
          /\ step = [t \in Txns |-> "aborted"]
          /\ at = [t \in Txns |-> 1] /\ version = [t \in Txns |-> 0]
          /\ written = [t \in Txns |-> {}] /\ fanned = [t \in Txns |-> {}]
          /\ reg = [r \in Registrars |-> "done"] /\ backfill = [r \in Registrars |-> {}]
          /\ met = {}

MCNext ==
    \/ adapter = "postgres" /\ Next /\ UNCHANGED <<memoryVars, adapter>>
    \/ adapter = "memory" /\ MemoryNext /\ UNCHANGED <<vars, adapter>>

MCSpec ==
    /\ MCInit /\ [][MCNext]_<<vars, memoryVars, adapter>>
    /\ Fairness /\ MemoryFairness
=============================================================================
