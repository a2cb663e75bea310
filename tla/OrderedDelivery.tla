--------------------------- MODULE OrderedDelivery ---------------------------
(***************************************************************************)
(* What the outbox promises a projection (the contract of outbox.Store and  *)
(* outbox.Handler in pkg/outbox): the events of one aggregate reach the     *)
(* handler in global_seq order, each exactly once, and the delivery of one  *)
(* aggregate never waits for another.                                       *)
(***************************************************************************)
EXTENDS Integers

CONSTANTS Aggregates, Subscribed, Seqs

VARIABLES
    log,        \* committed events of each aggregate
    delivered   \* those whose handler run has committed

vars == <<log, delivered>>

Init ==
    /\ log = [a \in Aggregates |-> {}]
    /\ delivered = [a \in Aggregates |-> {}]

(* A command commits an event; its sequence number is the aggregate's       *)
(* largest so far.                                                          *)
Commit(a, s) ==
    /\ \A q \in log[a] : q < s
    /\ log' = [log EXCEPT ![a] = @ \cup {s}]
    /\ UNCHANGED delivered

(* The earliest undelivered event of the aggregate is applied. *)
Deliver(a, s) ==
    /\ s \in log[a] \ delivered[a]
    /\ \A q \in log[a] : q < s => q \in delivered[a]
    /\ delivered' = [delivered EXCEPT ![a] = @ \cup {s}]
    /\ UNCHANGED log

Next ==
    \/ \E a \in Aggregates, s \in Seqs : Commit(a, s)
    \/ \E a \in Subscribed, s \in Seqs : Deliver(a, s)

Spec == Init /\ [][Next]_vars
=============================================================================
