------------------------- MODULE MCScheduledPayments -------------------------
(* Instances of ScheduledPayments for TLC. *)
EXTENDS ScheduledPayments, TLC

CONSTANTS p1, p2, s1, s2

T(start, every, end, auto, lead, paused) ==
    [start |-> start, every |-> every, end |-> end, auto |-> auto,
     lead |-> lead, paused |-> paused]

(* Schedules to edit between: the interval, the reminder, the end, the      *)
(* pause, whether it posts.                                                 *)
Edited == {T(1, 1, 1, FALSE, 0, FALSE), T(1, 2, NoDate, TRUE, 1, FALSE),
           T(1, 1, NoDate, FALSE, 0, TRUE), T(1, 1, NoDate, FALSE, 0, FALSE)}

(* Open-ended payments: one auto-posts, one only notifies. *)
Both   == {T(1, 1, NoDate, b, 0, FALSE) : b \in BOOLEAN}
Rent   == {T(1, 1, NoDate, TRUE, 0, FALSE)}

(* One payment edited at any moment; two payments left alone, of which one   *)
(* may be refused for ever.                                                 *)
EditedWorld == [payments |-> {p1}, templates |-> Edited, edits |-> 1, days |-> 3]
PeerWorld   == [payments |-> {p1, p2}, templates |-> Both, edits |-> 0, days |-> 2]
RentWorld   == [payments |-> {p1}, templates |-> Rent, edits |-> 0, days |-> 2]

MCWorlds == {EditedWorld, PeerWorld}
Lonely   == {RentWorld}
=============================================================================
