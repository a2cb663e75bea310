------------------------------ MODULE MCReports ------------------------------
(* Four worlds: every day of four years for the laws of the calendar; two  *)
(* replicas on one day, where one may fail; a run over the year's end; and *)
(* expenses that change while the pages are read.                          *)
EXTENDS Reports, TLC

CONSTANTS r1, r2, o1, o2

MCReplicas == {r1, r2}
MCOwners   == {o1, o2}

Eve == Date(2024, 12, 31)

Bill(id, day) == [owner |-> o1, id |-> id, day |-> day]
Bills == {Bill(1, Date(2024, 11, 30)), Bill(2, Date(2024, 11, 2)), Bill(3, Date(2024, 12, 24))}

Load(day, days, edits, faults, starts) ==
    [today |-> day, blocked |-> {o2}, expenses |-> Bills, days |-> days, edits |-> edits,
     faults |-> faults, starts |-> starts]

Walking  == {Load(d, 0, 0, 0, 0) : d \in Date(2023, 1, 1) .. Date(2026, 12, 31)}
Failing  == {Load(Eve, 0, 0, 1, 2)}
Turning  == {Load(Eve, 1, 0, 0, 1)}
Changing == {Load(Eve, 0, 2, 0, 1)}

Symmetry == Permutations(MCReplicas)

MCWorkloads == Walking \cup Failing \cup Turning \cup Changing
=============================================================================
