------------------------------ MODULE MCSharing ------------------------------
(* Small workloads for Sharing: who shares what at the start, and which     *)
(* requests arrive.                                                         *)
EXTENDS Sharing, TLC

CONSTANTS r1, r2, q1, q2, ann, ben, g1, food, own, trip, work, x1, b1

MCReplicas   == {r1, r2}
MCRequests   == {q1, q2}
MCAdmins     == {ben}
MCSupers     == {ann}
MCGroups     == {g1}
MCCategories == {food, own}
MCTags       == {trip, work}
MCExpenses   == {x1}
MCBudgets    == {b1}

MCUsers      == {ann, ben}
MCLabelOwner == (food :> Default) @@ (own :> ann) @@ (trip :> ann) @@ (work :> ben)
MCOwnerOf    == (x1 :> ann) @@ (b1 :> ben)

NoRequests == [op \in Ops |-> 0]
Shared(ls) == [found |-> TRUE, deleted |-> FALSE, labels |-> ls, group |-> g1]
Alone(ls)  == [Shared(ls) EXCEPT !.group = None]
Family     == g1 :> [owner |-> ann, name |-> 0, members |-> {ben}]

Load(gs, ls, rows, time, used, counts) ==
    [groups |-> gs, labels |-> ls, items |-> rows, now |-> time, faults |-> used,
     arriving |-> counts]

Revoking  == Load(Family, {food}, x1 :> Shared({food}), 0, MaxFaults,
                  [NoRequests EXCEPT !.removeMember = 1, !.view = 2])
Granting  == Load(Family, {food}, <<>>, 3, MaxFaults,
                  [NoRequests EXCEPT !.removeMember = 1, !.save = 1, !.view = 1])
Closing   == Load(Family, {food}, b1 :> Shared({food}), MaxTime, 0,
                  [NoRequests EXCEPT !.remove = 1, !.deleteGroup = 1, !.view = 1])
Opening   == Load(<<>>, {food}, <<>>, MaxTime, 0,
                  [NoRequests EXCEPT !.createGroup = 1, !.addMember = 1, !.list = 1,
                                     !.updateGroup = 1])
Deleting  == Load(Family, {food}, <<>>, MaxTime, MaxFaults,
                  [NoRequests EXCEPT !.save = 1, !.deleteGroup = 1, !.view = 1])
Labelling == Load(<<>>, {food, own, trip}, x1 :> Alone({own, trip}), MaxTime, MaxFaults,
                  [NoRequests EXCEPT !.save = 1, !.deleteLabel = 1, !.updateLabel = 1])
Naming    == Load(<<>>, {food, work}, <<>>, MaxTime, MaxFaults,
                  [NoRequests EXCEPT !.createLabel = 1, !.save = 1, !.list = 1])

MCWorkloads == {Revoking, Granting, Closing, Opening, Deleting, Labelling, Naming}

Symmetry == Permutations(Replicas) \cup Permutations(Requests)
=============================================================================
