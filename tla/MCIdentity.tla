------------------------------ MODULE MCIdentity ------------------------------
(***************************************************************************)
(* Small workloads for Identity: who has an account at the start, and which *)
(* requests arrive.  Each workload brings together the operations that get  *)
(* in each other's way.                                                     *)
(***************************************************************************)
EXTENDS Identity, TLC

Root   == User("a", 1, "super_admin")
Member == User("b", 1, "member")
Team   == <<Root, Member>>

None == [op \in Ops |-> 0]
Load(start, counts) == [users |-> start, arriving |-> counts]

MCWorkloads == {
    Load(<<>>, [None EXCEPT !.bootstrap = 2, !.profile = 1]),
    Load(<<Root>>, [None EXCEPT !.invite = 1, !.join = 2, !.profile = 1]),
    Load(Team, [None EXCEPT !.manage = 1, !.profile = 1, !.preferences = 1]),
    Load(<<Root>>, [None EXCEPT !.preferences = 1, !.password = 1, !.me = 1]),
    Load(Team, [None EXCEPT !.manage = 1, !.remove = 1, !.image = 1]),
    Load(<<Root>>, [None EXCEPT !.login = 1, !.refresh = 2, !.password = 1]),
    Load(<<Root>>, [None EXCEPT !.login = 1, !.logout = 1, !.refresh = 1]),
    Load(<<Root>>, [None EXCEPT !.forgot = 2, !.reset = 2]),
    Load(<<Root>>, [None EXCEPT !.image = 3])}

Symmetry == Permutations(Replicas) \cup Permutations(Requests)

=============================================================================
