---------------------------- MODULE SharingProofs ----------------------------
(***************************************************************************)
(* Proofs about Sharing for every number of replicas, requests, users,      *)
(* groups, labels, expenses, budgets, workloads and faults, and for every   *)
(* cache TTL and request duration.                                          *)
(***************************************************************************)
EXTENDS Sharing, WellFoundedInduction, SequenceTheorems, TLAPS

ListNames == {"groups", "categories", "tags"}

(* What a request can still need, in the order it asks. *)
NeedLists == {<<>>, <<"groups">>, <<"categories">>, <<"tags">>, <<"categories", "tags">>}
Names(s)  == {s[n] : n \in DOMAIN s}

Bodies ==
    [op : Ops, by : Users, group : Groups \cup {None}, user : Users \cup {None},
     label : Labels \cup {None}, item : Items \cup {None}, labels : SUBSET Labels]

BodyOK(c) ==
    /\ c \in Bodies
    /\ c.op \in GroupOps => c.group \in Groups
    /\ c.op \in LabelOps => c.label \in Labels
    /\ c.op = "createLabel" => LabelOwner[c.label] = c.by
    /\ c.op = "addMember" => c.user \in Users
    /\ c.op \in {"save", "remove"} => c.item \in Items /\ c.by = OwnerOf[c.item]

Shaped(j) ==
    j = [op |-> j.op, body |-> j.body, rep |-> j.rep, began |-> j.began, needs |-> j.needs,
         pc |-> j.pc, value |-> j.value, raced |-> j.raced, seen |-> j.seen]

(* What the list of a user may hold. *)
Allowed(key) ==
    CASE key[1] = "groups"     -> Groups
      [] key[1] = "categories" -> {l \in Categories : LabelOwner[l] \in {key[2], Default}}
      [] key[1] = "tags"       -> {l \in Tags : LabelOwner[l] \in {key[2]}}

(* The labels an expense's owner may name. *)
Private(u) == {l \in Labels : LabelOwner[l] \in {u, Default}}

(* What was not checked yet is still on the list of what is needed. *)
Checked(c, needs, seen) ==
    /\ c.op = "save" /\ c.item \in Expenses =>
          /\ "categories" \in Names(needs) \/ c.labels \cap Categories \subseteq Private(c.by)
          /\ "tags" \in Names(needs) \/ c.labels \cap Tags \subseteq Private(c.by)
    /\ c.op = "save" /\ c.item \in Budgets /\ c.group # None =>
          "groups" \in Names(needs) \/ c.group \in seen

JobOK(j) ==
    /\ Shaped(j)
    /\ BodyOK(j.body) /\ j.op = j.body.op
    /\ j.rep \in Replicas /\ j.began \in Nat /\ j.raced \in BOOLEAN
    /\ j.needs \in NeedLists
    /\ j.pc \in {"list", "fill", "write", "clear", "answer"}
    /\ j.pc \in {"list", "fill"} <=> j.needs # <<>>
    /\ j.pc = "fill" => DOMAIN j.value \subseteq Allowed(<<Head(j.needs), j.body.by>>)
    /\ j.pc = "clear" => j.op \in GroupOps \cup LabelOps
    /\ j.seen \subseteq Groups
    /\ Checked(j.body, j.needs, j.seen)

EntryOK(key, e) ==
    /\ e = [found |-> TRUE, value |-> e.value, expiresAt |-> e.expiresAt]
    /\ e.expiresAt \in Nat
    /\ DOMAIN e.value \subseteq Allowed(key)

TablesOK ==
    /\ now \in Nat
    /\ DOMAIN groups \subseteq Groups /\ groups \in [DOMAIN groups -> GroupRows]
    /\ DOMAIN labels \subseteq Labels /\ labels \in [DOMAIN labels -> {0, 1}]
    /\ items \in [Items -> {NoRow} \cup ItemRows]
    /\ events \in [Expenses -> Seq(SUBSET Labels)]
    /\ delivered \in [Expenses -> Nat]
    /\ rollups \subseteq Labels
    /\ lost \in [Users -> [Groups -> Nat]]

CacheOK ==
    /\ DOMAIN cache = Replicas
    /\ \A r \in Replicas : \A key \in DOMAIN cache[r] : key \in Keys /\ EntryOK(key, cache[r][key])
    /\ excused \in [Replicas -> SUBSET Keys]

RequestsOK ==
    /\ DOMAIN req = Requests
    /\ \A q \in Requests : req[q] = Idle \/ JobOK(req[q])

Typed == TablesOK /\ CacheOK /\ RequestsOK

(* What a row names is there, its owner may name it, and the newest event of *)
(* an expense names no more than its row.                                   *)
Referring ==
    /\ \A i \in Items : items[i].found =>
          items[i].group \in DOMAIN groups \cup {None} /\ items[i].labels \subseteq DOMAIN labels
    /\ rollups \subseteq DOMAIN labels
    /\ \A x \in Expenses : items[x].found => items[x].labels \subseteq Private(OwnerOf[x])
    /\ \A x \in Expenses : events[x] # <<>> =>
          items[x].found /\ events[x][Len(events[x])] \subseteq items[x].labels

ReferenceInv == Typed /\ Referring

(* A list is the stored one, unless it is excused or about to be dropped; so *)
(* is one a request has read and not stored yet, unless a write raced it.    *)
Agreeing ==
    /\ \A r \in Replicas : \A key \in DOMAIN cache[r] :
          key \in excused[r] \cup Pending(r) \/ cache[r][key].value = Query(key)
    /\ \A q \in Requests, key \in Keys :
          At(q, "fill") /\ key = Key(q) /\ ~req[q].raced => req[q].value = Query(key)

CoherenceInv == Typed /\ Agreeing

(* Under groups gs and losses ls, the user sees the group, or lost sight of  *)
(* it no more than age before t.                                            *)
SeenSince(gs, ls, u, g, t, age) == Sees(gs, u, g) \/ ls[u][g] + age >= t

(* A list expires TTL after it was stored, and the request that stored it    *)
(* had read it within MaxLag.                                               *)
EntryRecent(gs, ls, n, key, e) ==
    /\ e.expiresAt <= n + TTL
    /\ key[1] = "groups" => \A g \in DOMAIN e.value :
          SeenSince(gs, ls, key[2], g, e.expiresAt, TTL + MaxLag)

JobRecent(gs, ls, n, j) ==
    /\ j.began <= n /\ n <= j.began + MaxLag
    /\ j.pc = "fill" /\ Head(j.needs) = "groups" =>
          \A g \in DOMAIN j.value : SeenSince(gs, ls, j.body.by, g, j.began, 0)
    /\ \A g \in j.seen : SeenSince(gs, ls, j.body.by, g, j.began, TTL + MaxLag)

Recent ==
    /\ \A u \in Users, g \in Groups : lost[u][g] <= now
    /\ \A r \in Replicas : \A key \in DOMAIN cache[r] :
          EntryRecent(groups, lost, now, key, cache[r][key])
    /\ \A q \in Requests : req[q] # Idle => JobRecent(groups, lost, now, req[q])

AgeInv == Typed /\ Recent /\ RevocationBounded

-----------------------------------------------------------------------------
(* Facts about the operators. *)

(* A bounded set of naturals has a largest member. *)
LEMMA LargestOf ==
    ASSUME NEW B \in Nat, NEW S, S \subseteq Nat, S # {}, \A a \in S : a <= B
    PROVE  Max(S) \in S
  <1> DEFINE T == {B - a : a \in S}
  <1>1. \A a \in S : B - a \in Nat
    OBVIOUS
  <1>2. T \subseteq Nat /\ T # {}
    BY <1>1
  <1>3. PICK x \in T : \A y \in T : ~(<<y, x>> \in OpToRel(<, Nat))
    <2> HIDE DEF T
    <2> QED
      BY <1>2, NatLessThanWellFounded, WFMin
  <1>4. PICK m \in S : x = B - m
    OBVIOUS
  <1>5. ASSUME NEW a \in S PROVE m >= a
    <2>1. B - a \in T /\ B - a \in Nat /\ B - m \in Nat
      BY <1>1
    <2>2. ~(<<B - a, B - m>> \in OpToRel(<, Nat))
      BY <1>3, <1>4, <2>1
    <2>3. ~(B - a < B - m)
      BY <2>1, <2>2 DEF OpToRel
    <2>4. a \in Nat /\ m \in Nat
      OBVIOUS
    <2> HIDE DEF T
    <2> QED
      BY <2>3, <2>4
  <1> QED
    BY <1>5 DEF Max

(* A request asks for its lists from the front. *)
LEMMA NextList ==
    ASSUME NEW s \in NeedLists, s # <<>>
    PROVE  /\ Head(s) \in ListNames
           /\ Tail(s) \in NeedLists
           /\ Names(s) = {Head(s)} \cup Names(Tail(s))
  <1>1. CASE s = <<"groups">>
    <2>1. Head(s) = "groups" /\ Tail(s) = <<>>
      BY <1>1
    <2>2. Names(s) = {"groups"} /\ Names(<<>>) = {}
      BY <1>1 DEF Names
    <2> QED
      BY <2>1, <2>2 DEF NeedLists, ListNames
  <1>2. CASE s = <<"categories">>
    <2>1. Head(s) = "categories" /\ Tail(s) = <<>>
      BY <1>2
    <2>2. Names(s) = {"categories"} /\ Names(<<>>) = {}
      BY <1>2 DEF Names
    <2> QED
      BY <2>1, <2>2 DEF NeedLists, ListNames
  <1>3. CASE s = <<"tags">>
    <2>1. Head(s) = "tags" /\ Tail(s) = <<>>
      BY <1>3
    <2>2. Names(s) = {"tags"} /\ Names(<<>>) = {}
      BY <1>3 DEF Names
    <2> QED
      BY <2>1, <2>2 DEF NeedLists, ListNames
  <1>4. CASE s = <<"categories", "tags">>
    <2>1. Head(s) = "categories" /\ Tail(s) = <<"tags">>
      BY <1>4
    <2>2. Names(s) = {"categories", "tags"} /\ Names(<<"tags">>) = {"tags"}
      BY <1>4 DEF Names
    <2> QED
      BY <2>1, <2>2 DEF NeedLists, ListNames
  <1> QED
    BY <1>1, <1>2, <1>3, <1>4 DEF NeedLists

(* A query answers with what its user may see. *)
LEMMA QueryAllowed ==
    ASSUME NEW key \in Keys, TablesOK
    PROVE  DOMAIN Query(key) \subseteq Allowed(key)
  <1>0. key[1] \in ListNames
    BY DEF Keys, ListNames
  <1>1. CASE key[1] = "groups"
    BY <1>1 DEF Query, Allowed, ListVisibleGroups, TablesOK
  <1>2. CASE key[1] = "categories"
    BY <1>2 DEF Query, Allowed, ListCategories, Owned
  <1>3. CASE key[1] = "tags"
    BY <1>3 DEF Query, Allowed, ListTags, Owned
  <1> QED
    BY <1>0, <1>1, <1>2, <1>3 DEF ListNames

(* An idle request is none at work. *)
LEMMA IdleOrBusy ==
    ASSUME NEW q \in Requests, RequestsOK
    PROVE  /\ Idle.op = "idle"
           /\ req[q] = Idle <=> req[q].op = "idle"
           /\ req[q].op # "idle" => JobOK(req[q])
           /\ \A j : JobOK(j) => j.op \in Ops /\ j.op # "idle"
  <1>1. Idle.op = "idle"
    BY DEF Idle
  <1>2. \A j : JobOK(j) => j.op \in Ops
    BY DEF JobOK, BodyOK, Bodies
  <1>3. "idle" \notin Ops
    BY DEF Ops, GroupOps, LabelOps
  <1> QED
    BY <1>1, <1>2, <1>3 DEF RequestsOK

-----------------------------------------------------------------------------
(* Requests that arrive. *)

Others(q) == DOMAIN req' = Requests /\ \A p \in Requests \ {q} : req'[p] = req[p]

Arrived(q) ==
    /\ req[q] = Idle
    /\ Others(q)
    /\ JobOK(req'[q])
    /\ req'[q].began = now /\ req'[q].seen = {} /\ req'[q].pc \in {"list", "write"}
    /\ UNCHANGED <<now, tables, cache, lost, excused, staleness>>

LEMMA Arrival ==
    ASSUME NEW q \in Requests, NEW r \in Replicas, NEW c, NEW new, NEW needs \in NeedLists,
           Typed, BodyOK(c), Checked(c, needs, {}), Arrive(q, r, c, new, needs)
    PROVE  Arrived(q)
  <1> DEFINE j == [op |-> c.op, body |-> c, rep |-> r, began |-> now, needs |-> needs,
                   pc |-> IF needs # <<>> THEN "list" ELSE "write",
                   value |-> <<>>, raced |-> FALSE, seen |-> {}]
  <1>1. req' = [req EXCEPT ![q] = j] /\ req[q] = Idle
    BY DEF Arrive
  <1>2. PICK k : k = j
    OBVIOUS
  <1>3. /\ k.op = c.op /\ k.body = c /\ k.rep = r /\ k.began = now /\ k.needs = needs
        /\ k.pc = (IF needs # <<>> THEN "list" ELSE "write")
        /\ k.value = <<>> /\ k.raced = FALSE /\ k.seen = {} /\ Shaped(k)
    BY <1>2 DEF Shaped
  <1> HIDE DEF j
  <1>4. req'[q] = k /\ Others(q)
    BY <1>1, <1>2 DEF Others, Typed, RequestsOK
  <1>5. now \in Nat
    BY DEF Typed, TablesOK
  <1>6. k.pc \in {"list", "write"} /\ (k.pc \in {"list", "fill"} <=> k.needs # <<>>)
    BY <1>3
  <1>7. JobOK(k)
    BY <1>3, <1>5, <1>6 DEF JobOK
  <1> QED
    BY <1>1, <1>3, <1>4, <1>6, <1>7 DEF Arrived, Arrive

LEMMA NothingToCheck ==
    ASSUME NEW c, NEW needs, c.op # "save"
    PROVE  Checked(c, needs, {})
  BY DEF Checked

LEMMA GroupArrives ==
    ASSUME NEW q \in Requests, NEW r \in Replicas, NEW u \in Users, NEW g \in Groups, Typed,
           \/ UpdateGroup(q, r, u, g)
           \/ DeleteGroup(q, r, u, g)
           \/ \E m \in Users : AddMember(q, r, u, g, m) \/ RemoveMember(q, r, u, g, m)
           \/ \E m \in Users \cup {None} : CreateGroup(q, r, u, g, m)
    PROVE  Arrived(q)
  <1>0. <<>> \in NeedLists
    BY DEF NeedLists
  <1>1. ASSUME NEW op \in {"updateGroup", "deleteGroup"},
               Arrive(q, r, [Body(op, u) EXCEPT !.group = g], {}, <<>>)
        PROVE  Arrived(q)
    <2>1. PICK c : c = [Body(op, u) EXCEPT !.group = g]
      OBVIOUS
    <2>2. op \in Ops /\ op \in GroupOps /\ op # "save"
      BY DEF Ops, GroupOps
    <2>3. c \in Bodies /\ c.op = op /\ c.group = g
      BY <2>1, <2>2 DEF Body, Bodies
    <2>4. BodyOK(c)
      BY <2>3 DEF BodyOK, LabelOps
    <2> QED
      BY <1>0, <1>1, <2>1, <2>2, <2>3, <2>4, Arrival, NothingToCheck
  <1>2. ASSUME NEW op \in {"addMember", "removeMember", "createGroup"},
               NEW new, NEW m \in Users \cup {None}, op = "addMember" => m \in Users,
               Arrive(q, r, [Body(op, u) EXCEPT !.group = g, !.user = m], new, <<>>)
        PROVE  Arrived(q)
    <2>1. PICK c : c = [Body(op, u) EXCEPT !.group = g, !.user = m]
      OBVIOUS
    <2>2. op \in Ops /\ op \in GroupOps /\ op # "save"
      BY DEF Ops, GroupOps
    <2>3. c \in Bodies /\ c.op = op /\ c.group = g /\ c.user = m
      BY <2>1, <2>2 DEF Body, Bodies
    <2>4. BodyOK(c)
      BY <1>2, <2>3 DEF BodyOK, LabelOps
    <2> QED
      BY <1>0, <1>2, <2>1, <2>2, <2>3, <2>4, Arrival, NothingToCheck
  <1>3. CASE UpdateGroup(q, r, u, g)
    BY <1>1, <1>3 DEF UpdateGroup
  <1>4. CASE DeleteGroup(q, r, u, g)
    BY <1>1, <1>4 DEF DeleteGroup
  <1>5. ASSUME NEW m \in Users, AddMember(q, r, u, g, m) PROVE Arrived(q)
    BY <1>2, <1>5 DEF AddMember
  <1>6. ASSUME NEW m \in Users, RemoveMember(q, r, u, g, m) PROVE Arrived(q)
    BY <1>2, <1>6 DEF RemoveMember
  <1>7. ASSUME NEW m \in Users \cup {None}, CreateGroup(q, r, u, g, m) PROVE Arrived(q)
    BY <1>2, <1>7 DEF CreateGroup
  <1> QED
    BY <1>3, <1>4, <1>5, <1>6, <1>7

LEMMA LabelArrives ==
    ASSUME NEW q \in Requests, NEW r \in Replicas, NEW l \in Labels, Typed,
           \/ CreateCategory(q, r, l) \/ CreateTag(q, r, l)
           \/ \E u \in Users : \/ UpdateCategory(q, r, u, l) \/ UpdateTag(q, r, u, l)
                              \/ DeleteCategory(q, r, u, l) \/ DeleteTag(q, r, u, l)
    PROVE  Arrived(q)
  <1>0. <<>> \in NeedLists
    BY DEF NeedLists
  <1>1. ASSUME NEW op \in LabelOps, NEW u \in Users, NEW new,
               op = "createLabel" => LabelOwner[l] = u,
               Arrive(q, r, [Body(op, u) EXCEPT !.label = l], new, <<>>)
        PROVE  Arrived(q)
    <2>1. PICK c : c = [Body(op, u) EXCEPT !.label = l]
      OBVIOUS
    <2>2. op \in Ops /\ op \notin GroupOps /\ op \notin {"save", "remove", "addMember"}
      BY DEF Ops, GroupOps, LabelOps
    <2>3. c \in Bodies /\ c.op = op /\ c.by = u /\ c.label = l
      BY <2>1, <2>2 DEF Body, Bodies
    <2>4. BodyOK(c)
      BY <1>1, <2>2, <2>3 DEF BodyOK
    <2> QED
      BY <1>0, <1>1, <2>1, <2>2, <2>3, <2>4, Arrival, NothingToCheck
  <1>2. {"createLabel", "updateLabel", "deleteLabel"} \subseteq LabelOps
    BY DEF LabelOps
  <1>3. CASE CreateLabel(q, r, l)
    <2>1. LabelOwner[l] \in Users
      BY <1>3, SharingAssumption DEF CreateLabel, Labels
    <2> QED
      BY <1>1, <1>2, <1>3, <2>1 DEF CreateLabel
  <1>4. ASSUME NEW u \in Users, UpdateLabel(q, r, u, l) \/ DeleteLabel(q, r, u, l) PROVE Arrived(q)
    BY <1>1, <1>2, <1>4 DEF UpdateLabel, DeleteLabel
  <1> QED
    BY <1>3, <1>4 DEF CreateCategory, CreateTag, UpdateCategory, UpdateTag, DeleteCategory, DeleteTag

LEMMA ReadArrives ==
    ASSUME NEW q \in Requests, NEW r \in Replicas, NEW u \in Users, Typed,
           View(q, r, u) \/ \E list \in ListNames : List(q, r, u, list)
    PROVE  Arrived(q)
  <1>1. ASSUME NEW op \in {"list", "view"}, NEW list \in ListNames,
               Arrive(q, r, Body(op, u), {}, <<list>>)
        PROVE  Arrived(q)
    <2>1. PICK c : c = Body(op, u)
      OBVIOUS
    <2>2. op \in Ops /\ op \notin GroupOps /\ op \notin LabelOps
          /\ op \notin {"save", "remove", "addMember", "createLabel"}
      BY DEF Ops, GroupOps, LabelOps
    <2>3. c \in Bodies /\ c.op = op
      BY <2>1, <2>2 DEF Body, Bodies
    <2>4. BodyOK(c)
      BY <2>2, <2>3 DEF BodyOK
    <2>5. <<list>> \in NeedLists
      BY DEF NeedLists, ListNames
    <2> QED
      BY <1>1, <2>1, <2>2, <2>3, <2>4, <2>5, Arrival, NothingToCheck
  <1>2. "groups" \in ListNames
    BY DEF ListNames
  <1> QED
    BY <1>1, <1>2 DEF View, List

LEMMA ItemArrives ==
    ASSUME NEW q \in Requests, NEW r \in Replicas, Typed,
           \/ \E x \in Expenses, ls \in SUBSET Labels, g \in Groups \cup {None} :
                 SaveExpense(q, r, x, ls, g)
           \/ \E b \in Budgets, l \in Categories, g \in Groups \cup {None} : SaveBudget(q, r, b, l, g)
           \/ \E i \in Items : Remove(q, r, i)
    PROVE  Arrived(q)
  <1>1. /\ "save" \in Ops /\ "remove" \in Ops
        /\ {"save", "remove"} \cap (GroupOps \cup LabelOps) = {}
    BY DEF Ops, GroupOps, LabelOps
  <1>2. ASSUME NEW i \in Items, NEW ls \in SUBSET Labels, NEW g \in Groups \cup {None},
               NEW needs \in NeedLists,
               i \in Expenses => /\ "categories" \in Names(needs) \/ ls \cap Categories = {}
                                 /\ "tags" \in Names(needs) \/ ls \cap Tags = {},
               i \in Budgets /\ g # None => "groups" \in Names(needs),
               Arrive(q, r, [Body("save", OwnerOf[i]) EXCEPT !.item = i, !.labels = ls, !.group = g],
                      {i}, needs)
        PROVE  Arrived(q)
    <2>1. PICK c : c = [Body("save", OwnerOf[i]) EXCEPT !.item = i, !.labels = ls, !.group = g]
      OBVIOUS
    <2>2. OwnerOf[i] \in Users
      BY SharingAssumption DEF Items
    <2>3. /\ c \in Bodies /\ c.op = "save" /\ c.by = OwnerOf[i] /\ c.item = i
          /\ c.labels = ls /\ c.group = g
      BY <1>1, <2>1, <2>2 DEF Body, Bodies
    <2>4. BodyOK(c)
      BY <1>1, <2>3 DEF BodyOK
    <2>5. Checked(c, needs, {})
      BY <1>2, <2>3 DEF Checked
    <2> QED
      BY <1>2, <2>1, <2>4, <2>5, Arrival
  <1>3. ASSUME NEW x \in Expenses, NEW ls \in SUBSET Labels, NEW g \in Groups \cup {None},
               SaveExpense(q, r, x, ls, g)
        PROVE  Arrived(q)
    <2> DEFINE cs == IF ls \cap Categories # {} THEN <<"categories">> ELSE <<>>
               ts == IF ls \cap Tags # {} THEN <<"tags">> ELSE <<>>
    <2>1. /\ Names(<<>>) = {} /\ Names(<<"categories">>) = {"categories"}
          /\ Names(<<"tags">>) = {"tags"} /\ Names(<<"categories", "tags">>) = {"categories", "tags"}
      BY DEF Names
    <2>0. /\ <<"categories">> \o <<"tags">> = <<"categories", "tags">>
          /\ <<"categories">> \o <<>> = <<"categories">>
          /\ <<>> \o <<"tags">> = <<"tags">>
      <3>1. /\ <<"categories">> \in Seq(ListNames) /\ <<"tags">> \in Seq(ListNames)
            /\ "tags" \in ListNames
        BY DEF ListNames
      <3>2. PICK s \in Seq(ListNames) : s = <<"categories">> \o <<"tags">>
        BY <3>1, ConcatProperties
      <3>3. s = <<"categories", "tags">>
        <4>1. Len(s) = 2 /\ s[1] = "categories" /\ s[2] = "tags"
          <5>1. /\ Len(s) = Len(<<"categories">>) + Len(<<"tags">>)
                /\ \A i \in 1 .. Len(<<"categories">>) + Len(<<"tags">>) :
                      s[i] = IF i <= Len(<<"categories">>) THEN <<"categories">>[i]
                             ELSE <<"tags">>[i - Len(<<"categories">>)]
            BY <3>1, <3>2, ConcatProperties
          <5>2. Len(<<"categories">>) = 1 /\ Len(<<"tags">>) = 1
            OBVIOUS
          <5>3. s[1] = <<"categories">>[1] /\ s[2] = <<"tags">>[1] /\ Len(s) = 2
            BY <5>1, <5>2
          <5> QED
            BY <5>3
        <4>2. s \in [1 .. 2 -> ListNames]
          BY <4>1, LenProperties
        <4> QED
          BY <4>1, <4>2
      <3>4. <<"categories">> \o <<>> = <<"categories">> /\ <<>> \o <<"tags">> = <<"tags">>
        BY <3>1, ConcatEmptySeq
      <3> QED
        BY <3>2, <3>3, <3>4
    <2>2. /\ cs \o ts \in NeedLists
          /\ "categories" \in Names(cs \o ts) \/ ls \cap Categories = {}
          /\ "tags" \in Names(cs \o ts) \/ ls \cap Tags = {}
      <3>1. CASE ls \cap Categories # {} /\ ls \cap Tags # {}
        <4>1. cs \o ts = <<"categories", "tags">>
          BY <2>0, <3>1
        <4> QED
          BY <2>1, <4>1 DEF NeedLists
      <3>2. CASE ls \cap Categories # {} /\ ls \cap Tags = {}
        <4>1. cs \o ts = <<"categories">>
          BY <2>0, <3>2
        <4> QED
          BY <2>1, <3>2, <4>1 DEF NeedLists
      <3>3. CASE ls \cap Categories = {} /\ ls \cap Tags # {}
        <4>1. cs \o ts = <<"tags">>
          BY <2>0, <3>3
        <4> QED
          BY <2>1, <3>3, <4>1 DEF NeedLists
      <3>4. CASE ls \cap Categories = {} /\ ls \cap Tags = {}
        <4>1. cs \o ts = <<>>
          BY <3>4
        <4> QED
          BY <3>4, <4>1 DEF NeedLists
      <3> QED
        BY <3>1, <3>2, <3>3, <3>4
    <2>3. Arrive(q, r, [Body("save", OwnerOf[x]) EXCEPT !.item = x, !.labels = ls, !.group = g],
                 {x}, cs \o ts)
      BY <1>3 DEF SaveExpense
    <2>4. x \in Items /\ x \notin Budgets
      BY SharingAssumption DEF Items
    <2> HIDE DEF cs, ts
    <2> QED
      BY <1>2, <2>2, <2>3, <2>4
  <1>4. ASSUME NEW b \in Budgets, NEW l \in Categories, NEW g \in Groups \cup {None},
               SaveBudget(q, r, b, l, g)
        PROVE  Arrived(q)
    <2>1. b \in Items /\ b \notin Expenses /\ {l} \in SUBSET Labels
      BY SharingAssumption DEF Items, Labels
    <2>2. Names(<<"groups">>) = {"groups"}
      BY DEF Names
    <2>3. PICK needs : needs = IF g # None THEN <<"groups">> ELSE <<>>
      OBVIOUS
    <2>4. needs \in NeedLists /\ (g # None => "groups" \in Names(needs))
      BY <2>2, <2>3 DEF NeedLists
    <2>5. Arrive(q, r, [Body("save", OwnerOf[b]) EXCEPT !.item = b, !.labels = {l}, !.group = g],
                 {b}, needs)
      BY <1>4, <2>3 DEF SaveBudget
    <2> QED
      BY <1>2, <2>1, <2>4, <2>5
  <1>5. ASSUME NEW i \in Items, Remove(q, r, i) PROVE Arrived(q)
    <2>1. PICK c : c = [Body("remove", OwnerOf[i]) EXCEPT !.item = i]
      OBVIOUS
    <2>2. OwnerOf[i] \in Users
      BY SharingAssumption DEF Items
    <2>3. c \in Bodies /\ c.op = "remove" /\ c.by = OwnerOf[i] /\ c.item = i
      BY <1>1, <2>1, <2>2 DEF Body, Bodies
    <2>4. BodyOK(c)
      BY <1>1, <2>3 DEF BodyOK
    <2>5. <<>> \in NeedLists
      BY DEF NeedLists
    <2> QED
      BY <1>5, <2>1, <2>3, <2>4, <2>5, Arrival, NothingToCheck DEF Remove
  <1> QED
    BY <1>3, <1>4, <1>5

LEMMA RequestArrives ==
    ASSUME NEW q \in Requests, NEW r \in Replicas, Typed, Requested(q, r)
    PROVE  Arrived(q)
  BY GroupArrives, LabelArrives, ReadArrives, ItemArrives DEF Requested, ListNames

-----------------------------------------------------------------------------
(* Lists. *)

LEMMA AllowedIs ==
    ASSUME NEW u
    PROVE  /\ Allowed(<<"groups", u>>) = Groups
           /\ Allowed(<<"categories", u>>) = {l \in Categories : LabelOwner[l] \in {u, Default}}
           /\ Allowed(<<"tags", u>>) = {l \in Tags : LabelOwner[l] \in {u}}
           /\ Allowed(<<"categories", u>>) \cup Allowed(<<"tags", u>>) \subseteq Private(u)
  <1>1. Allowed(<<"groups", u>>) = Groups
    <2> DEFINE key == <<"groups", u>>
    <2>1. key[1] = "groups"
      OBVIOUS
    <2> HIDE DEF key
    <2>2. Allowed(key) = Groups
      BY <2>1 DEF Allowed
    <2> QED
      BY <2>2 DEF key
  <1>2. Allowed(<<"categories", u>>) = {l \in Categories : LabelOwner[l] \in {u, Default}}
    <2> DEFINE key == <<"categories", u>>
    <2>1. key[1] = "categories" /\ key[2] = u
      OBVIOUS
    <2> HIDE DEF key
    <2>2. Allowed(key) = {l \in Categories : LabelOwner[l] \in {key[2], Default}}
      BY <2>1 DEF Allowed
    <2> QED
      BY <2>1, <2>2 DEF key
  <1>3. Allowed(<<"tags", u>>) = {l \in Tags : LabelOwner[l] \in {u}}
    <2> DEFINE key == <<"tags", u>>
    <2>1. key[1] = "tags" /\ key[2] = u
      OBVIOUS
    <2> HIDE DEF key
    <2>2. Allowed(key) = {l \in Tags : LabelOwner[l] \in {key[2]}}
      BY <2>1 DEF Allowed
    <2> QED
      BY <2>1, <2>2 DEF key
  <1> QED
    BY <1>1, <1>2, <1>3 DEF Private, Labels

(* What becomes of a request that has got a list. *)
GoesOn(j, value, k) ==
    k = Idle \/ (/\ JobOK(k)
                 /\ k.body = j.body /\ k.rep = j.rep /\ k.began = j.began
                 /\ k.pc \in {"list", "write", "answer"}
                 /\ k.seen = IF Head(j.needs) = "groups" THEN DOMAIN value ELSE j.seen)

LEMMA Listing ==
    ASSUME NEW q \in Requests, NEW value, Typed, JobOK(req[q]), req[q].needs # <<>>,
           DOMAIN value \subseteq Allowed(Key(q))
    PROVE  GoesOn(req[q], value, Listed(q, value))
  <1> DEFINE j == req[q]
             c == req[q].body
             h == Head(j.needs)
             t == Tail(j.needs)
  <1> SUFFICES ASSUME Listed(q, value) # Idle
               PROVE  GoesOn(req[q], value, Listed(q, value))
    BY DEF GoesOn
  <1>1. PICK k : k = Listed(q, value)
    OBVIOUS
  <1>2. /\ validateOwnership(c, h, DOMAIN value) /\ validateSharedGroup(c, h, DOMAIN value)
        /\ k = [j EXCEPT !.needs = t, !.value = <<>>, !.raced = FALSE,
                  !.seen = IF h = "groups" THEN DOMAIN value ELSE j.seen,
                  !.pc = IF t # <<>> THEN "list" ELSE IF j.op = "view" THEN "answer" ELSE "write"]
    BY <1>1 DEF Listed
  <1>3. Shaped(j) /\ j.needs \in NeedLists /\ j.seen \subseteq Groups
    BY DEF JobOK
  <1>4. /\ k.op = j.op /\ k.body = c /\ k.rep = j.rep /\ k.began = j.began /\ k.needs = t
        /\ k.pc = (IF t # <<>> THEN "list" ELSE IF j.op = "view" THEN "answer" ELSE "write")
        /\ k.value = <<>> /\ k.raced = FALSE
        /\ k.seen = (IF h = "groups" THEN DOMAIN value ELSE j.seen)
        /\ Shaped(k)
    BY <1>2, <1>3 DEF Shaped
  <1>5. h \in ListNames /\ t \in NeedLists /\ Names(j.needs) = {h} \cup Names(t)
    BY <1>3, NextList
  <1>6. /\ h = "groups" => DOMAIN value \subseteq Groups
        /\ h \in {"categories", "tags"} => DOMAIN value \subseteq Private(c.by)
    BY AllowedIs DEF Key
  <1>7. k.pc \in {"list", "write", "answer"} /\ (k.pc \in {"list", "fill"} <=> t # <<>>)
    BY <1>4
  <1>8. Checked(c, j.needs, j.seen)
    BY DEF JobOK
  <1>9. Checked(c, t, k.seen)
    <2>1. ASSUME c.op = "save", c.item \in Expenses
          PROVE  /\ "categories" \in Names(t) \/ c.labels \cap Categories \subseteq Private(c.by)
                 /\ "tags" \in Names(t) \/ c.labels \cap Tags \subseteq Private(c.by)
      <3>1. /\ "categories" \in Names(j.needs) \/ c.labels \cap Categories \subseteq Private(c.by)
            /\ "tags" \in Names(j.needs) \/ c.labels \cap Tags \subseteq Private(c.by)
        BY <1>8, <2>1 DEF Checked
      <3>2. /\ h = "categories" => c.labels \cap Categories \subseteq DOMAIN value
            /\ h = "tags" => c.labels \cap Tags \subseteq DOMAIN value
        BY <1>2 DEF validateOwnership
      <3> HIDE DEF j, c, h, t
      <3> QED
        BY <1>5, <1>6, <3>1, <3>2
    <2>2. ASSUME c.op = "save", c.item \in Budgets, c.group # None
          PROVE  "groups" \in Names(t) \/ c.group \in k.seen
      <3>1. "groups" \in Names(j.needs) \/ c.group \in j.seen
        BY <1>8, <2>2 DEF Checked
      <3>2. h = "groups" => c.group \in DOMAIN value
        BY <1>2, <2>2 DEF validateSharedGroup
      <3>3. k.seen = IF h = "groups" THEN DOMAIN value ELSE j.seen
        BY <1>4
      <3> HIDE DEF j, c, h, t
      <3> QED
        BY <1>5, <3>1, <3>2, <3>3
    <2> HIDE DEF j, c, h, t
    <2> QED
      BY <2>1, <2>2 DEF Checked
  <1>10. k.seen \subseteq Groups
    BY <1>3, <1>4, <1>6
  <1>11. JobOK(k)
    <2>1. BodyOK(c) /\ j.op = c.op /\ j.rep \in Replicas /\ j.began \in Nat
      BY DEF JobOK
    <2> HIDE DEF j, c, h, t
    <2> QED
      BY <1>4, <1>5, <1>7, <1>9, <1>10, <2>1 DEF JobOK
  <1> QED
    BY <1>1, <1>4, <1>7, <1>11 DEF GoesOn

LEMMA KeyOf ==
    ASSUME NEW q \in Requests, JobOK(req[q]), req[q].needs # <<>>
    PROVE  /\ Key(q) \in Keys /\ Key(q) = <<Head(req[q].needs), req[q].body.by>>
           /\ Key(q)[1] = Head(req[q].needs) /\ Key(q)[2] = req[q].body.by
  <1>1. Head(req[q].needs) \in ListNames
    BY NextList DEF JobOK
  <1>2. req[q].body.by \in Users
    BY DEF JobOK, BodyOK, Bodies
  <1> QED
    BY <1>1, <1>2 DEF Key, Keys, ListNames

(* The steps that get a list, as far as the proofs look at them. *)
HitStep(q) ==
    LET j == req[q] IN
    /\ JobOK(j) /\ j.pc = "list" /\ j.needs # <<>>
    /\ Key(q) \in DOMAIN cache[j.rep] /\ now <= cache[j.rep][Key(q)].expiresAt
    /\ Others(q) /\ GoesOn(j, cache[j.rep][Key(q)].value, req'[q])
    /\ UNCHANGED <<now, tables, cache, lost, excused, staleness>>

MissStep(q) ==
    LET j == req[q]
        k == req'[q]
    IN /\ JobOK(j) /\ j.pc = "list" /\ j.needs # <<>>
       /\ Others(q) /\ JobOK(k)
       /\ k.body = j.body /\ k.rep = j.rep /\ k.began = j.began /\ k.seen = j.seen
       /\ k.needs = j.needs /\ k.pc = "fill" /\ k.value = Query(Key(q))
       /\ UNCHANGED <<now, tables, cache, lost, excused, staleness>>

FillStep(q) ==
    LET j == req[q]
        r == req[q].rep
        e == cache'[r][Key(q)]
    IN /\ JobOK(j) /\ j.pc = "fill" /\ j.needs # <<>>
       /\ Others(q) /\ GoesOn(j, j.value, req'[q])
       /\ DOMAIN cache' = Replicas
       /\ \A s \in Replicas \ {r} : cache'[s] = cache[s] /\ excused'[s] = excused[s]
       /\ DOMAIN cache'[r] = DOMAIN cache[r] \cup {Key(q)}
       /\ EntryOK(Key(q), e) /\ e.value = j.value /\ e.expiresAt = now + TTL
       /\ \A k \in DOMAIN cache[r] : k # Key(q) => cache'[r][k] = cache[r][k]
       /\ excused' \in [Replicas -> SUBSET Keys]
       /\ \A k \in Keys : k # Key(q) => (k \in excused'[r] <=> k \in excused[r])
       /\ j.raced => Key(q) \in excused'[r]
       /\ UNCHANGED <<now, tables, lost, staleness>>

LEMMA HitIs ==
    ASSUME NEW q \in Requests, Typed, Hit(q)
    PROVE  HitStep(q)
  <1>1. JobOK(req[q]) /\ req[q].pc = "list"
    BY IdleOrBusy DEF Hit, At, Typed
  <1>2. req[q].needs # <<>> /\ req[q].rep \in Replicas
    BY <1>1 DEF JobOK
  <1>3. PICK r : r = req[q].rep
    OBVIOUS
  <1>4. PICK key : key = Key(q)
    OBVIOUS
  <1>5. Get(r, key).found
    BY <1>3, <1>4 DEF Hit
  <1>6. ~NoRow.found
    BY DEF NoRow
  <1>7. key \in DOMAIN cache[r] /\ now <= cache[r][key].expiresAt /\ Get(r, key) = cache[r][key]
    BY <1>5, <1>6 DEF Get
  <1>8. DOMAIN cache[r][key].value \subseteq Allowed(key)
    BY <1>2, <1>3, <1>7 DEF Typed, CacheOK, EntryOK
  <1>9. GoesOn(req[q], cache[r][key].value, Listed(q, cache[r][key].value))
    BY <1>1, <1>2, <1>4, <1>8, Listing
  <1>10. req' = [req EXCEPT ![q] = Listed(q, cache[r][key].value)]
    BY <1>3, <1>4, <1>7 DEF Hit
  <1>11. req'[q] = Listed(q, cache[r][key].value) /\ Others(q)
    BY <1>10 DEF Others, Typed, RequestsOK
  <1> QED
    BY <1>1, <1>2, <1>3, <1>4, <1>7, <1>9, <1>11 DEF HitStep, Hit

LEMMA MissIs ==
    ASSUME NEW q \in Requests, Typed, Miss(q)
    PROVE  MissStep(q)
  <1>1. JobOK(req[q]) /\ req[q].pc = "list"
    BY IdleOrBusy DEF Miss, At, Typed
  <1>2. req[q].needs # <<>> /\ Shaped(req[q])
    BY <1>1 DEF JobOK
  <1>3. PICK v : v = Query(Key(q))
    OBVIOUS
  <1>4. PICK j : j = req[q]
    OBVIOUS
  <1>5. PICK k : k = [j EXCEPT !.pc = "fill", !.value = v, !.raced = FALSE]
    OBVIOUS
  <1>6. /\ k.op = j.op /\ k.body = j.body /\ k.rep = j.rep /\ k.began = j.began
        /\ k.needs = j.needs /\ k.seen = j.seen
        /\ k.pc = "fill" /\ k.value = v /\ k.raced = FALSE /\ Shaped(k)
    BY <1>2, <1>4, <1>5 DEF Shaped
  <1>7. req' = [req EXCEPT ![q].pc = "fill", ![q].value = v, ![q].raced = FALSE]
    BY <1>3 DEF Miss
  <1>8. req'[q] = k /\ Others(q)
    BY <1>4, <1>5, <1>7 DEF Others, Typed, RequestsOK
  <1>9. DOMAIN v \subseteq Allowed(<<Head(j.needs), j.body.by>>)
    BY <1>1, <1>2, <1>3, <1>4, KeyOf, QueryAllowed DEF Typed
  <1>10. JobOK(k)
    BY <1>1, <1>2, <1>4, <1>6, <1>9 DEF JobOK
  <1> QED
    BY <1>1, <1>2, <1>3, <1>4, <1>6, <1>8, <1>10 DEF MissStep, Miss

LEMMA FillIs ==
    ASSUME NEW q \in Requests, Typed, Fill(q)
    PROVE  FillStep(q)
  <1>1. JobOK(req[q]) /\ req[q].pc = "fill"
    BY IdleOrBusy DEF Fill, At, Typed
  <1>2. req[q].needs # <<>> /\ req[q].rep \in Replicas
    BY <1>1 DEF JobOK
  <1>3. PICK r \in Replicas : r = req[q].rep
    BY <1>2
  <1>4. PICK key \in Keys : key = Key(q)
    BY <1>1, <1>2, KeyOf
  <1>5. PICK v : v = req[q].value
    OBVIOUS
  <1>6. DOMAIN v \subseteq Allowed(key)
    BY <1>1, <1>2, <1>4, <1>5, KeyOf DEF JobOK
  <1>7. GoesOn(req[q], v, Listed(q, v))
    BY <1>1, <1>2, <1>4, <1>6, Listing
  <1>8. req'[q] = Listed(q, v) /\ Others(q)
    BY <1>5 DEF Fill, Others, Typed, RequestsOK
  <1>9. PICK e : e = [found |-> TRUE, value |-> v, expiresAt |-> now + TTL]
    OBVIOUS
  <1>10. e.value = v /\ e.expiresAt = now + TTL /\ EntryOK(key, e)
    BY <1>6, <1>9, SharingAssumption DEF EntryOK, Typed, TablesOK
  <1>11. PICK C : C = [k \in DOMAIN cache[r] \cup {key} |-> IF k = key THEN e ELSE cache[r][k]]
    OBVIOUS
  <1>12. cache' = [cache EXCEPT ![r] = C]
    BY <1>3, <1>4, <1>5, <1>9, <1>11 DEF Fill, Set
  <1>13. /\ DOMAIN cache' = Replicas /\ cache'[r] = C
         /\ \A s \in Replicas \ {r} : cache'[s] = cache[s]
    BY <1>12 DEF Typed, CacheOK
  <1>14. /\ DOMAIN C = DOMAIN cache[r] \cup {key} /\ C[key] = e
         /\ \A k \in DOMAIN cache[r] : k # key => C[k] = cache[r][k]
    BY <1>11
  <1>15. PICK x : x = IF req[q].raced THEN excused[r] \cup {key} ELSE excused[r] \ {key}
    OBVIOUS
  <1>16. excused' = [excused EXCEPT ![r] = x] /\ excused \in [Replicas -> SUBSET Keys]
    BY <1>3, <1>4, <1>15 DEF Fill, Typed, CacheOK
  <1>17. x \in SUBSET Keys
    BY <1>15, <1>16
  <1>18. /\ excused' \in [Replicas -> SUBSET Keys] /\ excused'[r] = x
         /\ \A s \in Replicas \ {r} : excused'[s] = excused[s]
    BY <1>16, <1>17
  <1>19. /\ \A k \in Keys : k # key => (k \in x <=> k \in excused[r])
         /\ req[q].raced => key \in x
    BY <1>15
  <1>20. UNCHANGED <<now, tables, lost, staleness>>
    BY DEF Fill
  <1> QED
    BY <1>1, <1>2, <1>3, <1>4, <1>5, <1>7, <1>8, <1>10, <1>13, <1>14, <1>18, <1>19, <1>20
    DEF FillStep

-----------------------------------------------------------------------------
(* Writes. *)

Ended(q) ==
    /\ JobOK(req[q]) /\ req[q].pc \in {"write", "answer"}
    /\ Others(q) /\ req'[q] = Idle
    /\ UNCHANGED <<now, tables, cache, lost, excused, staleness>>

(* A change of groups or of labels takes away nothing that is referred to,   *)
(* and leaves the lists alone that it does not invalidate.                   *)
Changed(q) ==
    LET c == req[q].body IN
    /\ JobOK(req[q]) /\ req[q].pc = "write" /\ req[q].op \in GroupOps \cup LabelOps
    /\ Committed(q, Invalidated(c))
    /\ DOMAIN groups' \subseteq Groups /\ groups' \in [DOMAIN groups' -> GroupRows]
    /\ DOMAIN labels' \subseteq Labels /\ labels' \in [DOMAIN labels' -> {0, 1}]
    /\ \A g \in DOMAIN groups : g \in DOMAIN groups' \/ ~GroupReferenced(g)
    /\ \A l \in DOMAIN labels : l \in DOMAIN labels' \/ ~LabelReferenced(l)
    /\ \A key \in Keys : key \in Invalidated(c) \/ Query(key)' = Query(key)
    /\ UNCHANGED <<now, items, events, delivered, rollups, cache, staleness>>

LEMMA SameAnswer ==
    ASSUME NEW key \in Keys,
           key[1] = "groups" => ListVisibleGroups(key[2])' = ListVisibleGroups(key[2]),
           key[1] = "categories" => ListCategories(key[2])' = ListCategories(key[2]),
           key[1] = "tags" => ListTags(key[2])' = ListTags(key[2])
    PROVE  Query(key)' = Query(key)
  <1>0. key[1] \in {"groups", "categories", "tags"}
    BY DEF Keys
  <1>1. CASE key[1] = "groups"
    BY <1>1 DEF Query
  <1>2. CASE key[1] = "categories"
    BY <1>2 DEF Query
  <1>3. CASE key[1] = "tags"
    BY <1>3 DEF Query
  <1> QED
    BY <1>0, <1>1, <1>2, <1>3

LEMMA GroupChange ==
    ASSUME NEW c, c.op \in GroupOps, UNCHANGED labels, NEW key \in Keys
    PROVE  key \in Invalidated(c) \/ Query(key)' = Query(key)
  <1>1. CASE key[1] = "groups"
    BY <1>1 DEF Invalidated, Keys
  <1>2. CASE key[1] # "groups"
    <2>1. /\ ListCategories(key[2])' = ListCategories(key[2])
          /\ ListTags(key[2])' = ListTags(key[2])
      BY DEF ListCategories, ListTags, Owned
    <2> QED
      BY <1>2, <2>1, SameAnswer
  <1> QED
    BY <1>1, <1>2

LEMMA LabelChange ==
    ASSUME NEW c, c.op \in LabelOps, c.label \in Labels, c.by \in Users, LabelOwner[c.label] = c.by,
           UNCHANGED groups, NEW f, labels' = f,
           \A m : m # c.label => /\ m \in DOMAIN f <=> m \in DOMAIN labels
                                 /\ m \in DOMAIN labels => f[m] = labels[m],
           NEW key \in Keys
    PROVE  key \in Invalidated(c) \/ Query(key)' = Query(key)
  <1> SUFFICES ASSUME key \notin Invalidated(c) PROVE Query(key)' = Query(key)
    OBVIOUS
  <1>1. c.op \notin GroupOps
    BY DEF GroupOps, LabelOps
  <1>2. key # <<ListName(c.label), c.by>>
    BY <1>1 DEF Invalidated
  <1>3. PICK u \in Users : u = key[2]
    BY DEF Keys
  <1>4. c.by # Default
    BY SharingAssumption
  <1>5. ListVisibleGroups(u)' = ListVisibleGroups(u)
    BY DEF ListVisibleGroups
  <1>6. ASSUME key[1] = "categories" PROVE ListCategories(u)' = ListCategories(u)
    <2>1. c.label \in Categories => u # c.by
      BY <1>2, <1>3, <1>6 DEF ListName, Keys
    <2>2. \A m : m \in DOMAIN f \cap Categories /\ LabelOwner[m] \in {u, Default}
                    <=> m \in DOMAIN labels \cap Categories /\ LabelOwner[m] \in {u, Default}
      BY <1>4, <2>1
    <2>3. {m \in DOMAIN f \cap Categories : LabelOwner[m] \in {u, Default}}
             = {m \in DOMAIN labels \cap Categories : LabelOwner[m] \in {u, Default}}
      BY <2>2
    <2>4. \A m \in {n \in DOMAIN labels \cap Categories : LabelOwner[n] \in {u, Default}} : f[m] = labels[m]
      BY <1>4, <2>1
    <2>5. [l \in {m \in DOMAIN f \cap Categories : LabelOwner[m] \in {u, Default}} |-> f[l]]
             = [l \in {m \in DOMAIN labels \cap Categories : LabelOwner[m] \in {u, Default}} |-> labels[l]]
      BY <2>3, <2>4
    <2> QED
      BY <2>5 DEF ListCategories, Owned
  <1>7. ASSUME key[1] = "tags" PROVE ListTags(u)' = ListTags(u)
    <2>1. c.label \in Tags => u # c.by
      BY <1>2, <1>3, <1>7, SharingAssumption DEF ListName, Keys
    <2>2. \A m : m \in DOMAIN f \cap Tags /\ LabelOwner[m] \in {u}
                    <=> m \in DOMAIN labels \cap Tags /\ LabelOwner[m] \in {u}
      BY <2>1
    <2>3. {m \in DOMAIN f \cap Tags : LabelOwner[m] \in {u}}
             = {m \in DOMAIN labels \cap Tags : LabelOwner[m] \in {u}}
      BY <2>2
    <2>4. \A m \in {n \in DOMAIN labels \cap Tags : LabelOwner[n] \in {u}} : f[m] = labels[m]
      BY <2>1
    <2>5. [l \in {m \in DOMAIN f \cap Tags : LabelOwner[m] \in {u}} |-> f[l]]
             = [l \in {m \in DOMAIN labels \cap Tags : LabelOwner[m] \in {u}} |-> labels[l]]
      BY <2>3, <2>4
    <2> QED
      BY <2>5 DEF ListTags, Owned
  <1> QED
    BY <1>3, <1>5, <1>6, <1>7, SameAnswer

(* A request at the statement it came for. *)
LEMMA Writing ==
    ASSUME NEW q \in Requests, Typed, At(q, "write")
    PROVE  /\ JobOK(req[q]) /\ req[q].pc = "write" /\ BodyOK(req[q].body)
           /\ req[q].op = req[q].body.op /\ req[q].body \in Bodies
  BY IdleOrBusy DEF At, Typed, JobOK, BodyOK

LEMMA Refusal ==
    ASSUME NEW q \in Requests, Typed, At(q, "write"), End(q),
           UNCHANGED <<now, tables, cache, lost, excused, staleness>>
    PROVE  Ended(q)
  <1>1. req'[q] = Idle /\ Others(q)
    BY DEF End, Others, Typed, RequestsOK
  <1> QED
    BY <1>1, Writing DEF Ended

GroupWrite(q) ==
    InsertGroup(q) \/ RenameGroup(q) \/ DropGroup(q) \/ InsertMember(q) \/ DropMember(q)

LEMMA GroupWritten ==
    ASSUME NEW q \in Requests, Typed, GroupWrite(q)
    PROVE  Changed(q) \/ Ended(q)
  <1> DEFINE c == req[q].body
             Rest == UNCHANGED <<now, items, events, delivered, rollups, cache, staleness>>
  <1>1. ASSUME NEW gs, groups' = gs, UNCHANGED labels, At(q, "write"), req[q].op \in GroupOps,
               Committed(q, Invalidated(c)), Rest,
               DOMAIN gs \subseteq Groups, gs \in [DOMAIN gs -> GroupRows],
               \A g \in DOMAIN groups : g \in DOMAIN gs \/ ~GroupReferenced(g)
        PROVE  Changed(q)
    <2>1. \A key \in Keys : key \in Invalidated(c) \/ Query(key)' = Query(key)
      BY <1>1, Writing, GroupChange
    <2>2. DOMAIN labels' \subseteq Labels /\ labels' \in [DOMAIN labels' -> {0, 1}]
      BY <1>1 DEF Typed, TablesOK
    <2>3. \A l \in DOMAIN labels : l \in DOMAIN labels'
      BY <1>1
    <2> QED
      BY <1>1, <2>1, <2>2, <2>3, Writing DEF Changed
  <1>2. ASSUME At(q, "write"), End(q), UNCHANGED <<groups, labels, faults, lost, excused>>, Rest
        PROVE  Ended(q)
    BY <1>2, Refusal DEF tables
  <1>3. /\ DOMAIN groups \subseteq Groups /\ groups \in [DOMAIN groups -> GroupRows]
        /\ {"createGroup", "updateGroup", "deleteGroup", "addMember", "removeMember"} \subseteq GroupOps
    BY DEF Typed, TablesOK, GroupOps
  <1>4. ASSUME At(q, "write"), req[q].op \in GroupOps
        PROVE  c.by \in Users /\ c.group \in Groups /\ c.user \in Users \cup {None}
               /\ (req[q].op = "addMember" => c.user \in Users)
    BY <1>4, Writing DEF BodyOK, Bodies
  <1>5. CASE InsertGroup(q)
    <2>1. At(q, "write") /\ req[q].op = "createGroup" /\ Committed(q, Invalidated(c)) /\ Rest
          /\ UNCHANGED labels
      BY <1>5 DEF InsertGroup, Statement
    <2>2. PICK n : n = [owner |-> c.by, name |-> 0, members |-> {c.user} \ {None}]
      OBVIOUS
    <2>3. n \in GroupRows
      BY <1>3, <1>4, <2>1, <2>2 DEF GroupRows
    <2>4. PICK gs : gs = [g \in DOMAIN groups \cup {c.group} |-> IF g = c.group THEN n ELSE groups[g]]
      OBVIOUS
    <2>5. groups' = gs
      BY <1>5, <2>2, <2>4 DEF InsertGroup, Statement
    <2>6. /\ DOMAIN gs = DOMAIN groups \cup {c.group} /\ gs \in [DOMAIN gs -> GroupRows]
          /\ DOMAIN gs \subseteq Groups
      BY <1>3, <1>4, <2>1, <2>3, <2>4
    <2> QED
      BY <1>1, <1>3, <2>1, <2>5, <2>6
  <1>6. CASE RenameGroup(q)
    <2>1. At(q, "write") /\ req[q].op = "updateGroup" /\ Rest
      BY <1>6 DEF RenameGroup, Statement
    <2>2. CASE c.group \in DOMAIN groups
      <3>1. /\ groups' = [groups EXCEPT ![c.group].name = 1 - @] /\ UNCHANGED labels
            /\ Committed(q, Invalidated(c))
        BY <1>6, <2>2 DEF RenameGroup, Statement
      <3>2. PICK n : n = 1 - groups[c.group].name
        OBVIOUS
      <3>3. n \in {0, 1}
        BY <1>3, <2>2, <3>2 DEF GroupRows
      <3>4. PICK gs : gs = [groups EXCEPT ![c.group].name = n]
        OBVIOUS
      <3>5. groups' = gs
        BY <3>1, <3>2, <3>4
      <3>6. DOMAIN gs = DOMAIN groups /\ gs \in [DOMAIN gs -> GroupRows]
        BY <1>3, <2>2, <3>3, <3>4 DEF GroupRows
      <3> QED
        BY <1>1, <1>3, <2>1, <3>1, <3>5, <3>6
    <2>3. CASE c.group \notin DOMAIN groups
      BY <1>2, <1>6, <2>1, <2>3 DEF RenameGroup, Statement
    <2> QED
      BY <2>2, <2>3
  <1>7. CASE DropGroup(q)
    <2>1. At(q, "write") /\ req[q].op = "deleteGroup" /\ Rest
      BY <1>7 DEF DropGroup, Statement
    <2>2. CASE c.group \in DOMAIN groups /\ ~GroupReferenced(c.group)
      <3>1. /\ groups' = [h \in DOMAIN groups \ {c.group} |-> groups[h]] /\ UNCHANGED labels
            /\ Committed(q, Invalidated(c))
        BY <1>7, <2>2 DEF DropGroup, Statement
      <3>2. PICK gs : gs = [h \in DOMAIN groups \ {c.group} |-> groups[h]]
        OBVIOUS
      <3>3. DOMAIN gs = DOMAIN groups \ {c.group} /\ gs \in [DOMAIN gs -> GroupRows]
        BY <1>3, <3>2
      <3>4. \A g \in DOMAIN groups : g \in DOMAIN gs \/ ~GroupReferenced(g)
        BY <2>2, <3>3
      <3> QED
        BY <1>1, <1>3, <2>1, <3>1, <3>2, <3>3, <3>4
    <2>3. CASE ~(c.group \in DOMAIN groups /\ ~GroupReferenced(c.group))
      BY <1>2, <1>7, <2>1, <2>3 DEF DropGroup, Statement
    <2> QED
      BY <2>2, <2>3
  <1>8. CASE InsertMember(q)
    <2>1. At(q, "write") /\ req[q].op = "addMember" /\ Rest
      BY <1>8 DEF InsertMember, Statement
    <2>2. CASE c.group \in DOMAIN groups
      <3>1. /\ groups' = [groups EXCEPT ![c.group].members = @ \cup {c.user}] /\ UNCHANGED labels
            /\ Committed(q, Invalidated(c))
        BY <1>8, <2>2 DEF InsertMember, Statement
      <3>2. PICK n : n = groups[c.group].members \cup {c.user}
        OBVIOUS
      <3>3. n \in SUBSET Users
        BY <1>3, <1>4, <2>1, <2>2, <3>2 DEF GroupRows
      <3>4. PICK gs : gs = [groups EXCEPT ![c.group].members = n]
        OBVIOUS
      <3>5. groups' = gs
        BY <3>1, <3>2, <3>4
      <3>6. DOMAIN gs = DOMAIN groups /\ gs \in [DOMAIN gs -> GroupRows]
        BY <1>3, <2>2, <3>3, <3>4 DEF GroupRows
      <3> QED
        BY <1>1, <1>3, <2>1, <3>1, <3>5, <3>6
    <2>3. CASE c.group \notin DOMAIN groups
      BY <1>2, <1>8, <2>1, <2>3 DEF InsertMember, Statement
    <2> QED
      BY <2>2, <2>3
  <1>9. CASE DropMember(q)
    <2>1. At(q, "write") /\ req[q].op = "removeMember" /\ Committed(q, Invalidated(c)) /\ Rest
          /\ UNCHANGED labels
      BY <1>9 DEF DropMember, Statement
    <2>2. PICK gs : gs = [g \in DOMAIN groups |->
              IF g = c.group THEN [groups[g] EXCEPT !.members = @ \ {c.user}] ELSE groups[g]]
      OBVIOUS
    <2>3. groups' = gs
      BY <1>9, <2>2 DEF DropMember, Statement
    <2>4. \A g \in DOMAIN groups : [groups[g] EXCEPT !.members = @ \ {c.user}] \in GroupRows
      BY <1>3 DEF GroupRows
    <2>5. DOMAIN gs = DOMAIN groups /\ gs \in [DOMAIN gs -> GroupRows]
      BY <1>3, <2>2, <2>4
    <2> QED
      BY <1>1, <1>3, <2>1, <2>3, <2>5
  <1> QED
    BY <1>5, <1>6, <1>7, <1>8, <1>9 DEF GroupWrite

LabelWrite(q) == InsertLabel(q) \/ RenameLabel(q) \/ DropLabel(q)

LEMMA LabelWritten ==
    ASSUME NEW q \in Requests, Typed, LabelWrite(q)
    PROVE  Changed(q) \/ Ended(q)
  <1> DEFINE c == req[q].body
             Rest == UNCHANGED <<now, items, events, delivered, rollups, cache, staleness>>
  <1>1. ASSUME NEW f, labels' = f, UNCHANGED groups, At(q, "write"), req[q].op \in LabelOps,
               Committed(q, Invalidated(c)), Rest, LabelOwner[c.label] = c.by,
               DOMAIN f \subseteq Labels, f \in [DOMAIN f -> {0, 1}],
               \A m : m # c.label => /\ m \in DOMAIN f <=> m \in DOMAIN labels
                                     /\ m \in DOMAIN labels => f[m] = labels[m],
               \A l \in DOMAIN labels : l \in DOMAIN f \/ ~LabelReferenced(l)
        PROVE  Changed(q)
    <2>1. c.op \in LabelOps /\ c.label \in Labels /\ c.by \in Users
      BY <1>1, Writing DEF BodyOK, Bodies
    <2>2. \A key \in Keys : key \in Invalidated(c) \/ Query(key)' = Query(key)
      BY <1>1, <2>1, LabelChange
    <2>3. DOMAIN groups' \subseteq Groups /\ groups' \in [DOMAIN groups' -> GroupRows]
      BY <1>1 DEF Typed, TablesOK
    <2>4. \A g \in DOMAIN groups : g \in DOMAIN groups'
      BY <1>1
    <2> QED
      BY <1>1, <2>2, <2>3, <2>4, Writing DEF Changed
  <1>2. ASSUME At(q, "write"), End(q), UNCHANGED <<groups, labels, faults, lost, excused>>, Rest
        PROVE  Ended(q)
    BY <1>2, Refusal DEF tables
  <1>3. /\ DOMAIN labels \subseteq Labels /\ labels \in [DOMAIN labels -> {0, 1}]
        /\ {"createLabel", "updateLabel", "deleteLabel"} \subseteq LabelOps
    BY DEF Typed, TablesOK, LabelOps
  <1>4. CASE InsertLabel(q)
    <2>1. At(q, "write") /\ req[q].op = "createLabel" /\ Rest
      BY <1>4 DEF InsertLabel, Statement
    <2>2. LabelOwner[c.label] = c.by /\ c.label \in Labels
      BY <1>3, <2>1, Writing DEF BodyOK
    <2>3. CASE c.label \notin DOMAIN labels
      <3>1. /\ labels' = [m \in DOMAIN labels \cup {c.label} |-> IF m = c.label THEN 0 ELSE labels[m]]
            /\ UNCHANGED groups /\ Committed(q, Invalidated(c))
        BY <1>4, <2>3 DEF InsertLabel, Statement
      <3>2. PICK f : f = [m \in DOMAIN labels \cup {c.label} |-> IF m = c.label THEN 0 ELSE labels[m]]
        OBVIOUS
      <3>3. /\ DOMAIN f = DOMAIN labels \cup {c.label} /\ f \in [DOMAIN f -> {0, 1}]
            /\ \A m \in DOMAIN labels : f[m] = IF m = c.label THEN 0 ELSE labels[m]
        BY <1>3, <3>2
      <3> QED
        BY <1>1, <1>3, <2>1, <2>2, <3>1, <3>2, <3>3
    <2>4. CASE c.label \in DOMAIN labels
      BY <1>2, <1>4, <2>1, <2>4 DEF InsertLabel, Statement
    <2> QED
      BY <2>3, <2>4
  <1>5. CASE RenameLabel(q)
    <2>1. At(q, "write") /\ req[q].op = "updateLabel" /\ Rest
      BY <1>5 DEF RenameLabel, Statement
    <2>2. CASE Own(c)
      <3>1. /\ labels' = [labels EXCEPT ![c.label] = 1 - @]
            /\ UNCHANGED groups /\ Committed(q, Invalidated(c))
        BY <1>5, <2>2 DEF RenameLabel, Statement
      <3>2. c.label \in DOMAIN labels /\ LabelOwner[c.label] = c.by
        BY <2>2 DEF Own
      <3>3. PICK f : f = [labels EXCEPT ![c.label] = 1 - @]
        OBVIOUS
      <3>4. /\ DOMAIN f = DOMAIN labels /\ f \in [DOMAIN f -> {0, 1}]
            /\ \A m \in DOMAIN labels : m # c.label => f[m] = labels[m]
        BY <1>3, <3>2, <3>3
      <3> QED
        BY <1>1, <1>3, <2>1, <3>1, <3>2, <3>3, <3>4
    <2>3. CASE ~Own(c)
      BY <1>2, <1>5, <2>1, <2>3 DEF RenameLabel, Statement
    <2> QED
      BY <2>2, <2>3
  <1>6. CASE DropLabel(q)
    <2>1. At(q, "write") /\ req[q].op = "deleteLabel" /\ Rest
      BY <1>6 DEF DropLabel, Statement
    <2>2. CASE Own(c) /\ ~LabelReferenced(c.label)
      <3>1. /\ labels' = [m \in DOMAIN labels \ {c.label} |-> labels[m]]
            /\ UNCHANGED groups /\ Committed(q, Invalidated(c))
        BY <1>6, <2>2 DEF DropLabel, Statement
      <3>2. c.label \in DOMAIN labels /\ LabelOwner[c.label] = c.by
        BY <2>2 DEF Own
      <3>3. PICK f : f = [m \in DOMAIN labels \ {c.label} |-> labels[m]]
        OBVIOUS
      <3>4. /\ DOMAIN f = DOMAIN labels \ {c.label} /\ f \in [DOMAIN f -> {0, 1}]
            /\ \A m \in DOMAIN f : f[m] = labels[m]
        BY <1>3, <3>3
      <3>5. \A l \in DOMAIN labels : l \in DOMAIN f \/ ~LabelReferenced(l)
        BY <2>2, <3>4
      <3> QED
        BY <1>1, <1>3, <2>1, <3>1, <3>2, <3>3, <3>4, <3>5
    <2>3. CASE ~(Own(c) /\ ~LabelReferenced(c.label))
      BY <1>2, <1>6, <2>1, <2>3 DEF DropLabel, Statement
    <2> QED
      BY <2>2, <2>3
  <1> QED
    BY <1>4, <1>5, <1>6 DEF LabelWrite

(* A request that has read a list which a change outdates is marked. *)
Marked(p, keys) ==
    \/ req'[p] = req[p] /\ ~Race(p, keys)
    \/ /\ Race(p, keys) /\ JobOK(req'[p]) /\ req'[p].raced
       /\ req'[p].began = req[p].began /\ req'[p].body = req[p].body
       /\ req'[p].needs = req[p].needs /\ req'[p].value = req[p].value
       /\ req'[p].pc = req[p].pc /\ req'[p].seen = req[p].seen

(* A committed change: its own request clears or is gone, and the replicas   *)
(* that are not told are excused.                                           *)
CommitStep(q) ==
    LET j    == req[q]
        keys == Invalidated(req[q].body)
    IN /\ DOMAIN req' = Requests
       /\ \A p \in Requests \ {q} : Marked(p, keys)
       /\ \/ req'[q] = Idle /\ \A s \in Replicas : excused'[s] = excused[s] \cup keys
          \/ /\ JobOK(req'[q]) /\ req'[q].pc = "clear" /\ req'[q].body = j.body /\ req'[q].rep = j.rep
             /\ req'[q].began = j.began /\ req'[q].seen = j.seen
             /\ excused'[j.rep] = excused[j.rep]
             /\ \A s \in Replicas \ {j.rep} : excused'[s] = excused[s] \cup keys
       /\ excused' \in [Replicas -> SUBSET Keys]
       /\ lost' \in [Users -> [Groups -> Nat]]
       /\ \A u \in Users, g \in Groups :
             lost'[u][g] = IF Sees(groups, u, g) /\ ~Sees(groups, u, g)' THEN now ELSE lost[u][g]

LEMMA CommitIs ==
    ASSUME NEW q \in Requests, Typed, Changed(q)
    PROVE  CommitStep(q)
  <1> DEFINE c == req[q].body
             r == req[q].rep
             keys == Invalidated(req[q].body)
  <1>1. JobOK(req[q]) /\ req[q].pc = "write" /\ Committed(q, keys) /\ c.op \in GroupOps \cup LabelOps
    BY DEF Changed, JobOK
  <1>2. keys \subseteq Keys
    <2>1. BodyOK(c)
      BY <1>1 DEF JobOK
    <2> QED
      BY <1>1, <2>1 DEF Invalidated, Keys, ListName, BodyOK, Bodies
  <1>3. PICK k : k = [req[q] EXCEPT !.pc = "clear"]
    OBVIOUS
  <1>4. /\ k.op = req[q].op /\ k.body = c /\ k.rep = r /\ k.began = req[q].began
        /\ k.needs = req[q].needs /\ k.pc = "clear" /\ k.value = req[q].value
        /\ k.raced = req[q].raced /\ k.seen = req[q].seen /\ Shaped(k)
    BY <1>1, <1>3 DEF JobOK, Shaped
  <1>5. JobOK(k)
    BY <1>1, <1>4 DEF JobOK
  <1>6. ASSUME NEW p \in Requests, Race(p, keys)
        PROVE  LET m == [req[p] EXCEPT !.raced = TRUE] IN
               /\ JobOK(m) /\ m.raced /\ m.began = req[p].began /\ m.body = req[p].body
               /\ m.needs = req[p].needs /\ m.value = req[p].value /\ m.pc = req[p].pc
               /\ m.seen = req[p].seen
    <2>1. PICK j : j = req[p]
      OBVIOUS
    <2>2. JobOK(j)
      BY <1>6, <2>1, IdleOrBusy DEF Race, Typed
    <2>3. PICK m : m = [j EXCEPT !.raced = TRUE]
      OBVIOUS
    <2>4. /\ m.op = j.op /\ m.body = j.body /\ m.rep = j.rep /\ m.began = j.began
          /\ m.needs = j.needs /\ m.pc = j.pc /\ m.value = j.value
          /\ m.raced = TRUE /\ m.seen = j.seen /\ Shaped(m)
      BY <2>2, <2>3 DEF JobOK, Shaped
    <2>5. JobOK(m)
      BY <2>2, <2>4 DEF JobOK
    <2> QED
      BY <2>1, <2>3, <2>4, <2>5
  <1>7. excused \in [Replicas -> SUBSET Keys]
    BY DEF Typed, CacheOK
  <1>8. /\ lost' \in [Users -> [Groups -> Nat]]
        /\ \A u \in Users, g \in Groups :
              lost'[u][g] = IF Sees(groups, u, g) /\ ~Sees(groups, u, g)' THEN now ELSE lost[u][g]
    <2>1. lost' = [u \in Users |-> [g \in Groups |->
                     IF Sees(groups, u, g) /\ ~Sees(groups', u, g) THEN now ELSE lost[u][g]]]
      BY <1>1 DEF Committed
    <2>2. now \in Nat /\ lost \in [Users -> [Groups -> Nat]]
      BY DEF Typed, TablesOK
    <2>3. \A u \in Users, g \in Groups : Sees(groups, u, g)' <=> Sees(groups', u, g)
      BY DEF Sees
    <2> QED
      BY <2>1, <2>2, <2>3
  <1> HIDE DEF keys
  <1>11. ASSUME \A p \in Requests \ {q} :
                   req'[p] = IF Race(p, keys) THEN [req[p] EXCEPT !.raced = TRUE] ELSE req[p]
         PROVE  \A p \in Requests \ {q} : Marked(p, keys)
    <2> SUFFICES ASSUME NEW p \in Requests \ {q} PROVE Marked(p, keys)
      OBVIOUS
    <2>1. CASE Race(p, keys)
      <3>1. req'[p] = [req[p] EXCEPT !.raced = TRUE]
        BY <1>11, <2>1
      <3> QED
        BY <1>6, <2>1, <3>1 DEF Marked
    <2>2. CASE ~Race(p, keys)
      BY <1>11, <2>2 DEF Marked
    <2> QED
      BY <2>1, <2>2
  <1>9. CASE /\ req' = [p \in Requests |->
                           IF p = q THEN [req[q] EXCEPT !.pc = "clear"]
                           ELSE IF Race(p, keys) THEN [req[p] EXCEPT !.raced = TRUE] ELSE req[p]]
             /\ excused' = [s \in Replicas |-> IF s = r THEN excused[s] ELSE excused[s] \cup keys]
    <2>1. /\ DOMAIN req' = Requests /\ req'[q] = k
          /\ \A p \in Requests \ {q} :
                req'[p] = IF Race(p, keys) THEN [req[p] EXCEPT !.raced = TRUE] ELSE req[p]
      BY <1>3, <1>9
    <2>2. r \in Replicas
      BY <1>1 DEF JobOK
    <2>3. /\ excused' \in [Replicas -> SUBSET Keys] /\ excused'[r] = excused[r]
          /\ \A s \in Replicas \ {r} : excused'[s] = excused[s] \cup keys
      BY <1>2, <1>7, <1>9, <2>2
    <2> QED
      BY <1>4, <1>5, <1>8, <1>11, <2>1, <2>3 DEF keys, CommitStep
  <1>10. CASE /\ req' = [p \in Requests |->
                           IF p = q THEN Idle
                           ELSE IF Race(p, keys) THEN [req[p] EXCEPT !.raced = TRUE] ELSE req[p]]
              /\ excused' = [s \in Replicas |-> excused[s] \cup keys]
    <2>1. /\ DOMAIN req' = Requests /\ req'[q] = Idle
          /\ \A p \in Requests \ {q} :
                req'[p] = IF Race(p, keys) THEN [req[p] EXCEPT !.raced = TRUE] ELSE req[p]
      BY <1>10
    <2>2. /\ excused' \in [Replicas -> SUBSET Keys]
          /\ \A s \in Replicas : excused'[s] = excused[s] \cup keys
      BY <1>2, <1>7, <1>10
    <2> QED
      BY <1>8, <1>11, <2>1, <2>2 DEF keys, CommitStep
  <1> QED
    BY <1>1, <1>9, <1>10 DEF Committed

-----------------------------------------------------------------------------
(* The other steps. *)

ClearStep(q) ==
    LET r    == req[q].rep
        keys == Invalidated(req[q].body)
    IN /\ JobOK(req[q]) /\ req[q].pc = "clear"
       /\ Others(q) /\ req'[q] = Idle
       /\ DOMAIN cache' = Replicas /\ excused' \in [Replicas -> SUBSET Keys]
       /\ \A s \in Replicas \ {r} : cache'[s] = cache[s] /\ excused'[s] = excused[s]
       /\ DOMAIN cache'[r] = DOMAIN cache[r] \ keys /\ excused'[r] = excused[r] \ keys
       /\ \A k \in DOMAIN cache'[r] : cache'[r][k] = cache[r][k]
       /\ UNCHANGED <<now, tables, lost, staleness>>

(* The row of an item and, if it is an expense, its event are written. *)
ItemWritten(i, row, named) ==
    /\ i \in Items /\ row \in ItemRows /\ named \subseteq Labels
    /\ items' \in [Items -> {NoRow} \cup ItemRows] /\ items'[i] = row
    /\ \A k \in Items \ {i} : items'[k] = items[k]
    /\ events' \in [Expenses -> Seq(SUBSET Labels)]
    /\ \A x \in Expenses \ {i} : events'[x] = events[x]
    /\ i \in Expenses => events'[i] # <<>> /\ events'[i][Len(events'[i])] = named

SaveStep(q) ==
    LET c   == req[q].body
        row == [found |-> TRUE, deleted |-> FALSE, labels |-> c.labels, group |-> c.group]
    IN /\ JobOK(req[q]) /\ req[q].pc = "write" /\ c.op = "save"
       /\ c.labels \subseteq DOMAIN labels /\ c.group \in DOMAIN groups \cup {None}
       /\ ItemWritten(c.item, row, c.labels)
       /\ staleness' = IF c.item \in Budgets /\ c.group # None THEN Age(c.by, c.group) ELSE 0
       /\ Others(q) /\ req'[q] = Idle
       /\ UNCHANGED <<now, groups, labels, delivered, rollups, cache, lost, excused>>

DeleteStep(q) ==
    LET i == req[q].body.item IN
    /\ JobOK(req[q]) /\ req[q].pc = "write"
    /\ items[i].found /\ items[i] \in ItemRows
    /\ ItemWritten(i, items'[i], {})
    /\ items'[i].labels = items[i].labels /\ items'[i].group = items[i].group
    /\ Others(q) /\ req'[q] = Idle
    /\ UNCHANGED <<now, groups, labels, delivered, rollups, cache, lost, excused, staleness>>

LEMMA ClearIs ==
    ASSUME NEW q \in Requests, Typed, Clear(q)
    PROVE  ClearStep(q)
  <1>1. JobOK(req[q]) /\ req[q].pc = "clear"
    BY IdleOrBusy DEF Clear, At, Typed
  <1>2. PICK r \in Replicas : r = req[q].rep
    BY <1>1 DEF JobOK
  <1>3. PICK keys : keys = Invalidated(req[q].body)
    OBVIOUS
  <1>4. PICK C : C = [k \in DOMAIN cache[r] \ keys |-> cache[r][k]]
    OBVIOUS
  <1>5. cache' = [cache EXCEPT ![r] = C] /\ DOMAIN cache = Replicas
    BY <1>2, <1>3, <1>4 DEF Clear, Invalidate, Typed, CacheOK
  <1>6. /\ DOMAIN cache' = Replicas /\ cache'[r] = C
        /\ \A s \in Replicas \ {r} : cache'[s] = cache[s]
    BY <1>5
  <1>7. DOMAIN C = DOMAIN cache[r] \ keys /\ \A k \in DOMAIN C : C[k] = cache[r][k]
    BY <1>4
  <1>8. excused' = [excused EXCEPT ![r] = @ \ keys] /\ excused \in [Replicas -> SUBSET Keys]
    BY <1>2, <1>3 DEF Clear, Typed, CacheOK
  <1>9. /\ excused' \in [Replicas -> SUBSET Keys] /\ excused'[r] = excused[r] \ keys
        /\ \A s \in Replicas \ {r} : excused'[s] = excused[s]
    BY <1>8
  <1>10. req'[q] = Idle /\ Others(q)
    BY DEF Clear, End, Others, Typed, RequestsOK
  <1>11. UNCHANGED <<now, tables, lost, staleness>>
    BY DEF Clear
  <1> QED
    BY <1>1, <1>2, <1>3, <1>6, <1>7, <1>9, <1>10, <1>11 DEF ClearStep

LEMMA Recorded ==
    ASSUME Typed, NEW i \in Items, NEW row \in ItemRows, NEW named \in SUBSET Labels,
           items' = [items EXCEPT ![i] = row],
           events' = IF i \in Expenses THEN [events EXCEPT ![i] = Append(@, named)] ELSE events
    PROVE  ItemWritten(i, row, named)
  <1>1. items \in [Items -> {NoRow} \cup ItemRows] /\ events \in [Expenses -> Seq(SUBSET Labels)]
    BY DEF Typed, TablesOK
  <1>2. /\ items' \in [Items -> {NoRow} \cup ItemRows] /\ items'[i] = row
        /\ \A k \in Items \ {i} : items'[k] = items[k]
    BY <1>1
  <1>3. CASE i \in Expenses
    <2>1. PICK s : s = Append(events[i], named)
      OBVIOUS
    <2>2. events[i] \in Seq(SUBSET Labels)
      BY <1>1, <1>3
    <2>3. /\ s \in Seq(SUBSET Labels) /\ s # <<>> /\ Len(s) = Len(events[i]) + 1
          /\ s[Len(events[i]) + 1] = named
      BY <2>1, <2>2, AppendProperties
    <2>4. events' = [events EXCEPT ![i] = s]
      BY <1>3, <2>1
    <2>5. /\ events' \in [Expenses -> Seq(SUBSET Labels)] /\ events'[i] = s
          /\ \A x \in Expenses \ {i} : events'[x] = events[x]
      BY <1>1, <1>3, <2>3, <2>4
    <2> QED
      BY <1>2, <2>3, <2>5 DEF ItemWritten
  <1>4. CASE i \notin Expenses
    BY <1>1, <1>2, <1>4 DEF ItemWritten
  <1> QED
    BY <1>3, <1>4

LEMMA SaveIs ==
    ASSUME NEW q \in Requests, Typed, Save(q)
    PROVE  SaveStep(q) \/ Ended(q)
  <1> DEFINE c == req[q].body
             ok == /\ items[c.item].found => ~items[c.item].deleted
                   /\ c.labels \subseteq DOMAIN labels
                   /\ c.group \in DOMAIN groups \cup {None}
  <1>1. /\ At(q, "write") /\ c.op = "save" /\ End(q)
        /\ UNCHANGED <<now, groups, labels, delivered, rollups, cache, lost, excused>>
    BY DEF Save
  <1>2. /\ JobOK(req[q]) /\ req[q].pc = "write" /\ c.item \in Items
        /\ c.labels \in SUBSET Labels /\ c.group \in Groups \cup {None}
    BY <1>1, Writing DEF BodyOK, Bodies
  <1>3. CASE ok
    <2>1. PICK row : row = [found |-> TRUE, deleted |-> FALSE, labels |-> c.labels, group |-> c.group]
      OBVIOUS
    <2>2. row \in ItemRows
      BY <1>2, <2>1 DEF ItemRows, Labels
    <2>3. /\ items' = [items EXCEPT ![c.item] = row]
          /\ events' = IF c.item \in Expenses
                       THEN [events EXCEPT ![c.item] = Append(@, c.labels)] ELSE events
          /\ staleness' = IF c.item \in Budgets /\ c.group # None THEN Age(c.by, c.group) ELSE 0
      BY <1>3, <2>1 DEF Save
    <2>4. ItemWritten(c.item, row, c.labels)
      BY <1>2, <2>2, <2>3, Recorded
    <2>5. req'[q] = Idle /\ Others(q)
      BY <1>1 DEF End, Others, Typed, RequestsOK
    <2> QED
      BY <1>1, <1>2, <1>3, <2>1, <2>3, <2>4, <2>5 DEF SaveStep
  <1>4. CASE ~ok
    <2>1. UNCHANGED <<items, events, staleness>>
      BY <1>4 DEF Save
    <2> QED
      BY <1>1, <2>1, Refusal DEF tables
  <1> QED
    BY <1>3, <1>4

LEMMA DeleteIs ==
    ASSUME NEW q \in Requests, Typed, Delete(q)
    PROVE  DeleteStep(q) \/ Ended(q)
  <1> DEFINE i == req[q].body.item
  <1>1. /\ At(q, "write") /\ req[q].op = "remove" /\ End(q)
        /\ UNCHANGED <<now, groups, labels, delivered, rollups, cache, lost, excused, staleness>>
    BY DEF Delete
  <1>2. JobOK(req[q]) /\ req[q].pc = "write" /\ i \in Items
    BY <1>1, Writing DEF BodyOK
  <1>3. CASE Live(i)
    <2>1. items[i] \in ItemRows /\ items[i].found
      <3>1. items[i] \in {NoRow} \cup ItemRows
        BY <1>2 DEF Typed, TablesOK
      <3>2. ~NoRow.found
        BY DEF NoRow
      <3> QED
        BY <1>3, <3>1, <3>2 DEF Live
    <2>2. PICK row : row = [items[i] EXCEPT !.deleted = TRUE]
      OBVIOUS
    <2>3. row \in ItemRows /\ row.labels = items[i].labels /\ row.group = items[i].group
      BY <2>1, <2>2 DEF ItemRows
    <2>4. /\ items' = [items EXCEPT ![i].deleted = TRUE]
          /\ events' = IF i \in Expenses THEN [events EXCEPT ![i] = Append(@, {})] ELSE events
      BY <1>3 DEF Delete
    <2>5. items' = [items EXCEPT ![i] = row]
      BY <2>2, <2>4
    <2>6. ItemWritten(i, row, {})
      BY <1>2, <2>3, <2>4, <2>5, Recorded
    <2>7. req'[q] = Idle /\ Others(q)
      BY <1>1 DEF End, Others, Typed, RequestsOK
    <2>8. items'[i] = row
      BY <2>6 DEF ItemWritten
    <2> QED
      BY <1>1, <1>2, <2>1, <2>3, <2>6, <2>7, <2>8 DEF DeleteStep
  <1>4. CASE ~Live(i)
    <2>1. UNCHANGED <<items, events>>
      BY <1>4 DEF Delete
    <2> QED
      BY <1>1, <2>1, Refusal DEF tables
  <1> QED
    BY <1>3, <1>4

Answered(q) ==
    /\ JobOK(req[q]) /\ req[q].pc = "answer" /\ Answer(q)
    /\ Others(q) /\ req'[q] = Idle
    /\ UNCHANGED <<now, tables, cache, lost, excused>>

(* What a request can do, and what else can happen. *)
RequestStep(q) ==
    \/ Arrived(q) \/ HitStep(q) \/ MissStep(q) \/ FillStep(q) \/ ClearStep(q)
    \/ Changed(q) /\ CommitStep(q)
    \/ SaveStep(q) \/ DeleteStep(q) \/ Ended(q) \/ Answered(q)

OtherStep == (\E x \in Expenses : Deliver(x)) \/ (\E r \in Replicas : Restart(r)) \/ Tick \/ UNCHANGED vars

LEMMA StepKinds ==
    ASSUME Typed, [Next]_vars
    PROVE  (\E q \in Requests : RequestStep(q)) \/ OtherStep
  <1>1. ASSUME NEW q \in Requests, NEW r \in Replicas, Requested(q, r) PROVE RequestStep(q)
    BY <1>1, RequestArrives DEF RequestStep
  <1>2. ASSUME NEW q \in Requests, Hit(q) \/ Miss(q) \/ Fill(q) \/ Clear(q) PROVE RequestStep(q)
    BY <1>2, HitIs, MissIs, FillIs, ClearIs DEF RequestStep
  <1>3. ASSUME NEW q \in Requests, GroupWrite(q) \/ LabelWrite(q) PROVE RequestStep(q)
    BY <1>3, GroupWritten, LabelWritten, CommitIs DEF RequestStep
  <1>4. ASSUME NEW q \in Requests, Save(q) \/ Delete(q) PROVE RequestStep(q)
    BY <1>4, SaveIs, DeleteIs DEF RequestStep
  <1>5. ASSUME NEW q \in Requests, Answer(q) PROVE RequestStep(q)
    <2>1. At(q, "answer") /\ End(q) /\ UNCHANGED <<now, tables, cache, lost, excused>>
      BY <1>5 DEF Answer
    <2>2. JobOK(req[q]) /\ req[q].pc = "answer"
      BY <2>1, IdleOrBusy DEF At, Typed
    <2>3. req'[q] = Idle /\ Others(q)
      BY <2>1 DEF End, Others, Typed, RequestsOK
    <2> QED
      BY <1>5, <2>1, <2>2, <2>3 DEF RequestStep, Answered
  <1> QED
    BY <1>1, <1>2, <1>3, <1>4, <1>5 DEF Next, OtherStep, GroupWrite, LabelWrite

-----------------------------------------------------------------------------
(* Types. *)

LEMMA OthersTyped ==
    ASSUME NEW q \in Requests, Typed, Others(q), req'[q] = Idle \/ JobOK(req'[q])
    PROVE  RequestsOK'
  <1>1. \A p \in Requests : req'[p] = Idle \/ JobOK(req'[p])
    BY DEF Others, Typed, RequestsOK
  <1> QED
    BY <1>1 DEF RequestsOK, Others

LEMMA TablesStay ==
    ASSUME Typed, UNCHANGED <<tables, lost>>, now' \in Nat
    PROVE  TablesOK'
  BY DEF Typed, TablesOK, tables

LEMMA CacheStays ==
    ASSUME Typed, UNCHANGED <<cache, excused>>
    PROVE  CacheOK'
  BY DEF Typed, CacheOK

LEMMA TypedStep ==
    ASSUME Typed, [Next]_vars
    PROVE  Typed'
  <1>0. now \in Nat
    BY DEF Typed, TablesOK
  <1>1. ASSUME NEW q \in Requests, Arrived(q) PROVE Typed'
    <2>1. RequestsOK'
      BY <1>1, OthersTyped DEF Arrived
    <2> QED
      BY <1>0, <1>1, <2>1, TablesStay, CacheStays DEF Arrived, Typed
  <1>2. ASSUME NEW q \in Requests, HitStep(q) PROVE Typed'
    <2>1. RequestsOK'
      BY <1>2, OthersTyped DEF HitStep, GoesOn
    <2> QED
      BY <1>0, <1>2, <2>1, TablesStay, CacheStays DEF HitStep, Typed
  <1>3. ASSUME NEW q \in Requests, MissStep(q) PROVE Typed'
    <2>1. RequestsOK'
      BY <1>3, OthersTyped DEF MissStep
    <2> QED
      BY <1>0, <1>3, <2>1, TablesStay, CacheStays DEF MissStep, Typed
  <1>4. ASSUME NEW q \in Requests, FillStep(q) PROVE Typed'
    <2>1. RequestsOK'
      BY <1>4, OthersTyped DEF FillStep, GoesOn
    <2>2. PICK r : r = req[q].rep
      OBVIOUS
    <2>3. /\ DOMAIN cache' = Replicas /\ excused' \in [Replicas -> SUBSET Keys]
          /\ \A s \in Replicas \ {r} : cache'[s] = cache[s]
          /\ DOMAIN cache'[r] = DOMAIN cache[r] \cup {Key(q)}
          /\ EntryOK(Key(q), cache'[r][Key(q)])
          /\ \A k \in DOMAIN cache[r] : k # Key(q) => cache'[r][k] = cache[r][k]
      BY <1>4, <2>2 DEF FillStep
    <2>4. Key(q) \in Keys
      BY <1>4, KeyOf DEF FillStep
    <2>5. ASSUME NEW s \in Replicas, NEW key \in DOMAIN cache'[s]
          PROVE  key \in Keys /\ EntryOK(key, cache'[s][key])
      <3>1. CASE s = r /\ key = Key(q)
        BY <2>3, <2>4, <3>1
      <3>2. CASE ~(s = r /\ key = Key(q))
        <4>1. key \in DOMAIN cache[s] /\ cache'[s][key] = cache[s][key]
          BY <2>3, <3>2
        <4> QED
          BY <4>1 DEF Typed, CacheOK
      <3> QED
        BY <3>1, <3>2
    <2>6. CacheOK'
      BY <2>3, <2>5 DEF CacheOK
    <2> QED
      BY <1>0, <1>4, <2>1, <2>6, TablesStay DEF FillStep, Typed
  <1>5. ASSUME NEW q \in Requests, ClearStep(q) PROVE Typed'
    <2>1. RequestsOK'
      BY <1>5, OthersTyped DEF ClearStep
    <2>2. PICK r : r = req[q].rep
      OBVIOUS
    <2>3. /\ DOMAIN cache' = Replicas /\ excused' \in [Replicas -> SUBSET Keys]
          /\ \A s \in Replicas \ {r} : cache'[s] = cache[s]
          /\ DOMAIN cache'[r] \subseteq DOMAIN cache[r]
          /\ \A k \in DOMAIN cache'[r] : cache'[r][k] = cache[r][k]
      BY <1>5, <2>2 DEF ClearStep
    <2>4. ASSUME NEW s \in Replicas, NEW key \in DOMAIN cache'[s]
          PROVE  key \in Keys /\ EntryOK(key, cache'[s][key])
      <3>1. key \in DOMAIN cache[s] /\ cache'[s][key] = cache[s][key]
        BY <2>3
      <3> QED
        BY <3>1 DEF Typed, CacheOK
    <2>5. CacheOK'
      BY <2>3, <2>4 DEF CacheOK
    <2> QED
      BY <1>0, <1>5, <2>1, <2>5, TablesStay DEF ClearStep, Typed
  <1>6. ASSUME NEW q \in Requests, Changed(q), CommitStep(q) PROVE Typed'
    <2>1. \A p \in Requests : req'[p] = Idle \/ JobOK(req'[p])
      <3>1. \A p \in Requests \ {q} : req'[p] = Idle \/ JobOK(req'[p])
        BY <1>6 DEF CommitStep, Marked, Typed, RequestsOK
      <3>2. req'[q] = Idle \/ JobOK(req'[q])
        BY <1>6 DEF CommitStep
      <3> QED
        BY <3>1, <3>2
    <2>2. RequestsOK'
      BY <1>6, <2>1 DEF RequestsOK, CommitStep
    <2>3. CacheOK'
      BY <1>6 DEF Changed, CommitStep, Typed, CacheOK
    <2>4. TablesOK'
      BY <1>6 DEF Changed, CommitStep, Typed, TablesOK
    <2> QED
      BY <2>2, <2>3, <2>4 DEF Typed
  <1>7. ASSUME NEW q \in Requests, SaveStep(q) PROVE Typed'
    <2>1. RequestsOK'
      BY <1>7, OthersTyped DEF SaveStep
    <2>2. CacheOK'
      BY <1>7, CacheStays DEF SaveStep
    <2>3. TablesOK'
      BY <1>7 DEF SaveStep, ItemWritten, Typed, TablesOK
    <2> QED
      BY <2>1, <2>2, <2>3 DEF Typed
  <1>8. ASSUME NEW q \in Requests, DeleteStep(q) PROVE Typed'
    <2>1. RequestsOK'
      BY <1>8, OthersTyped DEF DeleteStep
    <2>2. CacheOK'
      BY <1>8, CacheStays DEF DeleteStep
    <2>3. TablesOK'
      BY <1>8 DEF DeleteStep, ItemWritten, Typed, TablesOK
    <2> QED
      BY <2>1, <2>2, <2>3 DEF Typed
  <1>9. ASSUME NEW q \in Requests, Ended(q) \/ Answered(q) PROVE Typed'
    <2>1. RequestsOK'
      BY <1>9, OthersTyped DEF Ended, Answered
    <2> QED
      BY <1>0, <1>9, <2>1, TablesStay, CacheStays DEF Ended, Answered, Typed
  <1>10. ASSUME NEW x \in Expenses, Deliver(x) PROVE Typed'
    <2>1. /\ UNCHANGED <<now, groups, labels, items, events, cache, req, lost, excused>>
          /\ delivered' = [delivered EXCEPT ![x] = @ + 1]
      BY <1>10 DEF Deliver
    <2>2. PICK e : e = events[x][delivered[x] + 1]
      OBVIOUS
    <2>3. e \subseteq DOMAIN labels /\ rollups' = rollups \cup e
      BY <1>10, <2>2 DEF Deliver
    <2>4. TablesOK'
      BY <2>1, <2>3 DEF Typed, TablesOK
    <2>5. RequestsOK'
      BY <2>1 DEF Typed, RequestsOK
    <2> QED
      BY <2>1, <2>4, <2>5, CacheStays DEF Typed
  <1>11. ASSUME NEW r \in Replicas, Restart(r) PROVE Typed'
    <2>1. /\ cache' = [cache EXCEPT ![r] = <<>>] /\ excused' = [excused EXCEPT ![r] = {}]
          /\ req' = [q \in Requests |-> IF q \in Busy /\ req[q].rep = r THEN Idle ELSE req[q]]
          /\ UNCHANGED <<now, tables, lost>>
      BY <1>11 DEF Restart
    <2>2. RequestsOK'
      BY <2>1 DEF Typed, RequestsOK
    <2>3. /\ DOMAIN cache' = Replicas /\ cache'[r] = <<>>
          /\ \A s \in Replicas \ {r} : cache'[s] = cache[s]
          /\ excused' \in [Replicas -> SUBSET Keys]
      BY <2>1 DEF Typed, CacheOK
    <2>4. CacheOK'
      BY <2>3 DEF Typed, CacheOK
    <2> QED
      BY <1>0, <2>1, <2>2, <2>4, TablesStay DEF Typed
  <1>12. ASSUME Tick PROVE Typed'
    <2>1. now' = now + 1 /\ UNCHANGED <<tables, cache, req, lost, excused>>
      BY <1>12 DEF Tick
    <2>2. RequestsOK'
      BY <2>1 DEF Typed, RequestsOK
    <2> QED
      BY <1>0, <2>1, <2>2, TablesStay, CacheStays DEF Typed
  <1>13. ASSUME UNCHANGED vars PROVE Typed'
    <2>1. UNCHANGED <<now, tables, cache, req, lost, excused>>
      BY <1>13 DEF vars
    <2>2. RequestsOK'
      BY <2>1 DEF Typed, RequestsOK
    <2> QED
      BY <1>0, <2>1, <2>2, TablesStay, CacheStays DEF Typed
  <1> QED
    BY <1>1, <1>2, <1>3, <1>4, <1>5, <1>6, <1>7, <1>8, <1>9, <1>10, <1>11, <1>12, <1>13, StepKinds
    DEF RequestStep, OtherStep

LEMMA TypedInit == Init => Typed
  <1> SUFFICES ASSUME Init PROVE Typed
    OBVIOUS
  <1>1. PICK w \in Workloads :
          /\ groups = w.groups
          /\ labels = [l \in w.labels |-> 0]
          /\ items = [i \in Items |-> IF i \in DOMAIN w.items THEN w.items[i] ELSE NoRow]
          /\ now = w.now
    BY DEF Init
  <1>2. /\ w.now \in Nat /\ DOMAIN w.groups \subseteq Groups
        /\ w.groups \in [DOMAIN w.groups -> GroupRows]
        /\ w.labels \subseteq Labels
        /\ \A i \in DOMAIN w.items : w.items[i] \in ItemRows
    BY SharingAssumption DEF Labels
  <1>3. /\ events = [x \in Expenses |-> IF items[x].found THEN <<items[x].labels>> ELSE <<>>]
        /\ delivered = [x \in Expenses |-> 0] /\ rollups = {}
        /\ cache = [r \in Replicas |-> <<>>] /\ req = [q \in Requests |-> Idle]
        /\ lost = [u \in Users |-> [g \in Groups |-> now]]
        /\ excused = [r \in Replicas |-> {}]
    BY DEF Init
  <1>4. items \in [Items -> {NoRow} \cup ItemRows]
    BY <1>1, <1>2
  <1>5. events \in [Expenses -> Seq(SUBSET Labels)]
    <2> SUFFICES ASSUME NEW x \in Expenses
                 PROVE  (IF items[x].found THEN <<items[x].labels>> ELSE <<>>) \in Seq(SUBSET Labels)
      BY <1>3
    <2>1. x \in Items /\ ~NoRow.found
      BY DEF Items, NoRow
    <2>2. items[x].found => items[x].labels \in SUBSET Labels
      BY <1>4, <2>1 DEF ItemRows, Labels
    <2>3. CASE items[x].found
      <3>1. PICK l \in SUBSET Labels : l = items[x].labels
        BY <2>2, <2>3
      <3>2. <<l>> \in Seq(SUBSET Labels)
        OBVIOUS
      <3> QED
        BY <2>3, <3>1, <3>2
    <2>4. CASE ~items[x].found
      BY <2>4
    <2> QED
      BY <2>3, <2>4
  <1>6. DOMAIN labels \subseteq Labels /\ labels \in [DOMAIN labels -> {0, 1}]
    BY <1>1, <1>2
  <1>7. TablesOK
    BY <1>1, <1>2, <1>3, <1>4, <1>5, <1>6 DEF TablesOK
  <1>8. CacheOK
    BY <1>3 DEF CacheOK
  <1>9. RequestsOK
    BY <1>3 DEF RequestsOK
  <1> QED
    BY <1>7, <1>8, <1>9 DEF Typed

-----------------------------------------------------------------------------
(* References. *)

LEMMA ReferringGives == Typed /\ Referring => ReferencesSound
  <1> SUFFICES ASSUME Typed, Referring PROVE ReferencesSound
    OBVIOUS
  <1>1. OwnLabels
    BY DEF Referring, OwnLabels, Private
  <1>2. \A i \in Rows : /\ items[i].group \in DOMAIN groups \cup {None}
                        /\ items[i].labels \subseteq DOMAIN labels
    BY DEF Referring, Rows
  <1>3. ASSUME NEW x \in Expenses, NEW n \in delivered[x] + 1 .. Len(events[x]),
               ~(n < Len(events[x]))
        PROVE  events[x][n] \subseteq DOMAIN labels
    <2>1. events[x] \in Seq(SUBSET Labels) /\ delivered[x] \in Nat
      BY DEF Typed, TablesOK
    <2>2. Len(events[x]) \in Nat
      BY <2>1
    <2>3. n = Len(events[x]) /\ Len(events[x]) > 0
      BY <1>3, <2>1, <2>2
    <2>4. events[x] # <<>>
      BY <2>3
    <2>5. items[x].found /\ events[x][n] \subseteq items[x].labels
      BY <2>3, <2>4 DEF Referring
    <2>6. x \in Rows
      BY <2>5 DEF Rows, Items
    <2> QED
      BY <1>2, <2>5, <2>6
  <1>4. ReferencesHold
    <2>1. \A x \in Expenses : \A n \in delivered[x] + 1 .. Len(events[x]) :
             n < Len(events[x]) \/ events[x][n] \subseteq DOMAIN labels
      BY <1>3
    <2> QED
      BY <1>2, <2>1 DEF ReferencesHold, Referring
  <1> QED
    BY <1>1, <1>4 DEF ReferencesSound

LEMMA ReferringInit == Init => Referring
  <1> SUFFICES ASSUME Init PROVE Referring
    OBVIOUS
  <1>1. PICK w \in Workloads :
          /\ groups = w.groups
          /\ labels = [l \in w.labels |-> 0]
          /\ items = [i \in Items |-> IF i \in DOMAIN w.items THEN w.items[i] ELSE NoRow]
    BY DEF Init
  <1>2. \A i \in DOMAIN w.items :
          /\ w.items[i] \in ItemRows
          /\ w.items[i].labels \subseteq w.labels
          /\ w.items[i].group \in DOMAIN w.groups \cup {None}
          /\ i \in Expenses => \A l \in w.items[i].labels : LabelOwner[l] \in {OwnerOf[i], Default}
    BY SharingAssumption
  <1>3. /\ events = [x \in Expenses |-> IF items[x].found THEN <<items[x].labels>> ELSE <<>>]
        /\ rollups = {}
    BY DEF Init
  <1>4. ~NoRow.found
    BY DEF NoRow
  <1>5. ASSUME NEW i \in Items, items[i].found
        PROVE  /\ items[i].group \in DOMAIN groups \cup {None} /\ items[i].labels \subseteq DOMAIN labels
               /\ i \in Expenses => items[i].labels \subseteq Private(OwnerOf[i])
    <2>1. i \in DOMAIN w.items /\ items[i] = w.items[i]
      BY <1>1, <1>4, <1>5
    <2>2. w.items[i].labels \subseteq Labels
      BY <1>2, <2>1 DEF ItemRows, Labels
    <2>3. DOMAIN labels = w.labels
      BY <1>1
    <2> QED
      BY <1>1, <1>2, <2>1, <2>2, <2>3 DEF Private
  <1>6. ASSUME NEW x \in Expenses, events[x] # <<>>
        PROVE  items[x].found /\ events[x][Len(events[x])] \subseteq items[x].labels
    <2>1. items[x].found /\ events[x] = <<items[x].labels>>
      BY <1>3, <1>6
    <2> QED
      BY <2>1
  <1> QED
    BY <1>3, <1>5, <1>6 DEF Referring, Items

(* Steps that touch none of the tables references are about. *)
LEMMA ReferringStays ==
    ASSUME Referring, UNCHANGED <<groups, labels, items, events, rollups>>
    PROVE  Referring'
  BY DEF Referring

LEMMA ReferringStep ==
    ASSUME ReferenceInv, [Next]_vars
    PROVE  Referring'
  <1>0. Typed /\ Referring
    BY DEF ReferenceInv
  <1>1. ASSUME NEW q \in Requests, Changed(q) PROVE Referring'
    <2>1. /\ \A g \in DOMAIN groups : g \in DOMAIN groups' \/ ~GroupReferenced(g)
          /\ \A l \in DOMAIN labels : l \in DOMAIN labels' \/ ~LabelReferenced(l)
          /\ UNCHANGED <<items, events, rollups>>
      BY <1>1 DEF Changed
    <2>2. ASSUME NEW i \in Items, items[i].found
          PROVE  /\ items[i].group \in DOMAIN groups' \cup {None}
                 /\ items[i].labels \subseteq DOMAIN labels'
      <3>1. items[i].group \in DOMAIN groups \cup {None} /\ items[i].labels \subseteq DOMAIN labels
        BY <1>0, <2>2 DEF Referring
      <3>2. i \in Rows
        BY <2>2 DEF Rows
      <3>3. GroupReferenced(items[i].group) /\ \A l \in items[i].labels : LabelReferenced(l)
        BY <3>2 DEF GroupReferenced, LabelReferenced
      <3> QED
        BY <2>1, <3>1, <3>3
    <2>3. rollups \subseteq DOMAIN labels'
      BY <1>0, <2>1 DEF Referring, LabelReferenced
    <2> QED
      BY <1>0, <2>1, <2>2, <2>3 DEF Referring
  <1>2. ASSUME NEW i \in Items, NEW row, NEW named, ItemWritten(i, row, named),
               row.found, row.group \in DOMAIN groups \cup {None}, row.labels \subseteq DOMAIN labels,
               i \in Expenses => row.labels \subseteq Private(OwnerOf[i]),
               named \subseteq row.labels,
               UNCHANGED <<groups, labels, rollups>>
        PROVE  Referring'
    <2>1. /\ items'[i] = row /\ \A k \in Items \ {i} : items'[k] = items[k]
          /\ \A x \in Expenses \ {i} : events'[x] = events[x]
          /\ i \in Expenses => events'[i] # <<>> /\ events'[i][Len(events'[i])] = named
      BY <1>2 DEF ItemWritten
    <2>2. \A k \in Items : items'[k].found =>
             /\ items'[k].group \in DOMAIN groups \cup {None} /\ items'[k].labels \subseteq DOMAIN labels
             /\ k \in Expenses => items'[k].labels \subseteq Private(OwnerOf[k])
      BY <1>0, <1>2, <2>1 DEF Referring
    <2>3. \A x \in Expenses : events'[x] # <<>> =>
             items'[x].found /\ events'[x][Len(events'[x])] \subseteq items'[x].labels
      <3> SUFFICES ASSUME NEW x \in Expenses, events'[x] # <<>>
                   PROVE  items'[x].found /\ events'[x][Len(events'[x])] \subseteq items'[x].labels
        OBVIOUS
      <3>1. CASE x = i
        BY <1>2, <2>1, <3>1
      <3>2. CASE x # i
        <4>1. events'[x] = events[x] /\ items'[x] = items[x]
          BY <2>1, <3>2 DEF Items
        <4> QED
          BY <1>0, <4>1 DEF Referring
      <3> QED
        BY <3>1, <3>2
    <2>4. rollups' \subseteq DOMAIN labels'
      BY <1>0, <1>2 DEF Referring
    <2> QED
      BY <1>2, <2>2, <2>3, <2>4 DEF Referring, Items
  <1>3. ASSUME NEW q \in Requests, SaveStep(q) PROVE Referring'
    <2> DEFINE c == req[q].body
    <2>1. PICK row : row = [found |-> TRUE, deleted |-> FALSE, labels |-> c.labels, group |-> c.group]
      OBVIOUS
    <2>2. row.found /\ row.labels = c.labels /\ row.group = c.group
      BY <2>1
    <2>3. /\ ItemWritten(c.item, row, c.labels) /\ UNCHANGED <<groups, labels, rollups>>
          /\ c.labels \subseteq DOMAIN labels /\ c.group \in DOMAIN groups \cup {None}
      BY <1>3, <2>1 DEF SaveStep
    <2>4. ASSUME c.item \in Expenses PROVE c.labels \subseteq Private(OwnerOf[c.item])
      <3>1. /\ c.op = "save" /\ Checked(c, req[q].needs, req[q].seen) /\ req[q].needs = <<>>
            /\ c.by = OwnerOf[c.item] /\ c.labels \subseteq Labels
        BY <1>3 DEF SaveStep, JobOK, BodyOK, Bodies
      <3>2. Names(<<>>) = {}
        BY DEF Names
      <3>3. c.labels \cap Categories \subseteq Private(c.by) /\ c.labels \cap Tags \subseteq Private(c.by)
        BY <2>4, <3>1, <3>2 DEF Checked
      <3> QED
        BY <3>1, <3>3 DEF Labels
    <2>5. c.item \in Items
      BY <2>3 DEF ItemWritten
    <2> HIDE DEF c
    <2> QED
      BY <1>2, <2>2, <2>3, <2>4, <2>5
  <1>4. ASSUME NEW q \in Requests, DeleteStep(q) PROVE Referring'
    <2> DEFINE i == req[q].body.item
    <2>1. /\ items[i].found /\ ItemWritten(i, items'[i], {})
          /\ items'[i].labels = items[i].labels /\ items'[i].group = items[i].group
          /\ UNCHANGED <<groups, labels, rollups>>
      BY <1>4 DEF DeleteStep
    <2>2. i \in Items /\ items'[i] \in ItemRows
      BY <2>1 DEF ItemWritten
    <2>3. items'[i].found
      BY <2>2 DEF ItemRows
    <2>4. /\ items[i].group \in DOMAIN groups \cup {None} /\ items[i].labels \subseteq DOMAIN labels
          /\ i \in Expenses => items[i].labels \subseteq Private(OwnerOf[i])
      BY <1>0, <2>1, <2>2 DEF Referring
    <2>5. PICK row : row = items'[i]
      OBVIOUS
    <2> HIDE DEF i
    <2> QED
      BY <1>2, <2>1, <2>2, <2>3, <2>4, <2>5
  <1>5. ASSUME NEW x \in Expenses, Deliver(x) PROVE Referring'
    <2>1. UNCHANGED <<groups, labels, items, events>>
      BY <1>5 DEF Deliver
    <2>2. PICK e : e = events[x][delivered[x] + 1]
      OBVIOUS
    <2>3. e \subseteq DOMAIN labels /\ rollups' = rollups \cup e
      BY <1>5, <2>2 DEF Deliver
    <2> QED
      BY <1>0, <2>1, <2>3 DEF Referring
  <1>6. ASSUME NEW q \in Requests,
               Arrived(q) \/ HitStep(q) \/ MissStep(q) \/ FillStep(q) \/ ClearStep(q) \/ Ended(q) \/ Answered(q)
        PROVE  Referring'
    <2>1. UNCHANGED tables
      BY <1>6 DEF Arrived, HitStep, MissStep, FillStep, ClearStep, Ended, Answered
    <2> QED
      BY <1>0, <2>1, ReferringStays DEF tables
  <1>7. ASSUME (\E r \in Replicas : Restart(r)) \/ Tick \/ UNCHANGED vars PROVE Referring'
    <2>1. UNCHANGED tables
      BY <1>7 DEF Restart, Tick, vars
    <2> QED
      BY <1>0, <2>1, ReferringStays DEF tables
  <1> QED
    BY <1>0, <1>1, <1>3, <1>4, <1>5, <1>6, <1>7, StepKinds DEF RequestStep, OtherStep

(* The labels and groups that expenses and budgets name are ones they may    *)
(* name and are there, whatever cached lists they were checked against       *)
(* (validateOwnership and the foreign keys).                                *)
THEOREM ReferencesStand == Spec => []ReferencesSound
  <1>1. Init => ReferenceInv
    BY TypedInit, ReferringInit DEF ReferenceInv
  <1>2. ReferenceInv /\ [Next]_vars => ReferenceInv'
    <2> SUFFICES ASSUME ReferenceInv, [Next]_vars PROVE ReferenceInv'
      OBVIOUS
    <2>1. Typed'
      BY TypedStep DEF ReferenceInv
    <2> QED
      BY <2>1, ReferringStep DEF ReferenceInv
  <1>3. ReferenceInv => ReferencesSound
    BY ReferringGives DEF ReferenceInv
  <1> QED
    BY <1>1, <1>2, <1>3, PTL DEF Spec

-----------------------------------------------------------------------------
(* Cached lists. *)

LEMMA AgreeingGives == Typed /\ Agreeing => ListsCoherent
  <1> SUFFICES ASSUME Typed, Agreeing, NEW r \in Replicas, NEW key \in DOMAIN cache[r],
                      Get(r, key).found, key \notin excused[r] \cup Pending(r)
               PROVE  Get(r, key).value = Query(key)
    BY DEF ListsCoherent
  <1>1. ~NoRow.found
    BY DEF NoRow
  <1>2. Get(r, key) = cache[r][key]
    BY <1>1 DEF Get
  <1> QED
    BY <1>2 DEF Agreeing

LEMMA AgreeingInit == Init => Agreeing
  <1> SUFFICES ASSUME Init PROVE Agreeing
    OBVIOUS
  <1>1. cache = [r \in Replicas |-> <<>>] /\ req = [q \in Requests |-> Idle]
    BY DEF Init
  <1>2. \A r \in Replicas : DOMAIN cache[r] = {}
    BY <1>1
  <1>3. \A q \in Requests : ~At(q, "fill")
    BY <1>1 DEF At, Idle
  <1> QED
    BY <1>2, <1>3 DEF Agreeing

(* A list a replica is about to drop. *)
LEMMA PendingIs ==
    ASSUME NEW r \in Replicas, NEW key
    PROVE  key \in Pending(r) <=> \E p \in Requests : /\ At(p, "clear") /\ req[p].rep = r
                                                      /\ key \in Invalidated(req[p].body)
  BY DEF Pending

LEMMA NextPendingIs ==
    ASSUME NEW r \in Replicas, NEW key
    PROVE  key \in Pending(r)' <=> \E p \in Requests : /\ At(p, "clear")' /\ req'[p].rep = r
                                                       /\ key \in Invalidated(req'[p].body)
  <1>1. \A c : Invalidated(c)' = Invalidated(c)
    BY DEF Invalidated
  <1> QED
    BY DEF Pending, Invalidated

(* A request that clears nothing takes nothing from what is pending. *)
LEMMA PendingStays ==
    ASSUME NEW q \in Requests, Others(q), ~At(q, "clear"), NEW r \in Replicas, NEW key \in Pending(r)
    PROVE  key \in Pending(r)'
  <1>1. PICK p \in Requests : /\ At(p, "clear") /\ req[p].rep = r
                              /\ key \in Invalidated(req[p].body)
    BY PendingIs
  <1>2. req'[p] = req[p]
    BY <1>1 DEF Others
  <1>3. At(p, "clear")'
    BY <1>1, <1>2 DEF At
  <1> QED
    BY <1>1, <1>2, <1>3, NextPendingIs

(* One request goes on, and no list and no table changes. *)
LEMMA AgreeingFrame ==
    ASSUME Typed, Agreeing, NEW q \in Requests, Others(q), ~At(q, "clear"),
           UNCHANGED <<groups, labels, cache, excused>>,
           \A key \in Keys : At(q, "fill")' /\ key = Key(q)' => req'[q].value = Query(key)
    PROVE  Agreeing'
  <1>1. \A key : Query(key)' = Query(key)
    BY DEF Query, ListVisibleGroups, ListCategories, ListTags, Owned
  <1>2. ASSUME NEW r \in Replicas, NEW key \in DOMAIN cache'[r]
        PROVE  key \in excused'[r] \cup Pending(r)' \/ cache'[r][key].value = Query(key)'
    <2>1. key \in excused[r] \cup Pending(r) \/ cache[r][key].value = Query(key)
      BY <1>2 DEF Agreeing
    <2> QED
      BY <1>1, <2>1, PendingStays
  <1>3. ASSUME NEW p \in Requests, NEW key \in Keys, At(p, "fill")', key = Key(p)', ~req'[p].raced
        PROVE  req'[p].value = Query(key)'
    <2>1. CASE p = q
      BY <1>1, <1>3, <2>1
    <2>2. CASE p # q
      <3>1. req'[p] = req[p]
        BY <2>2 DEF Others
      <3>2. At(p, "fill") /\ key = Key(p)
        BY <1>3, <3>1 DEF At, Key
      <3>3. req[p].value = Query(key)
        BY <1>3, <3>1, <3>2 DEF Agreeing
      <3> QED
        BY <1>1, <3>1, <3>3
    <2> QED
      BY <2>1, <2>2
  <1> QED
    BY <1>2, <1>3 DEF Agreeing

LEMMA NotAt ==
    ASSUME NEW q \in Requests, NEW step, req'[q] = Idle \/ req'[q].pc # step
    PROVE  ~At(q, step)'
  BY DEF At, Idle

LEMMA NowhereElse ==
    ASSUME NEW q \in Requests, NEW step, req[q] = Idle \/ req[q].pc # step
    PROVE  ~At(q, step)
  BY DEF At, Idle

LEMMA AgreeingRead ==
    ASSUME Typed, Agreeing, NEW q \in Requests,
           \/ Arrived(q) \/ HitStep(q) \/ MissStep(q) \/ SaveStep(q) \/ DeleteStep(q)
           \/ Ended(q) \/ Answered(q)
    PROVE  Agreeing'
  <1>1. Others(q) /\ UNCHANGED <<groups, labels, cache, excused>>
    BY DEF Arrived, HitStep, MissStep, SaveStep, DeleteStep, Ended, Answered, tables
  <1>2. ~At(q, "clear")
    BY NowhereElse DEF Arrived, HitStep, MissStep, SaveStep, DeleteStep, Ended, Answered
  <1>3. CASE MissStep(q)
    <2>1. Key(q)' = Key(q) /\ req'[q].value = Query(Key(q))
      BY <1>3 DEF MissStep, Key
    <2> QED
      BY <1>1, <1>2, <2>1, AgreeingFrame
  <1>4. CASE ~MissStep(q)
    <2>1. req'[q] = Idle \/ req'[q].pc # "fill"
      BY <1>4 DEF Arrived, HitStep, GoesOn, SaveStep, DeleteStep, Ended, Answered
    <2>2. ~At(q, "fill")'
      BY <2>1, NotAt
    <2> QED
      BY <1>1, <1>2, <2>2, AgreeingFrame
  <1> QED
    BY <1>3, <1>4

LEMMA AgreeingFill ==
    ASSUME Typed, Agreeing, NEW q \in Requests, FillStep(q)
    PROVE  Agreeing'
  <1>0. PICK r \in Replicas : r = req[q].rep
    BY DEF FillStep, JobOK
  <1>1. /\ JobOK(req[q]) /\ req[q].pc = "fill" /\ req[q].needs # <<>> /\ Others(q)
        /\ UNCHANGED <<groups, labels>>
        /\ req'[q] = Idle \/ req'[q].pc # "fill"
    BY DEF FillStep, GoesOn, tables
  <1>2. ~At(q, "clear") /\ ~At(q, "fill")' /\ At(q, "fill")
    <2>1. req[q].op # "idle"
      BY <1>1, IdleOrBusy DEF Typed
    <2> QED
      BY <1>1, <2>1, NowhereElse, NotAt DEF At
  <1>3. PICK key \in Keys : key = Key(q)
    BY <1>1, KeyOf
  <1>4. /\ \A s \in Replicas \ {r} : cache'[s] = cache[s] /\ excused'[s] = excused[s]
        /\ DOMAIN cache'[r] = DOMAIN cache[r] \cup {key}
        /\ cache'[r][key].value = req[q].value
        /\ \A k \in DOMAIN cache[r] : k # key => cache'[r][k] = cache[r][k]
        /\ \A k \in Keys : k # key => (k \in excused'[r] <=> k \in excused[r])
        /\ req[q].raced => key \in excused'[r]
    BY <1>0, <1>3 DEF FillStep
  <1>5. \A k : Query(k)' = Query(k)
    BY <1>1 DEF Query, ListVisibleGroups, ListCategories, ListTags, Owned
  <1>6. ASSUME NEW s \in Replicas, NEW k \in DOMAIN cache'[s]
        PROVE  k \in excused'[s] \cup Pending(s)' \/ cache'[s][k].value = Query(k)'
    <2>1. CASE s = r /\ k = key
      <3>1. CASE req[q].raced
        BY <1>4, <2>1, <3>1
      <3>2. CASE ~req[q].raced
        <4>1. req[q].value = Query(key)
          BY <1>2, <1>3, <3>2 DEF Agreeing
        <4> QED
          BY <1>4, <1>5, <2>1, <4>1
      <3> QED
        BY <3>1, <3>2
    <2>2. CASE ~(s = r /\ k = key)
      <3>1. k \in DOMAIN cache[s] /\ cache'[s][k] = cache[s][k]
        BY <1>4, <2>2
      <3>2. k \in Keys
        BY <3>1 DEF Typed, CacheOK
      <3>3. k \in excused'[s] <=> k \in excused[s]
        BY <1>4, <2>2, <3>2
      <3>4. k \in excused[s] \cup Pending(s) \/ cache[s][k].value = Query(k)
        BY <3>1 DEF Agreeing
      <3>5. k \in Pending(s) => k \in Pending(s)'
        BY <1>1, <1>2, PendingStays
      <3> QED
        BY <1>5, <3>1, <3>3, <3>4, <3>5
    <2> QED
      BY <2>1, <2>2
  <1>7. ASSUME NEW p \in Requests, NEW k \in Keys, At(p, "fill")', k = Key(p)', ~req'[p].raced
        PROVE  req'[p].value = Query(k)'
    <2>1. p # q
      BY <1>2, <1>7
    <2>2. req'[p] = req[p]
      BY <1>1, <2>1 DEF Others
    <2>3. At(p, "fill") /\ k = Key(p)
      BY <1>7, <2>2 DEF At, Key
    <2>4. req[p].value = Query(k)
      BY <1>7, <2>2, <2>3 DEF Agreeing
    <2> QED
      BY <1>5, <2>2, <2>4
  <1> QED
    BY <1>6, <1>7 DEF Agreeing

LEMMA AgreeingClear ==
    ASSUME Typed, Agreeing, NEW q \in Requests, ClearStep(q)
    PROVE  Agreeing'
  <1>0. PICK r \in Replicas : r = req[q].rep
    BY DEF ClearStep, JobOK
  <1>1. PICK keys : keys = Invalidated(req[q].body)
    OBVIOUS
  <1>2. /\ Others(q) /\ req'[q] = Idle /\ UNCHANGED <<groups, labels>>
        /\ \A s \in Replicas \ {r} : cache'[s] = cache[s] /\ excused'[s] = excused[s]
        /\ DOMAIN cache'[r] = DOMAIN cache[r] \ keys /\ excused'[r] = excused[r] \ keys
        /\ \A k \in DOMAIN cache'[r] : cache'[r][k] = cache[r][k]
    BY <1>0, <1>1 DEF ClearStep, tables
  <1>3. \A k : Query(k)' = Query(k)
    BY <1>2 DEF Query, ListVisibleGroups, ListCategories, ListTags, Owned
  <1>4. ASSUME NEW s \in Replicas, NEW k \in DOMAIN cache'[s]
        PROVE  k \in excused'[s] \cup Pending(s)' \/ cache'[s][k].value = Query(k)'
    <2>1. /\ k \in DOMAIN cache[s] /\ cache'[s][k] = cache[s][k]
          /\ s = r => k \notin keys
      BY <1>2
    <2>2. k \in excused[s] \cup Pending(s) \/ cache[s][k].value = Query(k)
      BY <2>1 DEF Agreeing
    <2>3. k \in excused[s] => k \in excused'[s]
      BY <1>2, <2>1
    <2>4. ASSUME k \in Pending(s) PROVE k \in Pending(s)'
      <3>1. PICK p \in Requests : At(p, "clear") /\ req[p].rep = s /\ k \in Invalidated(req[p].body)
        BY <2>4, PendingIs
      <3>2. p # q
        BY <1>0, <1>1, <2>1, <3>1
      <3>3. req'[p] = req[p]
        BY <1>2, <3>2 DEF Others
      <3>4. At(p, "clear")'
        BY <3>1, <3>3 DEF At
      <3> QED
        BY <3>1, <3>3, <3>4, NextPendingIs
    <2> QED
      BY <1>3, <2>1, <2>2, <2>3, <2>4
  <1>5. ASSUME NEW p \in Requests, NEW k \in Keys, At(p, "fill")', k = Key(p)', ~req'[p].raced
        PROVE  req'[p].value = Query(k)'
    <2>1. p # q
      BY <1>2, <1>5, NotAt
    <2>2. req'[p] = req[p]
      BY <1>2, <2>1 DEF Others
    <2>3. At(p, "fill") /\ k = Key(p)
      BY <1>5, <2>2 DEF At, Key
    <2>4. req[p].value = Query(k)
      BY <1>5, <2>2, <2>3 DEF Agreeing
    <2> QED
      BY <1>3, <2>2, <2>4
  <1> QED
    BY <1>4, <1>5 DEF Agreeing

LEMMA AgreeingCommit ==
    ASSUME Typed, Agreeing, NEW q \in Requests, Changed(q), CommitStep(q)
    PROVE  Agreeing'
  <1>0. PICK r \in Replicas : r = req[q].rep
    BY DEF Changed, JobOK
  <1>1. PICK keys : keys = Invalidated(req[q].body)
    OBVIOUS
  <1>2. /\ UNCHANGED cache /\ \A k \in Keys : k \in keys \/ Query(k)' = Query(k)
        /\ req[q].pc = "write"
    BY <1>1 DEF Changed
  <1>3. /\ \A p \in Requests \ {q} : Marked(p, keys)
        /\ \/ req'[q] = Idle /\ \A s \in Replicas : excused'[s] = excused[s] \cup keys
           \/ /\ JobOK(req'[q]) /\ req'[q].pc = "clear" /\ req'[q].body = req[q].body /\ req'[q].rep = r
              /\ excused'[r] = excused[r]
              /\ \A s \in Replicas \ {r} : excused'[s] = excused[s] \cup keys
    BY <1>0, <1>1 DEF CommitStep
  <1>4. ~At(q, "clear") /\ ~At(q, "fill")'
    <2>1. ~At(q, "fill")'
      BY <1>3, NotAt
    <2> QED
      BY <1>2, <2>1, NowhereElse
  <1>5. ASSUME NEW s \in Replicas PROVE excused[s] \subseteq excused'[s]
    BY <1>3
  <1>6. ASSUME NEW s \in Replicas, NEW k \in Pending(s) PROVE k \in Pending(s)'
    <2>1. PICK p \in Requests : At(p, "clear") /\ req[p].rep = s /\ k \in Invalidated(req[p].body)
      BY PendingIs
    <2>2. p # q /\ ~Race(p, keys)
      BY <1>4, <2>1 DEF Race, At
    <2>3. req'[p] = req[p]
      BY <1>3, <2>2 DEF Marked
    <2>4. At(p, "clear")'
      BY <2>1, <2>3 DEF At
    <2> QED
      BY <2>1, <2>3, <2>4, NextPendingIs
  <1>7. ASSUME NEW s \in Replicas, NEW k \in keys PROVE k \in excused'[s] \cup Pending(s)'
    <2>1. CASE \A t \in Replicas : excused'[t] = excused[t] \cup keys
      BY <1>7, <2>1
    <2>2. CASE /\ JobOK(req'[q]) /\ req'[q].pc = "clear" /\ req'[q].body = req[q].body /\ req'[q].rep = r
               /\ \A t \in Replicas \ {r} : excused'[t] = excused[t] \cup keys
      <3>1. req'[q].op # "idle"
        BY <2>2, IdleOrBusy DEF Typed
      <3>2. At(q, "clear")'
        BY <2>2, <3>1 DEF At
      <3>3. k \in Pending(r)'
        BY <1>1, <1>7, <2>2, <3>2, NextPendingIs
      <3> QED
        BY <1>7, <2>2, <3>3
    <2> QED
      BY <1>3, <2>1, <2>2
  <1>8. ASSUME NEW s \in Replicas, NEW k \in DOMAIN cache'[s]
        PROVE  k \in excused'[s] \cup Pending(s)' \/ cache'[s][k].value = Query(k)'
    <2>1. k \in Keys /\ cache'[s][k] = cache[s][k] /\ k \in DOMAIN cache[s]
      BY <1>2, <1>8 DEF Typed, CacheOK
    <2>2. CASE k \in keys
      BY <1>7, <2>2
    <2>3. CASE k \notin keys
      <3>1. k \in excused[s] \cup Pending(s) \/ cache[s][k].value = Query(k)
        BY <2>1 DEF Agreeing
      <3>2. Query(k)' = Query(k)
        BY <1>2, <2>1, <2>3
      <3> QED
        BY <1>5, <1>6, <2>1, <3>1, <3>2
    <2> QED
      BY <2>2, <2>3
  <1>9. ASSUME NEW p \in Requests, NEW k \in Keys, At(p, "fill")', k = Key(p)', ~req'[p].raced
        PROVE  req'[p].value = Query(k)'
    <2>1. p # q
      BY <1>4, <1>9
    <2>2. req'[p] = req[p] /\ ~Race(p, keys)
      BY <1>3, <1>9, <2>1 DEF Marked
    <2>3. At(p, "fill") /\ k = Key(p)
      BY <1>9, <2>2 DEF At, Key
    <2>4. k \notin keys
      BY <2>2, <2>3 DEF Race, At
    <2>5. req[p].value = Query(k)
      BY <1>9, <2>2, <2>3 DEF Agreeing
    <2> QED
      BY <1>2, <2>2, <2>4, <2>5
  <1> QED
    BY <1>8, <1>9 DEF Agreeing

LEMMA AgreeingOther ==
    ASSUME Typed, Agreeing, OtherStep
    PROVE  Agreeing'
  <1>1. UNCHANGED <<groups, labels>>
    BY DEF OtherStep, Deliver, Restart, Tick, vars, tables
  <1>2. \A k : Query(k)' = Query(k)
    BY <1>1 DEF Query, ListVisibleGroups, ListCategories, ListTags, Owned
  <1>3. CASE UNCHANGED <<req, cache, excused>>
    <2>1. \A s \in Replicas : Pending(s)' = Pending(s)
      BY <1>3 DEF Pending, At, Invalidated
    <2>2. \A p \in Requests : (At(p, "fill")' <=> At(p, "fill")) /\ Key(p)' = Key(p)
      BY <1>3 DEF At, Key
    <2> QED
      BY <1>2, <1>3, <2>1, <2>2 DEF Agreeing
  <1>4. ASSUME NEW r \in Replicas, Restart(r) PROVE Agreeing'
    <2>1. /\ cache' = [cache EXCEPT ![r] = <<>>] /\ excused' = [excused EXCEPT ![r] = {}]
          /\ req' = [q \in Requests |-> IF q \in Busy /\ req[q].rep = r THEN Idle ELSE req[q]]
      BY <1>4 DEF Restart
    <2>2. /\ \A s \in Replicas \ {r} : cache'[s] = cache[s] /\ excused'[s] = excused[s]
          /\ DOMAIN cache'[r] = {}
      BY <2>1 DEF Typed, CacheOK
    <2>3. ASSUME NEW s \in Replicas, NEW k \in DOMAIN cache'[s]
          PROVE  k \in excused'[s] \cup Pending(s)' \/ cache'[s][k].value = Query(k)'
      <3>1. s # r /\ cache'[s] = cache[s] /\ excused'[s] = excused[s]
        BY <2>2, <2>3
      <3>2. k \in excused[s] \cup Pending(s) \/ cache[s][k].value = Query(k)
        BY <2>3, <3>1 DEF Agreeing
      <3>3. ASSUME k \in Pending(s) PROVE k \in Pending(s)'
        <4>1. PICK p \in Requests : At(p, "clear") /\ req[p].rep = s /\ k \in Invalidated(req[p].body)
          BY <3>3, PendingIs
        <4>2. req'[p] = req[p]
          BY <2>1, <3>1, <4>1
        <4>3. At(p, "clear")'
          BY <4>1, <4>2 DEF At
        <4> QED
          BY <4>1, <4>2, <4>3, NextPendingIs
      <3> QED
        BY <1>2, <3>1, <3>2, <3>3
    <2>4. ASSUME NEW p \in Requests, NEW k \in Keys, At(p, "fill")', k = Key(p)', ~req'[p].raced
          PROVE  req'[p].value = Query(k)'
      <3>1. req'[p] # Idle
        BY <2>4, NotAt
      <3>2. req'[p] = req[p]
        BY <2>1, <3>1
      <3>3. At(p, "fill") /\ k = Key(p)
        BY <2>4, <3>2 DEF At, Key
      <3>4. req[p].value = Query(k)
        BY <2>4, <3>2, <3>3 DEF Agreeing
      <3> QED
        BY <1>2, <3>2, <3>4
    <2> QED
      BY <2>3, <2>4 DEF Agreeing
  <1>5. CASE (\E x \in Expenses : Deliver(x)) \/ Tick \/ UNCHANGED vars
    <2>1. UNCHANGED <<req, cache, excused>>
      BY <1>5 DEF Deliver, Tick, vars
    <2> QED
      BY <1>3, <2>1
  <1> QED
    BY <1>4, <1>5 DEF OtherStep

(* Where a replica's own writes are the only ones and no fill raced them, an *)
(* unexpired list is what the database would answer now                      *)
(* (cached.TaxonomyRepository, cached.GroupRepository, cache.Invalidate).    *)
THEOREM ListsServeStored == Spec => []ListsCoherent
  <1>1. Init => CoherenceInv
    BY TypedInit, AgreeingInit DEF CoherenceInv
  <1>2. CoherenceInv /\ [Next]_vars => CoherenceInv'
    <2> SUFFICES ASSUME Typed, Agreeing, [Next]_vars PROVE CoherenceInv'
      BY DEF CoherenceInv
    <2>1. Typed'
      BY TypedStep
    <2>2. Agreeing'
      BY StepKinds, AgreeingRead, AgreeingFill, AgreeingClear, AgreeingCommit, AgreeingOther
      DEF RequestStep
    <2> QED
      BY <2>1, <2>2 DEF CoherenceInv
  <1>3. CoherenceInv => ListsCoherent
    BY AgreeingGives DEF CoherenceInv
  <1> QED
    BY <1>1, <1>2, <1>3, PTL DEF Spec

-----------------------------------------------------------------------------
(* Revocation. *)

LEMMA Bounds == TTL \in Nat /\ MaxLag \in Nat /\ TTL + MaxLag \in Nat
  BY SharingAssumption

(* At time n the groups become hs, and who loses sight of one is noted. *)
Noted(gs, hs, ls, ks, n) ==
    /\ n \in Nat /\ ls \in [Users -> [Groups -> Nat]] /\ ks \in [Users -> [Groups -> Nat]]
    /\ \A u \in Users, g \in Groups :
          ks[u][g] = IF Sees(gs, u, g) /\ ~Sees(hs, u, g) THEN n ELSE ls[u][g]

(* What was seen recently stays so when the groups change. *)
LEMMA SeenStays ==
    ASSUME NEW n, NEW gs, NEW hs, NEW ls, NEW ks, Noted(gs, hs, ls, ks, n)
    PROVE  \A u \in Users, g \in Groups, t \in Nat, age \in Nat :
              t <= n + age /\ SeenSince(gs, ls, u, g, t, age) => SeenSince(hs, ks, u, g, t, age)
  <1> SUFFICES ASSUME NEW u \in Users, NEW g \in Groups, NEW t \in Nat, NEW age \in Nat,
                      t <= n + age, SeenSince(gs, ls, u, g, t, age)
               PROVE  SeenSince(hs, ks, u, g, t, age)
    OBVIOUS
  <1>1. /\ n \in Nat /\ ls[u][g] \in Nat /\ ks[u][g] \in Nat
        /\ ks[u][g] = IF Sees(gs, u, g) /\ ~Sees(hs, u, g) THEN n ELSE ls[u][g]
    BY DEF Noted
  <1>2. CASE Sees(hs, u, g)
    BY <1>2 DEF SeenSince
  <1>3. CASE ~Sees(hs, u, g) /\ Sees(gs, u, g)
    <2>1. ks[u][g] = n
      BY <1>1, <1>3
    <2> QED
      BY <2>1 DEF SeenSince
  <1>4. CASE ~Sees(hs, u, g) /\ ~Sees(gs, u, g)
    <2>1. ks[u][g] = ls[u][g]
      BY <1>1, <1>4
    <2> QED
      BY <1>4, <2>1 DEF SeenSince
  <1> QED
    BY <1>2, <1>3, <1>4

LEMMA GroupKey ==
    ASSUME NEW key \in Keys, key[1] = "groups"
    PROVE  key[2] \in Users /\ Allowed(key) = Groups
  <1>1. PICK u \in Users : key[2] = u
    BY DEF Keys
  <1>2. key = <<"groups", u>>
    BY <1>1 DEF Keys
  <1>3. Allowed(<<"groups", u>>) = Groups
    BY AllowedIs
  <1> QED
    BY <1>1, <1>2, <1>3

LEMMA EntryStays ==
    ASSUME NEW n, NEW gs, NEW hs, NEW ls, NEW ks, Noted(gs, hs, ls, ks, n),
           NEW key \in Keys, NEW e, EntryOK(key, e), EntryRecent(gs, ls, n, key, e)
    PROVE  EntryRecent(hs, ks, n, key, e)
  <1>1. ASSUME key[1] = "groups", NEW g \in DOMAIN e.value
        PROVE  SeenSince(hs, ks, key[2], g, e.expiresAt, TTL + MaxLag)
    <2>1. key[2] \in Users /\ Allowed(key) = Groups
      BY <1>1, GroupKey
    <2>2. PICK u \in Users : u = key[2]
      BY <2>1
    <2>3. g \in Groups
      BY <2>1 DEF EntryOK
    <2>4. PICK t \in Nat : t = e.expiresAt
      BY DEF EntryOK
    <2>5. PICK age \in Nat : age = TTL + MaxLag
      BY Bounds
    <2>6. t <= n + age
      BY <2>4, <2>5, Bounds DEF EntryRecent, Noted
    <2>7. SeenSince(gs, ls, u, g, t, age)
      BY <1>1, <2>2, <2>4, <2>5 DEF EntryRecent
    <2>8. SeenSince(hs, ks, u, g, t, age)
      BY <2>3, <2>6, <2>7, SeenStays
    <2> QED
      BY <2>2, <2>4, <2>5, <2>8
  <1> QED
    BY <1>1 DEF EntryRecent

LEMMA JobStays ==
    ASSUME NEW n, NEW gs, NEW hs, NEW ls, NEW ks, Noted(gs, hs, ls, ks, n),
           NEW j, JobOK(j), JobRecent(gs, ls, n, j)
    PROVE  JobRecent(hs, ks, n, j)
  <1>1. PICK u \in Users : u = j.body.by
    BY DEF JobOK, BodyOK, Bodies
  <1>2. PICK t \in Nat : t = j.began
    BY DEF JobOK
  <1>3. PICK age \in Nat : age = TTL + MaxLag
    BY Bounds
  <1>4. t <= n /\ n \in Nat /\ t <= n + age /\ t <= n + 0
    BY <1>2 DEF JobRecent, Noted
  <1>5. ASSUME j.pc = "fill", Head(j.needs) = "groups", NEW g \in DOMAIN j.value
        PROVE  SeenSince(hs, ks, j.body.by, g, j.began, 0)
    <2>1. DOMAIN j.value \subseteq Allowed(<<"groups", u>>)
      BY <1>1, <1>5 DEF JobOK
    <2>2. g \in Groups
      BY <2>1, AllowedIs
    <2>3. SeenSince(gs, ls, u, g, t, 0)
      BY <1>1, <1>2, <1>5 DEF JobRecent
    <2>4. SeenSince(hs, ks, u, g, t, 0)
      BY <1>4, <2>2, <2>3, SeenStays
    <2> QED
      BY <1>1, <1>2, <2>4
  <1>6. ASSUME NEW g \in j.seen PROVE SeenSince(hs, ks, j.body.by, g, j.began, TTL + MaxLag)
    <2>1. g \in Groups
      BY DEF JobOK
    <2>2. SeenSince(gs, ls, u, g, t, age)
      BY <1>1, <1>2, <1>3 DEF JobRecent
    <2>3. SeenSince(hs, ks, u, g, t, age)
      BY <1>4, <2>1, <2>2, SeenStays
    <2> QED
      BY <1>1, <1>2, <1>3, <2>3
  <1> QED
    BY <1>5, <1>6 DEF JobRecent

(* What a request relies on was seen recently enough. *)
LEMMA AgeBounded ==
    ASSUME Typed, Recent, NEW q \in Requests, JobOK(req[q]), NEW g \in req[q].seen
    PROVE  Age(req[q].body.by, g) \in 0 .. TTL + 2 * MaxLag
  <1>1. PICK u \in Users : u = req[q].body.by
    BY DEF JobOK, BodyOK, Bodies
  <1>2. g \in Groups
    BY DEF JobOK
  <1>3. req[q] # Idle
    BY IdleOrBusy DEF Typed
  <1>4. PICK t \in Nat : t = req[q].began
    BY DEF JobOK
  <1>5. t <= now /\ now <= t + MaxLag /\ SeenSince(groups, lost, u, g, t, TTL + MaxLag)
    BY <1>1, <1>3, <1>4 DEF Recent, JobRecent
  <1>6. lost[u][g] \in Nat /\ lost[u][g] <= now /\ now \in Nat
    BY <1>2 DEF Typed, TablesOK, Recent
  <1>7. CASE Sees(groups, u, g)
    <2>1. Age(u, g) = 0
      BY <1>7 DEF Age
    <2> QED
      BY <1>1, <2>1, Bounds
  <1>8. CASE ~Sees(groups, u, g)
    <2>1. Age(u, g) = now - lost[u][g]
      BY <1>8 DEF Age
    <2>2. lost[u][g] + (TTL + MaxLag) >= t
      BY <1>5, <1>8 DEF SeenSince
    <2>3. now - lost[u][g] \in 0 .. TTL + 2 * MaxLag
      BY <1>5, <1>6, <2>2, Bounds
    <2> QED
      BY <1>1, <2>1, <2>3
  <1> QED
    BY <1>7, <1>8

LEMMA RecentInit == Init => Recent /\ RevocationBounded
  <1> SUFFICES ASSUME Init PROVE Recent /\ RevocationBounded
    OBVIOUS
  <1>1. /\ cache = [r \in Replicas |-> <<>>] /\ req = [q \in Requests |-> Idle]
        /\ lost = [u \in Users |-> [g \in Groups |-> now]] /\ staleness = 0
    BY DEF Init
  <1>2. now \in Nat
    BY TypedInit DEF Typed, TablesOK
  <1>3. \A r \in Replicas : DOMAIN cache[r] = {}
    BY <1>1
  <1>4. \A u \in Users, g \in Groups : lost[u][g] <= now
    BY <1>1, <1>2
  <1>5. \A q \in Requests : req[q] = Idle
    BY <1>1
  <1> QED
    BY <1>1, <1>3, <1>4, <1>5, Bounds DEF Recent, RevocationBounded

(* One request goes on, and no list, no group and no time changes. *)
LEMMA RecentFrame ==
    ASSUME Recent, NEW q \in Requests, Others(q), UNCHANGED <<now, groups, lost, cache>>,
           req'[q] = Idle \/ JobRecent(groups, lost, now, req'[q])
    PROVE  Recent'
  <1>1. ASSUME NEW p \in Requests, req'[p] # Idle PROVE JobRecent(groups', lost', now', req'[p])
    <2>1. CASE p = q
      BY <1>1, <2>1
    <2>2. CASE p # q
      <3>1. req'[p] = req[p]
        BY <2>2 DEF Others
      <3> QED
        BY <1>1, <3>1 DEF Recent
    <2> QED
      BY <2>1, <2>2
  <1> QED
    BY <1>1 DEF Recent

LEMMA RecentJob ==
    ASSUME Recent, NEW q \in Requests, JobOK(req[q]), Typed
    PROVE  JobRecent(groups, lost, now, req[q])
  BY IdleOrBusy DEF Recent, Typed

(* A list that was good when it was used makes its groups recent ones. *)
LEMMA RecentOnward ==
    ASSUME Typed, Recent, NEW q \in Requests, JobOK(req[q]), NEW value, NEW k,
           GoesOn(req[q], value, k), k # Idle,
           Head(req[q].needs) = "groups" => \A g \in DOMAIN value :
              SeenSince(groups, lost, req[q].body.by, g, req[q].began, TTL + MaxLag)
    PROVE  JobRecent(groups, lost, now, k)
  <1>1. JobRecent(groups, lost, now, req[q])
    BY RecentJob
  <1>2. /\ k.body = req[q].body /\ k.began = req[q].began /\ k.pc # "fill"
        /\ k.seen = IF Head(req[q].needs) = "groups" THEN DOMAIN value ELSE req[q].seen
    BY DEF GoesOn
  <1>3. \A g \in k.seen : SeenSince(groups, lost, k.body.by, g, k.began, TTL + MaxLag)
    BY <1>1, <1>2 DEF JobRecent
  <1> QED
    BY <1>1, <1>2, <1>3 DEF JobRecent

LEMMA RecentHit ==
    ASSUME Typed, Recent, NEW q \in Requests, HitStep(q)
    PROVE  Recent'
  <1>1. PICK r \in Replicas : r = req[q].rep
    BY DEF HitStep, JobOK
  <1>2. PICK key \in Keys : /\ key = Key(q)
                            /\ key[1] = Head(req[q].needs) /\ key[2] = req[q].body.by
    BY KeyOf DEF HitStep
  <1>3. PICK e : e = cache[r][key]
    OBVIOUS
  <1>4. /\ JobOK(req[q]) /\ key \in DOMAIN cache[r] /\ now <= e.expiresAt
        /\ Others(q) /\ GoesOn(req[q], e.value, req'[q])
        /\ UNCHANGED <<now, groups, lost, cache>>
    BY <1>1, <1>2, <1>3 DEF HitStep, tables
  <1>5. EntryRecent(groups, lost, now, key, e) /\ EntryOK(key, e)
    BY <1>3, <1>4 DEF Recent, Typed, CacheOK
  <1>6. JobRecent(groups, lost, now, req[q])
    BY <1>4, RecentJob
  <1>7. ASSUME Head(req[q].needs) = "groups", NEW g \in DOMAIN e.value
        PROVE  SeenSince(groups, lost, req[q].body.by, g, req[q].began, TTL + MaxLag)
    <2>1. PICK u \in Users : u = req[q].body.by
      BY <1>4 DEF JobOK, BodyOK, Bodies
    <2>2. g \in Groups
      BY <1>2, <1>5, <1>7, GroupKey DEF EntryOK
    <2>3. SeenSince(groups, lost, u, g, e.expiresAt, TTL + MaxLag)
      BY <1>2, <1>5, <1>7, <2>1 DEF EntryRecent
    <2>4. PICK t \in Nat : t = req[q].began
      BY <1>4 DEF JobOK
    <2>5. PICK x \in Nat : x = e.expiresAt
      BY <1>5 DEF EntryOK
    <2>6. t <= x
      BY <1>4, <1>6, <2>4, <2>5 DEF JobRecent, Typed, TablesOK
    <2>7. lost[u][g] \in Nat
      BY <2>2 DEF Typed, TablesOK
    <2>8. SeenSince(groups, lost, u, g, t, TTL + MaxLag)
      BY <2>3, <2>5, <2>6, <2>7, Bounds DEF SeenSince
    <2> QED
      BY <2>1, <2>4, <2>8
  <1>8. req'[q] = Idle \/ JobRecent(groups, lost, now, req'[q])
    BY <1>4, <1>7, RecentOnward
  <1> QED
    BY <1>4, <1>8, RecentFrame

LEMMA RecentMiss ==
    ASSUME Typed, Recent, NEW q \in Requests, MissStep(q)
    PROVE  Recent'
  <1>1. /\ JobOK(req[q]) /\ Others(q) /\ UNCHANGED <<now, groups, lost, cache>>
        /\ req'[q].body = req[q].body /\ req'[q].began = req[q].began /\ req'[q].seen = req[q].seen
        /\ req'[q].needs = req[q].needs /\ req'[q].value = Query(Key(q))
    BY DEF MissStep, tables
  <1>2. PICK key \in Keys : /\ key = Key(q)
                            /\ key[1] = Head(req[q].needs) /\ key[2] = req[q].body.by
    BY KeyOf DEF MissStep
  <1>3. JobRecent(groups, lost, now, req[q])
    BY <1>1, RecentJob
  <1>4. ASSUME Head(req[q].needs) = "groups", NEW g \in DOMAIN req'[q].value
        PROVE  SeenSince(groups, lost, req[q].body.by, g, req[q].began, 0)
    <2>1. Query(key) = ListVisibleGroups(key[2])
      BY <1>2, <1>4 DEF Query
    <2>2. g \in DOMAIN ListVisibleGroups(key[2])
      BY <1>1, <1>2, <1>4, <2>1
    <2>3. Sees(groups, key[2], g)
      BY <2>2 DEF ListVisibleGroups
    <2> QED
      BY <1>2, <2>3 DEF SeenSince
  <1>5. JobRecent(groups, lost, now, req'[q])
    BY <1>1, <1>3, <1>4 DEF JobRecent
  <1> QED
    BY <1>1, <1>5, RecentFrame

LEMMA RecentFill ==
    ASSUME Typed, Recent, NEW q \in Requests, FillStep(q)
    PROVE  Recent'
  <1>1. PICK r \in Replicas : r = req[q].rep
    BY DEF FillStep, JobOK
  <1>2. PICK key \in Keys : /\ key = Key(q)
                            /\ key[1] = Head(req[q].needs) /\ key[2] = req[q].body.by
    BY KeyOf DEF FillStep
  <1>3. /\ JobOK(req[q]) /\ req[q].pc = "fill" /\ Others(q)
        /\ GoesOn(req[q], req[q].value, req'[q])
        /\ \A s \in Replicas \ {r} : cache'[s] = cache[s]
        /\ DOMAIN cache'[r] = DOMAIN cache[r] \cup {key}
        /\ cache'[r][key].value = req[q].value /\ cache'[r][key].expiresAt = now + TTL
        /\ \A k \in DOMAIN cache[r] : k # key => cache'[r][k] = cache[r][k]
        /\ UNCHANGED <<now, groups, lost>>
    BY <1>1, <1>2 DEF FillStep, tables
  <1>4. JobRecent(groups, lost, now, req[q])
    BY <1>3, RecentJob
  <1>5. PICK t \in Nat : t = req[q].began
    BY <1>3 DEF JobOK
  <1>6. PICK u \in Users : u = req[q].body.by
    BY <1>3 DEF JobOK, BodyOK, Bodies
  <1>7. t <= now /\ now <= t + MaxLag /\ now \in Nat
    BY <1>4, <1>5 DEF JobRecent, Typed, TablesOK
  <1>8. ASSUME Head(req[q].needs) = "groups", NEW g \in DOMAIN req[q].value
        PROVE  /\ SeenSince(groups, lost, u, g, t, TTL + MaxLag)
               /\ SeenSince(groups, lost, u, g, now + TTL, TTL + MaxLag)
    <2>1. SeenSince(groups, lost, u, g, t, 0)
      BY <1>3, <1>4, <1>5, <1>6, <1>8 DEF JobRecent
    <2>2. DOMAIN req[q].value \subseteq Allowed(<<"groups", u>>)
      BY <1>3, <1>6, <1>8 DEF JobOK
    <2>3. g \in Groups
      BY <2>2, AllowedIs
    <2>4. lost[u][g] \in Nat
      BY <2>3 DEF Typed, TablesOK
    <2> QED
      BY <1>7, <2>1, <2>4, Bounds DEF SeenSince
  <1>9. ASSUME NEW s \in Replicas, NEW k \in DOMAIN cache'[s]
        PROVE  EntryRecent(groups, lost, now, k, cache'[s][k])
    <2>1. CASE s = r /\ k = key
      <3>1. cache'[s][k].value = req[q].value /\ cache'[s][k].expiresAt = now + TTL
        BY <1>3, <2>1
      <3>2. now + TTL <= now + TTL
        BY <1>7, Bounds
      <3>3. key[1] = "groups" => \A g \in DOMAIN req[q].value :
               SeenSince(groups, lost, key[2], g, now + TTL, TTL + MaxLag)
        BY <1>2, <1>6, <1>8
      <3> QED
        BY <2>1, <3>1, <3>2, <3>3 DEF EntryRecent
    <2>2. CASE ~(s = r /\ k = key)
      <3>1. k \in DOMAIN cache[s] /\ cache'[s][k] = cache[s][k]
        BY <1>3, <1>9, <2>2
      <3> QED
        BY <3>1 DEF Recent
    <2> QED
      BY <2>1, <2>2
  <1>10. req'[q] = Idle \/ JobRecent(groups, lost, now, req'[q])
    BY <1>3, <1>5, <1>6, <1>8, RecentOnward
  <1>11. ASSUME NEW p \in Requests, req'[p] # Idle PROVE JobRecent(groups, lost, now, req'[p])
    <2>1. CASE p = q
      BY <1>10, <1>11, <2>1
    <2>2. CASE p # q
      <3>1. req'[p] = req[p]
        BY <1>3, <2>2 DEF Others
      <3> QED
        BY <1>11, <3>1 DEF Recent
    <2> QED
      BY <2>1, <2>2
  <1> QED
    BY <1>3, <1>9, <1>11 DEF Recent

LEMMA RecentArrived ==
    ASSUME Typed, Recent, NEW q \in Requests, Arrived(q)
    PROVE  Recent'
  <1>1. /\ Others(q) /\ req'[q].began = now /\ req'[q].seen = {} /\ req'[q].pc # "fill"
        /\ UNCHANGED <<now, groups, lost, cache>>
    BY DEF Arrived, tables
  <1>2. now \in Nat
    BY DEF Typed, TablesOK
  <1>3. JobRecent(groups, lost, now, req'[q])
    BY <1>1, <1>2, Bounds DEF JobRecent
  <1> QED
    BY <1>1, <1>3, RecentFrame

LEMMA RecentEnd ==
    ASSUME Recent, NEW q \in Requests,
           SaveStep(q) \/ DeleteStep(q) \/ Ended(q) \/ Answered(q)
    PROVE  Recent'
  <1>1. Others(q) /\ req'[q] = Idle /\ UNCHANGED <<now, groups, lost, cache>>
    BY DEF SaveStep, DeleteStep, Ended, Answered, tables
  <1> QED
    BY <1>1, RecentFrame

LEMMA RecentClear ==
    ASSUME Recent, NEW q \in Requests, ClearStep(q)
    PROVE  Recent'
  <1>1. PICK r \in Replicas : r = req[q].rep
    BY DEF ClearStep, JobOK
  <1>2. /\ Others(q) /\ req'[q] = Idle /\ UNCHANGED <<now, groups, lost>>
        /\ \A s \in Replicas \ {r} : cache'[s] = cache[s]
        /\ DOMAIN cache'[r] \subseteq DOMAIN cache[r]
        /\ \A k \in DOMAIN cache'[r] : cache'[r][k] = cache[r][k]
    BY <1>1 DEF ClearStep, tables
  <1>3. ASSUME NEW s \in Replicas, NEW k \in DOMAIN cache'[s]
        PROVE  EntryRecent(groups, lost, now, k, cache'[s][k])
    <2>1. k \in DOMAIN cache[s] /\ cache'[s][k] = cache[s][k]
      BY <1>2, <1>3
    <2> QED
      BY <2>1 DEF Recent
  <1>4. ASSUME NEW p \in Requests, req'[p] # Idle PROVE JobRecent(groups, lost, now, req'[p])
    <2>1. req'[p] = req[p]
      BY <1>2, <1>4 DEF Others
    <2> QED
      BY <1>4, <2>1 DEF Recent
  <1> QED
    BY <1>2, <1>3, <1>4 DEF Recent

LEMMA RecentCommit ==
    ASSUME Typed, Recent, NEW q \in Requests, Changed(q), CommitStep(q)
    PROVE  Recent'
  <1>1. UNCHANGED <<now, cache>> /\ now \in Nat
    BY DEF Changed, Typed, TablesOK
  <1>2. PICK hs : hs = groups'
    OBVIOUS
  <1>3. PICK ks : ks = lost'
    OBVIOUS
  <1>4. \A u \in Users, g \in Groups :
           ks[u][g] = IF Sees(groups, u, g) /\ ~Sees(hs, u, g) THEN now ELSE lost[u][g]
    BY <1>2, <1>3 DEF CommitStep, Sees
  <1>5. ks \in [Users -> [Groups -> Nat]] /\ lost \in [Users -> [Groups -> Nat]]
    BY <1>3 DEF CommitStep, Typed, TablesOK
  <1>6. Noted(groups, hs, lost, ks, now)
    BY <1>1, <1>4, <1>5 DEF Noted
  <1>7. \A u \in Users, g \in Groups : ks[u][g] <= now
    <2> TAKE u \in Users, g \in Groups
    <2>1. lost[u][g] <= now
      BY DEF Recent
    <2> QED
      BY <1>1, <1>4, <2>1
  <1>8. ASSUME NEW s \in Replicas, NEW k \in DOMAIN cache[s]
        PROVE  EntryRecent(hs, ks, now, k, cache[s][k])
    <2>1. k \in Keys /\ EntryOK(k, cache[s][k]) /\ EntryRecent(groups, lost, now, k, cache[s][k])
      BY <1>8 DEF Typed, CacheOK, Recent
    <2> QED
      BY <1>6, <2>1, EntryStays
  <1>9. \A p \in Requests : JobOK(req[p]) => JobRecent(hs, ks, now, req[p])
    BY <1>6, RecentJob, JobStays
  <1>10. ASSUME NEW p \in Requests, req'[p] # Idle PROVE JobRecent(hs, ks, now, req'[p])
    <2>1. CASE p = q
      <3>1. /\ JobOK(req[q]) /\ req'[q].pc = "clear" /\ req'[q].body = req[q].body
            /\ req'[q].began = req[q].began /\ req'[q].seen = req[q].seen
        BY <1>10, <2>1 DEF Changed, CommitStep
      <3>2. JobRecent(hs, ks, now, req[q])
        BY <1>9, <3>1
      <3> QED
        BY <2>1, <3>1, <3>2 DEF JobRecent
    <2>2. CASE p # q
      <3>1. \/ req'[p] = req[p]
            \/ /\ req[p].op # "idle"
               /\ req'[p].began = req[p].began /\ req'[p].body = req[p].body
               /\ req'[p].needs = req[p].needs /\ req'[p].value = req[p].value
               /\ req'[p].pc = req[p].pc /\ req'[p].seen = req[p].seen
        BY <2>2 DEF CommitStep, Marked, Race
      <3>2. JobOK(req[p])
        BY <1>10, <3>1, IdleOrBusy DEF Typed, RequestsOK
      <3>3. JobRecent(hs, ks, now, req[p])
        BY <1>9, <3>2
      <3> QED
        BY <3>1, <3>3 DEF JobRecent
    <2> QED
      BY <2>1, <2>2
  <1> QED
    BY <1>1, <1>2, <1>3, <1>7, <1>8, <1>10 DEF Recent

LEMMA RecentOther ==
    ASSUME Typed, Recent, OtherStep
    PROVE  Recent'
  <1>1. UNCHANGED <<groups, lost>> /\ now \in Nat
    BY DEF OtherStep, Deliver, Restart, Tick, vars, tables, Typed, TablesOK
  <1>2. CASE UNCHANGED <<now, req, cache>>
    BY <1>1, <1>2 DEF Recent
  <1>3. ASSUME NEW r \in Replicas, Restart(r) PROVE Recent'
    <2>1. /\ cache' = [cache EXCEPT ![r] = <<>>] /\ UNCHANGED now
          /\ req' = [q \in Requests |-> IF q \in Busy /\ req[q].rep = r THEN Idle ELSE req[q]]
      BY <1>3 DEF Restart
    <2>2. /\ \A s \in Replicas \ {r} : cache'[s] = cache[s]
          /\ DOMAIN cache'[r] = {}
      BY <2>1 DEF Typed, CacheOK
    <2>3. ASSUME NEW s \in Replicas, NEW k \in DOMAIN cache'[s]
          PROVE  EntryRecent(groups, lost, now, k, cache'[s][k])
      <3>1. cache'[s] = cache[s]
        BY <2>2, <2>3
      <3> QED
        BY <2>3, <3>1 DEF Recent
    <2>4. ASSUME NEW p \in Requests, req'[p] # Idle PROVE JobRecent(groups, lost, now, req'[p])
      <3>1. req'[p] = req[p]
        BY <2>1, <2>4
      <3> QED
        BY <2>4, <3>1 DEF Recent
    <2> QED
      BY <1>1, <2>1, <2>3, <2>4 DEF Recent
  <1>4. CASE Tick
    <2>1. /\ now' = now + 1 /\ UNCHANGED <<req, cache>>
          /\ \A q \in Busy : now < req[q].began + MaxLag
      BY <1>4 DEF Tick
    <2>2. ASSUME NEW s \in Replicas, NEW k \in DOMAIN cache[s]
          PROVE  EntryRecent(groups, lost, now + 1, k, cache[s][k])
      <3>1. EntryRecent(groups, lost, now, k, cache[s][k]) /\ EntryOK(k, cache[s][k])
        BY <2>2 DEF Recent, Typed, CacheOK
      <3>2. cache[s][k].expiresAt <= now + 1 + TTL
        BY <1>1, <3>1, Bounds DEF EntryRecent, EntryOK
      <3> QED
        BY <3>1, <3>2 DEF EntryRecent
    <2>3. ASSUME NEW p \in Requests, req[p] # Idle PROVE JobRecent(groups, lost, now + 1, req[p])
      <3>1. JobRecent(groups, lost, now, req[p])
        BY <2>3 DEF Recent
      <3>2. JobOK(req[p]) /\ p \in Busy
        BY <2>3, IdleOrBusy DEF Busy, Typed, RequestsOK
      <3>3. PICK t \in Nat : t = req[p].began
        BY <3>2 DEF JobOK
      <3>4. t <= now /\ now < t + MaxLag
        BY <2>1, <3>1, <3>2, <3>3 DEF JobRecent
      <3>5. t <= now + 1 /\ now + 1 <= t + MaxLag
        BY <1>1, <3>4, Bounds
      <3> QED
        BY <3>1, <3>3, <3>5 DEF JobRecent
    <2>4. \A u \in Users, g \in Groups : lost[u][g] <= now + 1
      BY <1>1 DEF Recent, Typed, TablesOK
    <2> QED
      BY <1>1, <2>1, <2>2, <2>3, <2>4 DEF Recent
  <1>5. CASE (\E x \in Expenses : Deliver(x)) \/ UNCHANGED vars
    <2>1. UNCHANGED <<now, req, cache>>
      BY <1>5 DEF Deliver, vars
    <2> QED
      BY <1>2, <2>1
  <1> QED
    BY <1>3, <1>4, <1>5 DEF OtherStep

(* A budget is shared, or answers given, on recent sight only. *)
LEMMA SaveBounded ==
    ASSUME Typed, Recent, NEW q \in Requests, SaveStep(q)
    PROVE  RevocationBounded'
  <1>1. JobOK(req[q]) /\ req[q].pc = "write" /\ req[q].body.op = "save"
    BY DEF SaveStep
  <1>2. CASE req[q].body.item \in Budgets /\ req[q].body.group # None
    <2>1. req[q].needs = <<>>
      BY <1>1 DEF JobOK
    <2>2. Checked(req[q].body, <<>>, req[q].seen)
      BY <1>1, <2>1 DEF JobOK
    <2>3. "groups" \notin Names(<<>>)
      BY DEF Names
    <2>4. req[q].body.group \in req[q].seen
      BY <1>1, <1>2, <2>2, <2>3 DEF Checked
    <2>5. PICK a : a = Age(req[q].body.by, req[q].body.group)
      OBVIOUS
    <2>6. a \in 0 .. TTL + 2 * MaxLag
      BY <1>1, <2>4, <2>5, AgeBounded
    <2>7. staleness' = a
      BY <1>2, <2>5 DEF SaveStep
    <2> QED
      BY <2>6, <2>7, Bounds DEF RevocationBounded
  <1>3. CASE ~(req[q].body.item \in Budgets /\ req[q].body.group # None)
    <2>1. staleness' = 0
      BY <1>3 DEF SaveStep
    <2> QED
      BY <2>1, Bounds DEF RevocationBounded
  <1> QED
    BY <1>2, <1>3

LEMMA AnswerBounded ==
    ASSUME Typed, Recent, NEW q \in Requests, Answered(q)
    PROVE  RevocationBounded'
  <1>1. JobOK(req[q]) /\ Answer(q)
    BY DEF Answered
  <1> DEFINE u     == req[q].body.by
             shown == ListExpenses(u, req[q].seen) \cup ListBudgets(u, req[q].seen)
             ages  == {Age(u, items[i].group) : i \in {j \in shown : OwnerOf[j] # u}}
  <1>2. staleness' = Max(ages \cup {0})
    BY <1>1 DEF Answer
  <1>3. \A i \in shown : OwnerOf[i] # u => items[i].group \in req[q].seen
    BY DEF ListExpenses, ListBudgets
  <1>4. \A g \in req[q].seen : Age(u, g) \in 0 .. TTL + 2 * MaxLag
    BY <1>1, AgeBounded
  <1>5. PICK B \in Nat : B = TTL + 2 * MaxLag
    BY Bounds
  <1>6. \A a \in ages \cup {0} : a \in Nat /\ a <= B
    BY <1>3, <1>4, <1>5
  <1> HIDE DEF ages
  <1>7. Max(ages \cup {0}) \in ages \cup {0}
    BY <1>6, LargestOf
  <1> QED
    BY <1>2, <1>5, <1>6, <1>7 DEF RevocationBounded

LEMMA OthersBounded ==
    ASSUME RevocationBounded, UNCHANGED staleness
    PROVE  RevocationBounded'
  BY DEF RevocationBounded

(* A viewer is shown another user's expense or budget, and an owner may      *)
(* share a budget, only on the strength of a group seen at most cacheTTL     *)
(* before, give or take the request that stored the list and the one that    *)
(* used it: a removed member's sight of a group lapses on every replica      *)
(* within that bound, told or not (cached.GroupRepository, cacheTTL).        *)
THEOREM RevocationInTime == Spec => []RevocationBounded
  <1>1. Init => AgeInv
    BY TypedInit, RecentInit DEF AgeInv
  <1>2. AgeInv /\ [Next]_vars => AgeInv'
    <2> SUFFICES ASSUME Typed, Recent, RevocationBounded, [Next]_vars PROVE AgeInv'
      BY DEF AgeInv
    <2>1. Typed'
      BY TypedStep
    <2>2. ASSUME NEW q \in Requests, RequestStep(q) PROVE Recent' /\ RevocationBounded'
      <3>1. CASE Arrived(q)
        BY <3>1, RecentArrived, OthersBounded DEF Arrived
      <3>2. CASE HitStep(q)
        BY <3>2, RecentHit, OthersBounded DEF HitStep
      <3>3. CASE MissStep(q)
        BY <3>3, RecentMiss, OthersBounded DEF MissStep
      <3>4. CASE FillStep(q)
        BY <3>4, RecentFill, OthersBounded DEF FillStep
      <3>5. CASE ClearStep(q)
        BY <3>5, RecentClear, OthersBounded DEF ClearStep
      <3>6. CASE Changed(q) /\ CommitStep(q)
        BY <3>6, RecentCommit, OthersBounded DEF Changed
      <3>7. CASE SaveStep(q)
        BY <3>7, RecentEnd, SaveBounded
      <3>8. CASE DeleteStep(q)
        BY <3>8, RecentEnd, OthersBounded DEF DeleteStep
      <3>9. CASE Ended(q)
        BY <3>9, RecentEnd, OthersBounded DEF Ended
      <3>10. CASE Answered(q)
        BY <3>10, RecentEnd, AnswerBounded
      <3> QED
        BY <2>2, <3>1, <3>2, <3>3, <3>4, <3>5, <3>6, <3>7, <3>8, <3>9, <3>10 DEF RequestStep
    <2>3. ASSUME OtherStep PROVE Recent' /\ RevocationBounded'
      <3>1. UNCHANGED staleness
        BY <2>3 DEF OtherStep, Deliver, Restart, Tick, vars
      <3> QED
        BY <2>3, <3>1, RecentOther, OthersBounded
    <2> QED
      BY <2>1, <2>2, <2>3, StepKinds DEF AgeInv
  <1>3. AgeInv => RevocationBounded
    BY DEF AgeInv
  <1> QED
    BY <1>1, <1>2, <1>3, PTL DEF Spec

=============================================================================
