-------------------------------- MODULE Sharing --------------------------------
(***************************************************************************)
(* Groups, categories and tags, the cached lists in front of them, and the  *)
(* commands and views that rely on those lists.                             *)
(*                                                                         *)
(* Each replica caches three lists per user: the groups the user sees, the  *)
(* user's categories and the user's tags.  A list is read from the database *)
(* and stored in the cache in two steps, and a write invalidates the lists  *)
(* of its own replica in a step after the one that commits it, so a list    *)
(* may be stored after the write that outdates it was announced.  Nobody    *)
(* announces a write to the other replicas: there only the age of an entry  *)
(* limits what it still shows.                                              *)
(*                                                                         *)
(* The foreign keys of the schema guard what the lists cannot: a row never  *)
(* points at a group, category or tag that is gone.  The analytics          *)
(* subscription is here because its rows hold such keys too, and because    *)
(* an event keeps naming a label its expense no longer carries.             *)
(***************************************************************************)
EXTENDS Naturals, Sequences, FiniteSets, FiniteSetsExt

CONSTANTS
    Replicas, Requests,
    Users, Admins, Supers,      \* Supers are the super-admins
    Groups,
    Categories, Tags,
    LabelOwner,                 \* the user who owns each label, or Default
    Expenses, Budgets,
    OwnerOf,                    \* the user who owns each expense and budget
    None, Default,
    Workloads,                  \* the rows there are at first, the time, the faults already
                                \* used up and the requests that arrive
    TTL,                        \* cacheTTL
    MaxLag,                     \* bound on how long a request takes
    MaxTime,                    \* bound on the clock
    MaxFaults                   \* bound on restarts and lost acknowledgements

(* A row of identity.groups with its members, and one of expenses.expenses or *)
(* budgets.budgets.                                                          *)
GroupRows == [owner : Users, name : {0, 1}, members : SUBSET Users]
ItemRows  == [found : {TRUE}, deleted : BOOLEAN, labels : SUBSET (Categories \cup Tags),
              group : Groups \cup {None}]

(* The rows there are at first are ones the commands could have written.     *)
ASSUME SharingAssumption ==
    /\ TTL \in Nat /\ MaxLag \in Nat /\ MaxTime \in Nat /\ MaxFaults \in Nat
    /\ Admins \subseteq Users /\ Supers \subseteq Users
    /\ LabelOwner \in [Categories \cup Tags -> Users \cup {Default}]
    /\ OwnerOf \in [Expenses \cup Budgets -> Users]
    /\ Categories \cap Tags = {} /\ Expenses \cap Budgets = {} /\ Default \notin Users
    /\ \A w \in Workloads :
          /\ w.now \in Nat
          /\ DOMAIN w.groups \subseteq Groups
          /\ w.groups \in [DOMAIN w.groups -> GroupRows]
          /\ w.labels \subseteq Categories \cup Tags
          /\ DOMAIN w.items \subseteq Expenses \cup Budgets
          /\ \A i \in DOMAIN w.items :
                /\ w.items[i] \in ItemRows
                /\ w.items[i].labels \subseteq w.labels
                /\ w.items[i].group \in DOMAIN w.groups \cup {None}
                /\ i \in Expenses => \A l \in w.items[i].labels :
                                         LabelOwner[l] \in {OwnerOf[i], Default}

VARIABLES
    now,
    groups,         \* identity.groups with identity.group_members
    labels,         \* expenses.categories and expenses.tags: the edition of each
    items,          \* expenses.expenses and budgets.budgets
    events,         \* labels named by each event of an expense
    delivered,      \* events of each expense the analytics subscription handled
    rollups,        \* labels some analytics row refers to
    cache,          \* the cached lists of each replica
    unused,         \* identifiers not given out yet
    req,            \* what each request is doing
    arriving,       \* requests still to arrive, by operation
    faults,
    lost,           \* history: when each user last lost sight of each group
    excused,        \* history: lists a foreign write, a racing fill or a lost
                    \* acknowledgement may have outdated, by replica
    staleness       \* history: age of the oldest sight the last answer relied on

tables == <<groups, labels, items, events, delivered, rollups>>
vars   == <<now, tables, cache, unused, req, arriving, faults, lost, excused, staleness>>

Labels == Categories \cup Tags
Items  == Expenses \cup Budgets
Idle   == [op |-> "idle"]
NoRow  == [found |-> FALSE]
Keys   == {"groups", "categories", "tags"} \X Users

GroupOps == {"createGroup", "updateGroup", "deleteGroup", "addMember", "removeMember"}
LabelOps == {"createLabel", "updateLabel", "deleteLabel"}
Ops      == GroupOps \cup LabelOps \cup {"list", "view", "save", "remove"}

-----------------------------------------------------------------------------
(* Queries. *)

Sees(gs, u, g) ==
    g \in DOMAIN gs /\ (u \in Supers \/ gs[g].owner = u \/ u \in gs[g].members)

ListVisibleGroups(u) == [g \in {h \in DOMAIN groups : Sees(groups, u, h)} |-> groups[g]]

Owned(kind, u, owners) ==
    [l \in {m \in DOMAIN labels \cap kind : LabelOwner[m] \in owners} |-> labels[l]]

ListCategories(u) == Owned(Categories, u, {u, Default})
ListTags(u)       == Owned(Tags, u, {u})

Query(key) ==
    CASE key[1] = "groups"     -> ListVisibleGroups(key[2])
      [] key[1] = "categories" -> ListCategories(key[2])
      [] key[1] = "tags"       -> ListTags(key[2])

Live(i) == items[i].found /\ ~items[i].deleted

(* ListExpenses and ListBudgets for a viewer and the groups it was found to *)
(* see; the Get variants answer with one member of the same set.            *)
ListExpenses(u, ids) == {x \in Expenses : Live(x) /\ (OwnerOf[x] = u \/ items[x].group \in ids)}
ListBudgets(u, ids)  == {b \in Budgets : Live(b) /\ (OwnerOf[b] = u \/ items[b].group \in ids)}

(* Foreign keys of expenses and budgets: rows that were only marked deleted *)
(* still hold theirs.  Scheduled payments, which also may name a group, are *)
(* not in this module.                                                      *)
Rows == {i \in Items : items[i].found}
GroupReferenced(g) == \E i \in Rows : items[i].group = g

\* Mutated form of LabelReferenced: analytics rows hold no key.
ReferencedByRow(l) == \E i \in Rows : l \in items[i].labels
LabelReferenced(l) == l \in rollups \/ \E i \in Rows : l \in items[i].labels

-----------------------------------------------------------------------------
(* The cache.  An entry is good while its time has not passed. *)

\* Mutated form of Get: the expiry is never looked at.
GetAnyAge(r, key) == IF key \in DOMAIN cache[r] THEN cache[r][key] ELSE NoRow

Get(r, key) ==
    IF key \in DOMAIN cache[r] /\ now <= cache[r][key].expiresAt
    THEN cache[r][key] ELSE NoRow

Set(r, key, value) ==
    cache' = [cache EXCEPT ![r] =
                 [k \in DOMAIN cache[r] \cup {key} |->
                     IF k = key THEN [found |-> TRUE, value |-> value, expiresAt |-> now + TTL]
                     ELSE cache[r][k]]]

Invalidate(r, keys) ==
    cache' = [cache EXCEPT ![r] = [k \in DOMAIN cache[r] \ keys |-> cache[r][k]]]

ListName(l) == IF l \in Categories THEN "categories" ELSE "tags"

\* Mutated form of Invalidated: a membership change drops the actor's list only.
ActorsListOnly(c) ==
    IF c.op \in GroupOps THEN {<<"groups", c.by>>} ELSE {<<ListName(c.label), c.by>>}

(* What a write drops: any viewer's groups may have changed, but only the   *)
(* owner's categories or tags.                                              *)
Invalidated(c) ==
    IF c.op \in GroupOps THEN {"groups"} \X Users ELSE {<<ListName(c.label), c.by>>}

-----------------------------------------------------------------------------
(* Requests. *)

At(q, step) == req[q].op # "idle" /\ req[q].pc = step
Busy        == {q \in Requests : req[q].op # "idle"}
End(q)      == req' = [req EXCEPT ![q] = Idle]

Body(op, u) ==
    [op |-> op, by |-> u, group |-> None, user |-> None, label |-> None, item |-> None,
     labels |-> {}]

(* A request starts, with the identifiers it gives out: it works through    *)
(* the lists it needs, then writes or answers.                              *)
Arrive(q, r, c, new, needs) ==
    /\ req[q] = Idle
    /\ unused' = unused \ new
    /\ arriving[c.op] > 0
    /\ arriving' = [arriving EXCEPT ![c.op] = @ - 1]
    /\ req' = [req EXCEPT ![q] =
                  [op |-> c.op, body |-> c, rep |-> r, began |-> now, needs |-> needs,
                   pc |-> IF needs # <<>> THEN "list" ELSE "write",
                   value |-> <<>>, raced |-> FALSE, seen |-> {}]]
    /\ UNCHANGED <<now, tables, cache, faults, lost, excused, staleness>>

(* requireGroupOwner, on the row itself. *)
requireGroupOwner(u, g) == g \in DOMAIN groups /\ (u \in Supers \/ groups[g].owner = u)

CreateGroup(q, r, u, g, member) ==
    /\ u \in Admins \cup Supers
    /\ g \in unused
    /\ Arrive(q, r, [Body("createGroup", u) EXCEPT !.group = g, !.user = member], {g}, <<>>)

UpdateGroup(q, r, u, g) ==
    /\ requireGroupOwner(u, g)
    /\ Arrive(q, r, [Body("updateGroup", u) EXCEPT !.group = g], {}, <<>>)

DeleteGroup(q, r, u, g) ==
    /\ requireGroupOwner(u, g)
    /\ Arrive(q, r, [Body("deleteGroup", u) EXCEPT !.group = g], {}, <<>>)

AddMember(q, r, u, g, member) ==
    /\ requireGroupOwner(u, g)
    /\ Arrive(q, r, [Body("addMember", u) EXCEPT !.group = g, !.user = member], {}, <<>>)

RemoveMember(q, r, u, g, member) ==
    /\ requireGroupOwner(u, g)
    /\ Arrive(q, r, [Body("removeMember", u) EXCEPT !.group = g, !.user = member], {}, <<>>)

(* Categories and tags are created for the caller, and another user's are   *)
(* not found.                                                               *)
CreateLabel(q, r, l) ==
    /\ LabelOwner[l] # Default /\ l \in unused
    /\ Arrive(q, r, [Body("createLabel", LabelOwner[l]) EXCEPT !.label = l], {l}, <<>>)

UpdateLabel(q, r, u, l) ==
    Arrive(q, r, [Body("updateLabel", u) EXCEPT !.label = l], {}, <<>>)

DeleteLabel(q, r, u, l) ==
    Arrive(q, r, [Body("deleteLabel", u) EXCEPT !.label = l], {}, <<>>)

CreateCategory(q, r, l) == l \in Categories /\ CreateLabel(q, r, l)
CreateTag(q, r, l)      == l \in Tags /\ CreateLabel(q, r, l)

UpdateCategory(q, r, u, l) == l \in Categories /\ UpdateLabel(q, r, u, l)
UpdateTag(q, r, u, l)      == l \in Tags /\ UpdateLabel(q, r, u, l)

DeleteCategory(q, r, u, l) == l \in Categories /\ DeleteLabel(q, r, u, l)
DeleteTag(q, r, u, l)      == l \in Tags /\ DeleteLabel(q, r, u, l)

List(q, r, u, list) == Arrive(q, r, Body("list", u), {}, <<list>>)

View(q, r, u) == Arrive(q, r, Body("view", u), {}, <<"groups">>)

(* CreateExpense and UpdateExpense look only at the lists the command needs. *)
SaveExpense(q, r, x, ls, g) ==
    /\ x \in unused \/ Live(x)
    /\ Arrive(q, r, [Body("save", OwnerOf[x]) EXCEPT !.item = x, !.labels = ls, !.group = g],
              {x},
              (IF ls \cap Categories # {} THEN <<"categories">> ELSE <<>>) \o
              (IF ls \cap Tags # {} THEN <<"tags">> ELSE <<>>))

(* CreateBudget and UpdateBudget check the group, and not the category. *)
SaveBudget(q, r, b, l, g) ==
    /\ b \in unused \/ Live(b)
    /\ Arrive(q, r, [Body("save", OwnerOf[b]) EXCEPT !.item = b, !.labels = {l}, !.group = g],
              {b},
              IF g # None THEN <<"groups">> ELSE <<>>)

Remove(q, r, i) ==
    /\ Live(i)
    /\ Arrive(q, r, [Body("remove", OwnerOf[i]) EXCEPT !.item = i], {}, <<>>)

-----------------------------------------------------------------------------
(* Lists. *)

\* Mutated form of validateOwnership: only the category is looked up.
CategoryOnly(c, list, ids) == list = "categories" => c.labels \cap Categories \subseteq ids

validateOwnership(c, list, ids) ==
    /\ list = "categories" => c.labels \cap Categories \subseteq ids
    /\ list = "tags"       => c.labels \cap Tags \subseteq ids

validateSharedGroup(c, list, ids) == c.op = "save" /\ list = "groups" => c.group \in ids

(* The request goes on with a list, or is refused. *)
Listed(q, value) ==
    LET j == req[q]
        c == j.body
    IN IF ~validateOwnership(c, Head(j.needs), DOMAIN value)
          \/ ~validateSharedGroup(c, Head(j.needs), DOMAIN value)
          \/ j.op = "list"
       THEN Idle
       ELSE [j EXCEPT !.needs = Tail(j.needs), !.value = <<>>, !.raced = FALSE,
                !.seen = IF Head(j.needs) = "groups" THEN DOMAIN value ELSE j.seen,
                !.pc = IF Tail(j.needs) # <<>> THEN "list"
                       ELSE IF j.op = "view" THEN "answer" ELSE "write"]

Key(q) == <<Head(req[q].needs), req[q].body.by>>

Hit(q) ==
    /\ At(q, "list")
    /\ Get(req[q].rep, Key(q)).found
    /\ req' = [req EXCEPT ![q] = Listed(q, Get(req[q].rep, Key(q)).value)]
    /\ UNCHANGED <<now, tables, cache, unused, arriving, faults, lost, excused, staleness>>

Miss(q) ==
    /\ At(q, "list")
    /\ ~Get(req[q].rep, Key(q)).found
    /\ req' = [req EXCEPT ![q].pc = "fill", ![q].value = Query(Key(q)), ![q].raced = FALSE]
    /\ UNCHANGED <<now, tables, cache, unused, arriving, faults, lost, excused, staleness>>

Fill(q) ==
    LET r == req[q].rep IN
    /\ At(q, "fill")
    /\ Set(r, Key(q), req[q].value)
    /\ req' = [req EXCEPT ![q] = Listed(q, req[q].value)]
    /\ excused' = [excused EXCEPT ![r] =
                      IF req[q].raced THEN excused[r] \cup {Key(q)} ELSE excused[r] \ {Key(q)}]
    /\ UNCHANGED <<now, tables, unused, arriving, faults, lost, staleness>>

-----------------------------------------------------------------------------
(* Writes. *)

(* A fill that has read what a write to these lists outdates. *)
Race(p, keys) ==
    req[p].op # "idle" /\ req[p].pc = "fill" /\ Key(p) \in keys

(* The write is committed.  The caches of other replicas learn nothing;     *)
(* this replica's are cleared next, unless the acknowledgement is lost.     *)
Committed(q, keys) ==
    /\ \/ /\ req' = [p \in Requests |->
                        IF p = q THEN [req[q] EXCEPT !.pc = "clear"]
                        ELSE IF Race(p, keys) THEN [req[p] EXCEPT !.raced = TRUE] ELSE req[p]]
          /\ excused' = [r \in Replicas |->
                            IF r = req[q].rep THEN excused[r] ELSE excused[r] \cup keys]
          /\ UNCHANGED faults
       \/ /\ faults < MaxFaults
          /\ faults' = faults + 1
          /\ req' = [p \in Requests |->
                        IF p = q THEN Idle
                        ELSE IF Race(p, keys) THEN [req[p] EXCEPT !.raced = TRUE] ELSE req[p]]
          /\ excused' = [r \in Replicas |-> excused[r] \cup keys]
    /\ lost' = [u \in Users |-> [g \in Groups |->
                   IF Sees(groups, u, g) /\ ~Sees(groups', u, g) THEN now ELSE lost[u][g]]]

(* A statement of request q that the database takes, or refuses. *)
Statement(q, op, accepted, effect) ==
    /\ At(q, "write") /\ req[q].op = op
    /\ IF accepted THEN effect /\ Committed(q, Invalidated(req[q].body))
       ELSE End(q) /\ UNCHANGED <<groups, labels, faults, lost, excused>>
    /\ UNCHANGED <<now, items, events, delivered, rollups, cache, unused, arriving, staleness>>

InsertGroup(q) ==
    LET c == req[q].body IN
    Statement(q, "createGroup", TRUE,
        /\ groups' = [g \in DOMAIN groups \cup {c.group} |->
              IF g = c.group THEN [owner |-> c.by, name |-> 0, members |-> {c.user} \ {None}]
              ELSE groups[g]]
        /\ UNCHANGED labels)

RenameGroup(q) ==
    LET g == req[q].body.group IN
    Statement(q, "updateGroup", g \in DOMAIN groups,
        groups' = [groups EXCEPT ![g].name = 1 - @] /\ UNCHANGED labels)

DropGroup(q) ==
    LET g == req[q].body.group IN
    Statement(q, "deleteGroup", g \in DOMAIN groups /\ ~GroupReferenced(g),
        groups' = [h \in DOMAIN groups \ {g} |-> groups[h]] /\ UNCHANGED labels)

InsertMember(q) ==
    LET c == req[q].body IN
    Statement(q, "addMember", c.group \in DOMAIN groups,
        groups' = [groups EXCEPT ![c.group].members = @ \cup {c.user}] /\ UNCHANGED labels)

(* No error when the group is gone: the caches are cleared all the same. *)
DropMember(q) ==
    LET c == req[q].body IN
    Statement(q, "removeMember", TRUE,
        /\ groups' = [g \in DOMAIN groups |->
              IF g = c.group THEN [groups[g] EXCEPT !.members = @ \ {c.user}] ELSE groups[g]]
        /\ UNCHANGED labels)

Own(c) == c.label \in DOMAIN labels /\ LabelOwner[c.label] = c.by

InsertLabel(q) ==
    LET l == req[q].body.label IN
    Statement(q, "createLabel", l \notin DOMAIN labels,
        /\ labels' = [m \in DOMAIN labels \cup {l} |-> IF m = l THEN 0 ELSE labels[m]]
        /\ UNCHANGED groups)

RenameLabel(q) ==
    LET c == req[q].body IN
    Statement(q, "updateLabel", Own(c),
        labels' = [labels EXCEPT ![c.label] = 1 - @] /\ UNCHANGED groups)

DropLabel(q) ==
    LET c == req[q].body IN
    Statement(q, "deleteLabel", Own(c) /\ ~LabelReferenced(c.label),
        labels' = [m \in DOMAIN labels \ {c.label} |-> labels[m]] /\ UNCHANGED groups)

Clear(q) ==
    LET r == req[q].rep IN
    /\ At(q, "clear")
    /\ Invalidate(r, Invalidated(req[q].body))
    /\ excused' = [excused EXCEPT ![r] = @ \ Invalidated(req[q].body)]
    /\ End(q)
    /\ UNCHANGED <<now, tables, unused, arriving, faults, lost, staleness>>

-----------------------------------------------------------------------------
(* Expenses and budgets. *)

(* How long ago the user last saw the group. *)
Age(u, g) == IF Sees(groups, u, g) THEN 0 ELSE now - lost[u][g]

(* The event and the row, in one transaction.  The row must still be there  *)
(* and what it names must exist, or neither is written.                     *)
Save(q) ==
    LET c == req[q].body IN
    /\ At(q, "write") /\ c.op = "save"
    /\ IF /\ items[c.item].found => ~items[c.item].deleted
          /\ c.labels \subseteq DOMAIN labels
          /\ c.group \in DOMAIN groups \cup {None}
       THEN /\ items' = [items EXCEPT ![c.item] =
                  [found |-> TRUE, deleted |-> FALSE, labels |-> c.labels, group |-> c.group]]
            /\ events' = IF c.item \in Expenses
                         THEN [events EXCEPT ![c.item] = Append(@, c.labels)] ELSE events
            /\ staleness' = IF c.item \in Budgets /\ c.group # None THEN Age(c.by, c.group) ELSE 0
       ELSE UNCHANGED <<items, events, staleness>>
    /\ End(q)
    /\ UNCHANGED <<now, groups, labels, delivered, rollups, cache, unused, arriving, faults, lost, excused>>

Delete(q) ==
    LET i == req[q].body.item IN
    /\ At(q, "write") /\ req[q].op = "remove"
    /\ IF Live(i)
       THEN /\ items' = [items EXCEPT ![i].deleted = TRUE]
            /\ events' = IF i \in Expenses THEN [events EXCEPT ![i] = Append(@, {})] ELSE events
       ELSE UNCHANGED <<items, events>>
    /\ End(q)
    /\ UNCHANGED <<now, groups, labels, delivered, rollups, cache, unused, arriving, faults, lost,
                   excused, staleness>>

(* What is shown on the strength of a group, and when the viewer last saw   *)
(* that group.                                                              *)
Answer(q) ==
    LET u     == req[q].body.by
        shown == ListExpenses(u, req[q].seen) \cup ListBudgets(u, req[q].seen)
        ages  == {Age(u, items[i].group) : i \in {j \in shown : OwnerOf[j] # u}}
    IN /\ At(q, "answer")
       /\ staleness' = Max(ages \cup {0})
       /\ End(q)
       /\ UNCHANGED <<now, tables, cache, unused, arriving, faults, lost, excused>>

(* The analytics subscription writes rows that refer to the labels of the   *)
(* event; a label that is gone makes the delivery fail, and so does the     *)
(* lack of a category.  An event without labels is a removal, or a save     *)
(* with neither category nor tags: that one the code rejects, and here it   *)
(* is delivered too.                                                        *)
Deliver(x) ==
    LET e == events[x][delivered[x] + 1] IN
    /\ delivered[x] < Len(events[x])
    /\ e # {} => e \cap Categories # {}
    /\ e \subseteq DOMAIN labels
    /\ delivered' = [delivered EXCEPT ![x] = @ + 1]
    /\ rollups' = rollups \cup e
    /\ UNCHANGED <<now, groups, labels, items, events, cache, req, unused, arriving, faults, lost,
                   excused, staleness>>

-----------------------------------------------------------------------------
(* Time passes, and replicas restart. *)

Tick ==
    /\ now < MaxTime
    /\ \A q \in Busy : now < req[q].began + MaxLag
    /\ now' = now + 1
    /\ UNCHANGED <<tables, cache, req, unused, arriving, faults, lost, excused, staleness>>

Restart(r) ==
    /\ faults < MaxFaults
    /\ faults' = faults + 1
    /\ cache' = [cache EXCEPT ![r] = <<>>]
    /\ excused' = [excused EXCEPT ![r] = {}]
    /\ req' = [q \in Requests |-> IF q \in Busy /\ req[q].rep = r THEN Idle ELSE req[q]]
    /\ UNCHANGED <<now, tables, unused, arriving, lost, staleness>>

Init ==
    /\ \E w \in Workloads :
          /\ groups = w.groups
          /\ labels = [l \in w.labels |-> 0]
          /\ items = [i \in Items |-> IF i \in DOMAIN w.items THEN w.items[i] ELSE NoRow]
          /\ arriving = w.arriving
          /\ now = w.now
          /\ faults = w.faults
    /\ unused = (Groups \ DOMAIN groups) \cup (Labels \ DOMAIN labels)
                    \cup {i \in Items : ~items[i].found}
    /\ events = [x \in Expenses |-> IF items[x].found THEN <<items[x].labels>> ELSE <<>>]
    /\ delivered = [x \in Expenses |-> 0]
    /\ rollups = {}
    /\ cache = [r \in Replicas |-> <<>>]
    /\ req = [q \in Requests |-> Idle]
    /\ lost = [u \in Users |-> [g \in Groups |-> now]]
    /\ excused = [r \in Replicas |-> {}]
    /\ staleness = 0

Requested(q, r) ==
    \/ \E u \in Users, g \in Groups :
          \/ UpdateGroup(q, r, u, g)
          \/ DeleteGroup(q, r, u, g)
          \/ \E m \in Users : AddMember(q, r, u, g, m) \/ RemoveMember(q, r, u, g, m)
          \/ \E m \in Users \cup {None} : CreateGroup(q, r, u, g, m)
    \/ \E l \in Labels :
          \/ CreateCategory(q, r, l) \/ CreateTag(q, r, l)
          \/ \E u \in Users : \/ UpdateCategory(q, r, u, l) \/ UpdateTag(q, r, u, l)
                             \/ DeleteCategory(q, r, u, l) \/ DeleteTag(q, r, u, l)
    \/ \E u \in Users :
          \/ View(q, r, u)
          \/ \E list \in {"groups", "categories", "tags"} : List(q, r, u, list)
    \/ \E x \in Expenses, ls \in SUBSET Labels, g \in Groups \cup {None} :
          /\ Cardinality(ls \cap Categories) <= 1
          /\ SaveExpense(q, r, x, ls, g)
    \/ \E b \in Budgets, l \in Categories, g \in Groups \cup {None} : SaveBudget(q, r, b, l, g)
    \/ \E i \in Items : Remove(q, r, i)

Next ==
    \/ \E q \in Requests : \E r \in Replicas : Requested(q, r)
    \/ \E q \in Requests : Hit(q) \/ Miss(q) \/ Fill(q) \/ Clear(q)
    \/ \E q \in Requests : InsertGroup(q) \/ RenameGroup(q) \/ DropGroup(q)
    \/ \E q \in Requests : InsertMember(q) \/ DropMember(q)
    \/ \E q \in Requests : InsertLabel(q) \/ RenameLabel(q) \/ DropLabel(q)
    \/ \E q \in Requests : Save(q) \/ Delete(q) \/ Answer(q)
    \/ \E x \in Expenses : Deliver(x)
    \/ \E r \in Replicas : Restart(r)
    \/ Tick

Spec == Init /\ [][Next]_vars

-----------------------------------------------------------------------------
(* "cacheTTL bounds how stale a cached user, category, tag, or group list   *)
(* may be": a viewer is shown another user's expense or budget, and an      *)
(* owner may share a budget, only on the strength of a group seen at most   *)
(* cacheTTL ago, give or take the two requests that stored the list and     *)
(* that used it.                                                            *)
RevocationBounded == staleness <= TTL + 2 * MaxLag

(* On a replica whose own writes are the only ones, and whose fills did not *)
(* race them, an unexpired list is what the database would answer now.      *)
Pending(r) == UNION {Invalidated(req[q].body) :
                        q \in {p \in Requests : At(p, "clear") /\ req[p].rep = r}}
ListsCoherent ==
    \A r \in Replicas : \A key \in DOMAIN cache[r] :
        Get(r, key).found /\ key \notin excused[r] \cup Pending(r)
            => Get(r, key).value = Query(key)

(* "an expense can never reference another user's private category or tag", *)
(* however old the lists it was validated with.                             *)
OwnLabels ==
    \A x \in Expenses : items[x].found =>
        \A l \in items[x].labels : LabelOwner[l] \in {OwnerOf[x], Default}

(* Nothing stored points at a group or label that is gone, and the newest   *)
(* event of an expense names none: a delivery can be stuck on a removed     *)
(* label only where a later event of the same expense has dropped it.       *)
ReferencesHold ==
    /\ \A i \in Rows : items[i].group \in DOMAIN groups \cup {None}
    /\ \A i \in Rows : items[i].labels \subseteq DOMAIN labels
    /\ rollups \subseteq DOMAIN labels
    /\ \A x \in Expenses : \A n \in delivered[x] + 1 .. Len(events[x]) :
          n < Len(events[x]) \/ events[x][n] \subseteq DOMAIN labels

(* The labels of an expense are ones its owner may use (validateOwnership), *)
(* and every label and group an expense, a budget or a rollup names is      *)
(* there (the foreign keys).  The group of an expense and the category of a *)
(* budget are not checked against what their owner may see.                 *)
ReferencesSound == OwnLabels /\ ReferencesHold
=============================================================================
