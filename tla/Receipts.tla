------------------------------- MODULE Receipts -------------------------------
(***************************************************************************)
(* Expenses and their receipts: the commands of ExpenseService, the upload  *)
(* handler that stores the object before it attaches it, the reference      *)
(* table that says which objects are still needed, and the retention        *)
(* sweepers of every replica that delete the ones that are not.             *)
(*                                                                         *)
(* A command reads the expense first and then runs one transaction (event,  *)
(* row, references) that the aggregate's advisory lock serialises           *)
(* (EventStore), so the transaction is one step and the read another.       *)
(* Object storage takes part in no transaction.                             *)
(***************************************************************************)
EXTENDS Naturals, Sequences, FiniteSets, SequencesExt

CONSTANTS
    Expenses,
    Keys,           \* object keys, one per upload (a new UUID each)
    Contents,       \* what the owner can type: title, amount, tags...
    Clients,        \* concurrent requests of the owner
    Sweepers,       \* replicas running sweepOrphanedObjects
    MaxCommands,    \* bound on commands
    MaxFaults,      \* bound on failed calls and crashes
    NoKey           \* the empty receipt_object_key

ASSUME ReceiptsAssumption ==
    /\ NoKey \notin Keys
    /\ MaxCommands \in Nat /\ MaxFaults \in Nat

VARIABLES
    row,            \* expenses.expenses
    stream,         \* the events of each expense
    objects,        \* keys present in the object store
    refs,           \* files.object_references
    used,           \* keys already drawn by an upload
    client,         \* what each request is doing
    sweep,          \* claimed orphans a sweeper has not handled yet
    deleted,        \* the claimed orphan whose object a sweeper just deleted
    stale,          \* history: expenses written from a read that was out of date
    commands, faults

vars == <<row, stream, objects, refs, used, client, sweep, deleted, stale, commands, faults>>

Idle    == [op |-> "idle"]
Removed == [state |-> "deleted"]
Absent  == [state |-> "absent"]
LiveRow(content, key) == [state |-> "live", content |-> content, key |-> key]
Unknown == [state |-> "none"]           \* no row in files.object_references
Ref(s, e) == [state |-> s, resource |-> e]

LiveRows == [state : {"live"}, content : Contents, key : Keys \cup {NoKey}]
Rows     == {Absent, Removed} \cup LiveRows

TypeOK ==
    /\ row \in [Expenses -> Rows]
    /\ stream \in [Expenses -> Seq(Rows \ {Absent})]
    /\ objects \subseteq used /\ used \subseteq Keys
    /\ refs \in [Keys -> {Unknown} \cup [state : {"active", "orphaned"}, resource : Expenses]]
    /\ client \in [Clients ->
          {Idle}
          \cup [op : {"stored"}, e : Expenses, key : Keys]
          \cup [op : {"attach"}, e : Expenses, key : Keys, read : LiveRows]
          \cup [op : {"update", "delete"}, e : Expenses, read : LiveRows]]
    /\ sweep \in [Sweepers -> SUBSET Keys]
    /\ deleted \in [Sweepers -> Keys \cup {NoKey}]
    /\ stale \subseteq Expenses
    /\ commands \in 0..MaxCommands /\ faults \in 0..MaxFaults

Init ==
    /\ row = [e \in Expenses |-> Absent]
    /\ stream = [e \in Expenses |-> <<>>]
    /\ objects = {} /\ used = {}
    /\ refs = [k \in Keys |-> Unknown]
    /\ client = [c \in Clients |-> Idle]
    /\ sweep = [s \in Sweepers |-> {}]
    /\ deleted = [s \in Sweepers |-> NoKey]
    /\ stale = {} /\ commands = 0 /\ faults = 0

Live(e) == row[e].state = "live"

Begin(c, what) ==
    /\ client[c] = Idle
    /\ commands < MaxCommands
    /\ commands' = commands + 1
    /\ client' = [client EXCEPT ![c] = what]

End(c) == client' = [client EXCEPT ![c] = Idle]

(* Appending the event and writing the row, together. *)
Write(e, r) ==
    /\ stream' = [stream EXCEPT ![e] = Append(@, r)]
    /\ row' = [row EXCEPT ![e] = r]

(* The transaction of a request that read its expense earlier is over. *)
Written(c) ==
    /\ stale' = IF Live(client[c].e) /\ client[c].read # row[client[c].e]
                THEN stale \cup {client[c].e} ELSE stale
    /\ End(c)

(* OrphanObjectsFor: every active reference of the expense except keep. *)
OrphanObjectsFor(rs, e, keep) ==
    [k \in Keys |-> IF rs[k] = Ref("active", e) /\ k # keep
                    THEN Ref("orphaned", e) ELSE rs[k]]

-----------------------------------------------------------------------------
(* Commands. *)

(* The request carries no receipt key. *)
CreateExpense(e) ==
    /\ row[e] = Absent
    /\ \E x \in Contents : Write(e, LiveRow(x, NoKey))
    /\ UNCHANGED <<objects, refs, used, client, sweep, deleted, stale, commands, faults>>

(* GetExpense of UpdateExpense and DeleteExpense; a missing expense is a    *)
(* 404 before anything happens.                                             *)
Read(c, e, op) ==
    /\ Live(e)
    /\ Begin(c, [op |-> op, e |-> e, read |-> row[e]])
    /\ UNCHANGED <<row, stream, objects, refs, used, sweep, deleted, stale, faults>>

\* Mutated form of UpdateExpense: affected rows are not counted.
UpdateExpenseUnchecked(c) ==
    /\ client[c].op = "update"
    /\ \E x \in Contents :
          LET r == LiveRow(x, client[c].read.key) IN
          /\ stream' = [stream EXCEPT ![client[c].e] = Append(@, r)]
          /\ row' = IF Live(client[c].e) THEN [row EXCEPT ![client[c].e] = r] ELSE row
    /\ Written(c)
    /\ UNCHANGED <<objects, refs, used, sweep, deleted, commands, faults>>

(* Everything but the receipt key comes from the request; the key is the    *)
(* one that was read.  A deleted expense updates no row, which rolls the    *)
(* event back.                                                              *)
UpdateExpense(c) ==
    /\ client[c].op = "update"
    /\ IF Live(client[c].e)
       THEN \E x \in Contents : Write(client[c].e, LiveRow(x, client[c].read.key))
       ELSE UNCHANGED <<row, stream>>
    /\ Written(c)
    /\ UNCHANGED <<objects, refs, used, sweep, deleted, commands, faults>>

\* Mutated form of DeleteExpense: the receipt is not orphaned.
DeleteExpenseKeepingReceipt(c) ==
    /\ client[c].op = "delete"
    /\ IF Live(client[c].e) THEN Write(client[c].e, Removed) ELSE UNCHANGED <<row, stream>>
    /\ Written(c)
    /\ UNCHANGED <<objects, refs, used, sweep, deleted, commands, faults>>

DeleteExpense(c) ==
    LET e == client[c].e IN
    /\ client[c].op = "delete"
    /\ IF Live(e)
       THEN Write(e, Removed) /\ refs' = OrphanObjectsFor(refs, e, NoKey)
       ELSE UNCHANGED <<row, stream, refs>>
    /\ Written(c)
    /\ UNCHANGED <<objects, used, sweep, deleted, commands, faults>>

(* The upload handler stores the object under a new key, whether or not the *)
(* expense exists.                                                          *)
PutReceipt(c, e) ==
    /\ \E k \in Keys \ used :
          /\ Begin(c, [op |-> "stored", e |-> e, key |-> k])
          /\ objects' = objects \cup {k}
          /\ used' = used \cup {k}
    /\ UNCHANGED <<row, stream, refs, sweep, deleted, stale, faults>>

(* AttachReceipt reads the expense ... *)
ReadForAttach(c) ==
    /\ client[c].op = "stored"
    /\ client' = [client EXCEPT ![c] =
          IF Live(@.e) THEN [op |-> "attach", e |-> @.e, key |-> @.key, read |-> row[@.e]]
          ELSE Idle]
    /\ UNCHANGED <<row, stream, objects, refs, used, sweep, deleted, stale, commands, faults>>

\* Mutated form of AttachReceipt: a replaced receipt stays active.
AttachReceiptKeepingPrevious(c) ==
    LET a == client[c] IN
    /\ a.op = "attach"
    /\ IF Live(a.e)
       THEN /\ Write(a.e, [a.read EXCEPT !.key = a.key])
            /\ refs' = [refs EXCEPT ![a.key] = Ref("active", a.e)]
       ELSE UNCHANGED <<row, stream, refs>>
    /\ Written(c)
    /\ UNCHANGED <<objects, used, sweep, deleted, commands, faults>>

(* ... and writes it back with the new key, tracks the object and, if the   *)
(* expense had a receipt when it was read, orphans every other one.         *)
AttachReceipt(c) ==
    LET a == client[c] IN
    /\ a.op = "attach"
    /\ IF Live(a.e)
       THEN LET tracked == [refs EXCEPT ![a.key] = Ref("active", a.e)] IN
            /\ Write(a.e, [a.read EXCEPT !.key = a.key])
            /\ refs' = IF a.read.key # NoKey THEN OrphanObjectsFor(tracked, a.e, a.key)
                       ELSE tracked
       ELSE UNCHANGED <<row, stream, refs>>
    /\ Written(c)
    /\ UNCHANGED <<objects, used, sweep, deleted, commands, faults>>

Fault == faults < MaxFaults /\ faults' = faults + 1

(* The request dies or its transaction fails: what it committed stays. *)
CommandFails(c) ==
    /\ client[c] # Idle
    /\ Fault
    /\ End(c)
    /\ UNCHANGED <<row, stream, objects, refs, used, sweep, deleted, stale, commands>>
-----------------------------------------------------------------------------
(* The retention sweeper.  A batch of 50 holds every orphan of an instance. *)
\* Mutated form of Orphans: the state is not compared.
OrphansOrNot == {k \in Keys : refs[k] # Unknown}

Orphans == {k \in Keys : refs[k].state = "orphaned"}

(* The row locks of "for update skip locked" end with the statement.        *)
ClaimOrphans(s) ==
    /\ sweep[s] = {} /\ deleted[s] = NoKey
    /\ Orphans # {}
    /\ sweep' = [sweep EXCEPT ![s] = Orphans]
    /\ UNCHANGED <<row, stream, objects, refs, used, client, deleted, stale, commands, faults>>

DeleteObject(s) ==
    /\ deleted[s] = NoKey
    /\ \E k \in sweep[s] : /\ objects' = objects \ {k}
                           /\ deleted' = [deleted EXCEPT ![s] = k]
                           /\ sweep' = [sweep EXCEPT ![s] = @ \ {k}]
    /\ UNCHANGED <<row, stream, refs, used, client, stale, commands, faults>>

ForgetObject(s) ==
    /\ deleted[s] # NoKey
    /\ refs' = [refs EXCEPT ![deleted[s]] = Unknown]
    /\ deleted' = [deleted EXCEPT ![s] = NoKey]
    /\ UNCHANGED <<row, stream, objects, used, client, sweep, stale, commands, faults>>

\* Mutated form of DeleteFails: the reference is forgotten all the same.
DeleteFailsForgetting(s) ==
    /\ deleted[s] = NoKey
    /\ Fault
    /\ \E k \in sweep[s] : /\ sweep' = [sweep EXCEPT ![s] = @ \ {k}]
                           /\ deleted' = [deleted EXCEPT ![s] = k]
    /\ UNCHANGED <<row, stream, objects, refs, used, client, stale, commands>>

(* The store refuses the deletion: the orphan is left for the next sweep.   *)
DeleteFails(s) ==
    /\ deleted[s] = NoKey
    /\ Fault
    /\ \E k \in sweep[s] : sweep' = [sweep EXCEPT ![s] = @ \ {k}]
    /\ UNCHANGED <<row, stream, objects, refs, used, client, deleted, stale, commands>>

(* The replica dies, or forgetting fails, which ends the sweep: the objects *)
(* it deleted stay deleted, the references it did not forget stay orphaned. *)
SweepEnds(s) ==
    /\ sweep[s] # {} \/ deleted[s] # NoKey
    /\ Fault
    /\ sweep' = [sweep EXCEPT ![s] = {}]
    /\ deleted' = [deleted EXCEPT ![s] = NoKey]
    /\ UNCHANGED <<row, stream, objects, refs, used, client, stale, commands>>

SweepOrphans(s) == ClaimOrphans(s) \/ DeleteObject(s) \/ ForgetObject(s)

Next ==
    \/ \E e \in Expenses : CreateExpense(e)
    \/ \E c \in Clients, e \in Expenses :
          Read(c, e, "update") \/ Read(c, e, "delete") \/ PutReceipt(c, e)
    \/ \E c \in Clients :
          UpdateExpense(c) \/ DeleteExpense(c) \/ ReadForAttach(c) \/ AttachReceipt(c)
          \/ CommandFails(c)
    \/ \E s \in Sweepers : SweepOrphans(s) \/ DeleteFails(s) \/ SweepEnds(s)

Spec == Init /\ [][Next]_vars

(* The sweepers' tickers fire for ever. *)
FairSpec == Spec /\ \A s \in Sweepers : WF_vars(SweepOrphans(s))
-----------------------------------------------------------------------------
(* The event stream and the projection never disagree: the last event of an *)
(* expense is what its row shows, and nothing follows its removal, however  *)
(* the owner's requests overlap (UpdateExpense, DeleteExpense,              *)
(* AttachReceipt write both in one transaction).                            *)
StreamAgrees ==
    \A e \in Expenses :
        /\ row[e] = IF stream[e] = <<>> THEN Absent ELSE Last(stream[e])
        /\ \A i \in 1 .. Len(stream[e]) - 1 : stream[e][i] # Removed

(* A deleted expense keeps no receipt: each object it ever tracked is       *)
(* orphaned or already forgotten (DeleteExpense).                           *)
DeletedKeepsNothing ==
    \A e \in Expenses : row[e] = Removed => \A k \in Keys : refs[k] # Ref("active", e)

(* "a duplicate claim costs a wasted delete call, never incorrect state":   *)
(* no sweeper deletes an object whose reference is active, whichever of     *)
(* them claimed it and whatever the owner does meanwhile.                   *)
ActiveIsStored == \A k \in Keys : refs[k].state = "active" => k \in objects

(* "A crash between the two leaves an orphaned row, which the next sweep    *)
(* simply retries": an orphaned object is eventually deleted and forgotten. *)
OrphansReclaimed ==
    \A k \in Keys : refs[k].state = "orphaned" ~> k \notin objects /\ refs[k] = Unknown

(* The receipt an expense shows is in the store, so it can be downloaded,   *)
(* as long as no request of the owner wrote from an outdated read: sweepers *)
(* of several replicas, failed uploads and crashes never take it away.      *)
ReceiptIsStored ==
    \A e \in Expenses \ stale : Live(e) /\ row[e].key # NoKey => row[e].key \in objects

(* A replaced receipt "is orphaned so the retention sweeper reclaims it     *)
(* rather than leaving it in the store forever": the only active object of  *)
(* an expense no outdated read was written to is the one it shows.          *)
ReplacedIsOrphaned ==
    \A k \in Keys : refs[k].state = "active" /\ refs[k].resource \notin stale =>
        Live(refs[k].resource) /\ row[refs[k].resource].key = k

(* Tracked objects, stored objects and the receipts expenses show fit        *)
(* together, however owners, sweepers and failures interleave.              *)
NothingDangles ==
    ActiveIsStored /\ ReceiptIsStored /\ ReplacedIsOrphaned /\ DeletedKeepsNothing
=============================================================================
