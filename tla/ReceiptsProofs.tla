---------------------------- MODULE ReceiptsProofs ----------------------------
(***************************************************************************)
(* Proofs about Receipts for every number of expenses, keys, requests,      *)
(* sweepers, commands and faults.                                           *)
(***************************************************************************)
EXTENDS Receipts, TLAPS

Requests ==
    {Idle}
    \cup [op : {"stored"}, e : Expenses, key : Keys]
    \cup [op : {"attach"}, e : Expenses, key : Keys, read : LiveRows]
    \cup [op : {"update", "delete"}, e : Expenses, read : LiveRows]

(* A request uploaded k and has not attached it yet. *)
Held(c, k) == client[c].op \in {"stored", "attach"} /\ client[c].key = k

(* A sweeper is about to delete k, or to forget it. *)
Swept(k) == \E s \in Sweepers : k \in sweep[s] \/ deleted[s] = k

Active(k, e) == refs[k] = Ref("active", e)

(* A key is drawn once: while its request holds it nobody tracks, claims or  *)
(* deletes it, and once a sweeper has it nobody can make it active again.   *)
KeysOwned ==
    \A k \in Keys :
        /\ refs[k] # Unknown \/ Swept(k) => k \in used
        /\ \A c \in Clients : Held(c, k) =>
              /\ k \in objects /\ refs[k] = Unknown /\ ~Swept(k)
              /\ \A b \in Clients : Held(b, k) => b = c
        /\ Swept(k) => \A e \in Expenses : ~Active(k, e)

(* The receipt an expense shows is tracked as its own ... *)
ShownIsActive ==
    \A e \in Expenses \ stale : Live(e) /\ row[e].key # NoKey => Active(row[e].key, e)

(* ... and what is tracked as an expense's is stored, and what it shows.     *)
ActiveSound ==
    \A k \in Keys, e \in Expenses : Active(k, e) =>
        /\ k \in objects /\ Live(e)
        /\ e \notin stale => row[e].key = k

ReceiptInv == TypeOK /\ KeysOwned /\ ShownIsActive /\ ActiveSound
StreamInv  == TypeOK /\ StreamAgrees
-----------------------------------------------------------------------------
(* Rows, references and requests. *)

LEMMA RowFacts ==
    /\ Absent \in Rows /\ Removed \in Rows /\ Removed # Absent
    /\ Absent.state # "live" /\ Removed.state # "live"
    /\ \A r \in Rows : r.state = "live" => r \in LiveRows
    /\ \A r \in LiveRows : r \in Rows /\ r.state = "live" /\ r # Absent /\ r # Removed /\ r.key \in Keys \cup {NoKey}
    /\ \A x \in Contents, k \in Keys \cup {NoKey} : LiveRow(x, k) \in LiveRows /\ LiveRow(x, k).key = k
    /\ \A r \in LiveRows, k \in Keys : [r EXCEPT !.key = k] \in LiveRows /\ [r EXCEPT !.key = k].key = k
BY DEF Rows, LiveRows, LiveRow, Absent, Removed

LEMMA RefFacts ==
    /\ \A e : Ref("active", e) # Unknown /\ Ref("orphaned", e) # Unknown
    /\ \A e, f : Ref("active", e) # Ref("orphaned", f)
    /\ \A e, f : Ref("active", e) = Ref("active", f) => e = f
    /\ \A e : Ref("active", e).state = "active" /\ Ref("active", e).resource = e /\ Ref("orphaned", e).state = "orphaned"
    /\ Unknown.state = "none"
<1>1. \A e : Ref("active", e).state = "active" /\ Ref("active", e).resource = e /\ Ref("orphaned", e).state = "orphaned"
    BY DEF Ref
<1>2. Unknown.state = "none"
    BY DEF Unknown
<1> QED BY <1>1, <1>2

References == {Unknown} \cup [state : {"active", "orphaned"}, resource : Expenses]

LEMMA RefShapes ==
    /\ \A e \in Expenses : Ref("active", e) \in References /\ Ref("orphaned", e) \in References
    /\ \A r \in References : \/ r = Unknown
                             \/ \E e \in Expenses : r = Ref("active", e) \/ r = Ref("orphaned", e)
BY DEF References, Ref

LEMMA RequestFacts ==
    /\ Idle \in Requests /\ Idle.op = "idle"
    /\ \A q \in Requests : q.op = "stored" => q.e \in Expenses /\ q.key \in Keys
    /\ \A q \in Requests : q.op = "attach" => q.e \in Expenses /\ q.key \in Keys /\ q.read \in LiveRows
    /\ \A q \in Requests : q.op \in {"update", "delete"} => q.e \in Expenses /\ q.read \in LiveRows
    /\ \A e \in Expenses, k \in Keys : [op |-> "stored", e |-> e, key |-> k] \in Requests
    /\ \A e \in Expenses, k \in Keys, r \in LiveRows : [op |-> "attach", e |-> e, key |-> k, read |-> r] \in Requests
    /\ \A e \in Expenses, r \in LiveRows, o \in {"update", "delete"} : [op |-> o, e |-> e, read |-> r] \in Requests
BY DEF Requests, Idle
-----------------------------------------------------------------------------
(* Types. *)

(* What the invariants need of a transaction that wrote r. *)
LEMMA WriteTyped ==
    ASSUME TypeOK, NEW e \in Expenses, NEW r \in Rows \ {Absent}, Write(e, r)
    PROVE  /\ row' \in [Expenses -> Rows] /\ row'[e] = r
           /\ stream' \in [Expenses -> Seq(Rows \ {Absent})] /\ stream'[e] = Append(stream[e], r)
           /\ \A f \in Expenses : f # e => row'[f] = row[f] /\ stream'[f] = stream[f]
<1> DEFINE S == Rows \ {Absent}
<1>1. row \in [Expenses -> Rows] /\ stream \in [Expenses -> Seq(S)]
    BY DEF TypeOK
<1>2. Append(stream[e], r) \in Seq(S)
  <2>1. stream[e] \in Seq(S) /\ r \in S
      BY <1>1
  <2> HIDE DEF S
  <2> QED BY <2>1
<1> HIDE DEF S
<1>3. stream' \in [Expenses -> Seq(S)] /\ stream'[e] = Append(stream[e], r)
      /\ \A f \in Expenses : f # e => stream'[f] = stream[f]
    BY <1>1, <1>2 DEF Write
<1>4. row' \in [Expenses -> Rows] /\ row'[e] = r /\ \A f \in Expenses : f # e => row'[f] = row[f]
    BY <1>1 DEF Write
<1> QED BY <1>3, <1>4 DEF S

LEMMA OrphanTyped ==
    ASSUME NEW rs \in [Keys -> References], NEW e \in Expenses, NEW keep
    PROVE  /\ OrphanObjectsFor(rs, e, keep) \in [Keys -> References]
           /\ \A k \in Keys : OrphanObjectsFor(rs, e, keep)[k] =
                  IF rs[k] = Ref("active", e) /\ k # keep THEN Ref("orphaned", e) ELSE rs[k]
BY RefShapes DEF OrphanObjectsFor

Types ==
    /\ row \in [Expenses -> Rows]
    /\ stream \in [Expenses -> Seq(Rows \ {Absent})]
    /\ objects \subseteq used /\ used \subseteq Keys
    /\ refs \in [Keys -> References]
    /\ client \in [Clients -> Requests]
    /\ sweep \in [Sweepers -> SUBSET Keys]
    /\ deleted \in [Sweepers -> Keys \cup {NoKey}]
    /\ stale \subseteq Expenses
    /\ commands \in 0..MaxCommands /\ faults \in 0..MaxFaults

LEMMA TypesOK == TypeOK <=> Types
BY DEF TypeOK, Types, References, Requests

(* What the three writing requests know of themselves. *)
LEMMA WriterFacts ==
    ASSUME TypeOK, NEW c \in Clients, client[c].op \in {"update", "delete", "attach"}
    PROVE  /\ client[c].e \in Expenses /\ client[c].read \in LiveRows
           /\ client[c].op = "attach" => client[c].key \in Keys
BY TypesOK, RequestFacts DEF Types

LEMMA WrittenTyped ==
    ASSUME TypeOK, NEW c \in Clients, client[c].op \in {"update", "delete", "attach"}, Written(c)
    PROVE  /\ stale' \subseteq Expenses /\ stale \subseteq stale'
           /\ \A e \in Expenses : e \in stale' => e \in stale \/ e = client[c].e
           /\ Live(client[c].e) /\ client[c].e \notin stale' => client[c].read = row[client[c].e]
           /\ client' \in [Clients -> Requests] /\ client'[c] = Idle
           /\ \A b \in Clients : b # c => client'[b] = client[b]
<1>1. client \in [Clients -> Requests] /\ stale \subseteq Expenses /\ client[c].e \in Expenses
    BY TypesOK, WriterFacts DEF Types
<1>2. client' \in [Clients -> Requests] /\ client'[c] = Idle /\ \A b \in Clients : b # c => client'[b] = client[b]
    BY <1>1, RequestFacts DEF Written, End
<1> QED BY <1>1, <1>2 DEF Written

LEMMA CountTyped ==
    ASSUME TypeOK
    PROVE  /\ commands < MaxCommands => commands + 1 \in 0 .. MaxCommands
           /\ faults < MaxFaults => faults + 1 \in 0 .. MaxFaults
BY ReceiptsAssumption DEF TypeOK

LEMMA CommandsTyped ==
    ASSUME TypeOK,
           \/ \E e \in Expenses : CreateExpense(e)
           \/ \E c \in Clients, e \in Expenses :
                 Read(c, e, "update") \/ Read(c, e, "delete") \/ PutReceipt(c, e)
           \/ \E c \in Clients : ReadForAttach(c) \/ CommandFails(c)
    PROVE  TypeOK'
<1> USE TypesOK
<1> SUFFICES Types'
    BY DEF TypeOK, Types, References, Requests
<1>1. ASSUME NEW e \in Expenses, CreateExpense(e) PROVE Types'
  <2>1. PICK x \in Contents : Write(e, LiveRow(x, NoKey))
      BY <1>1 DEF CreateExpense
  <2>2. LiveRow(x, NoKey) \in Rows \ {Absent}
      BY RowFacts
  <2> QED BY <1>1, <2>1, <2>2, WriteTyped DEF CreateExpense, Types
<1>2. ASSUME NEW c \in Clients, NEW e \in Expenses, NEW o \in {"update", "delete"}, Read(c, e, o) PROVE Types'
  <2>1. row[e] \in LiveRows
      BY <1>2, RowFacts DEF Read, Live, Types
  <2>2. [op |-> o, e |-> e, read |-> row[e]] \in Requests
      BY <2>1, RequestFacts
  <2> QED BY <1>2, <2>2, CountTyped DEF Read, Begin, Types
<1>3. ASSUME NEW c \in Clients, NEW e \in Expenses, PutReceipt(c, e) PROVE Types'
  <2>1. PICK k \in Keys \ used : /\ Begin(c, [op |-> "stored", e |-> e, key |-> k])
                                 /\ objects' = objects \cup {k} /\ used' = used \cup {k}
      BY <1>3 DEF PutReceipt
  <2>2. [op |-> "stored", e |-> e, key |-> k] \in Requests
      BY RequestFacts
  <2> QED BY <1>3, <2>1, <2>2, CountTyped DEF PutReceipt, Begin, Types
<1>4. ASSUME NEW c \in Clients, ReadForAttach(c) PROVE Types'
  <2>1. client[c].e \in Expenses /\ client[c].key \in Keys
      BY <1>4, RequestFacts DEF ReadForAttach, Types
  <2>2. Live(client[c].e) => row[client[c].e] \in LiveRows
      BY <2>1, RowFacts DEF Live, Types
  <2> DEFINE q == IF Live(client[c].e)
                  THEN [op |-> "attach", e |-> client[c].e, key |-> client[c].key, read |-> row[client[c].e]]
                  ELSE Idle
  <2>3. q \in Requests
      BY <2>1, <2>2, RequestFacts
  <2>4. client' = [client EXCEPT ![c] = q]
      BY <1>4 DEF ReadForAttach
  <2> HIDE DEF q
  <2> QED BY <1>4, <2>3, <2>4 DEF ReadForAttach, Types
<1>5. ASSUME NEW c \in Clients, CommandFails(c) PROVE Types'
    BY <1>5, RequestFacts, CountTyped DEF CommandFails, Fault, End, Types
<1> QED BY <1>1, <1>2, <1>3, <1>4, <1>5

LEMMA SweepTyped ==
    ASSUME TypeOK, NEW s \in Sweepers, SweepOrphans(s) \/ DeleteFails(s) \/ SweepEnds(s)
    PROVE  TypeOK'
<1> USE TypesOK
<1> SUFFICES Types'
    BY DEF TypeOK, Types, References, Requests
<1>1. CASE ClaimOrphans(s)
  <2>1. Orphans \in SUBSET Keys
      BY DEF Orphans
  <2> QED BY <1>1, <2>1 DEF ClaimOrphans, Types
<1>2. CASE DeleteObject(s)
    BY <1>2 DEF DeleteObject, Types
<1>3. CASE ForgetObject(s)
  <2>1. deleted[s] \in Keys /\ Unknown \in References
      BY <1>3 DEF ForgetObject, Types, References
  <2> QED BY <1>3, <2>1 DEF ForgetObject, Types
<1>4. CASE DeleteFails(s)
    BY <1>4, CountTyped DEF DeleteFails, Fault, Types
<1>5. CASE SweepEnds(s)
    BY <1>5, CountTyped DEF SweepEnds, Fault, Types
<1> QED BY <1>1, <1>2, <1>3, <1>4, <1>5 DEF SweepOrphans

(* What UpdateExpense, DeleteExpense and AttachReceipt write. *)
LEMMA UpdateWrites ==
    ASSUME TypeOK, NEW c \in Clients, UpdateExpense(c), NEW e, e = client[c].e
    PROVE  /\ e \in Expenses
           /\ \/ ~Live(e) /\ row' = row /\ stream' = stream
              \/ Live(e) /\ \E r \in LiveRows : Write(e, r) /\ r.key = client[c].read.key
<1>1. e \in Expenses /\ client[c].read \in LiveRows
    BY WriterFacts DEF UpdateExpense
<1>2. CASE Live(e)
  <2>1. PICK x \in Contents : Write(e, LiveRow(x, client[c].read.key))
      BY <1>2 DEF UpdateExpense
  <2>2. client[c].read.key \in Keys \cup {NoKey}
      BY <1>1, RowFacts
  <2>3. LiveRow(x, client[c].read.key) \in LiveRows /\ LiveRow(x, client[c].read.key).key = client[c].read.key
      BY <2>2, RowFacts
  <2> QED BY <1>1, <1>2, <2>1, <2>3
<1>3. CASE ~Live(e)
    BY <1>1, <1>3 DEF UpdateExpense
<1> QED BY <1>2, <1>3

LEMMA DeleteWrites ==
    ASSUME TypeOK, NEW c \in Clients, DeleteExpense(c), NEW e, e = client[c].e
    PROVE  /\ e \in Expenses
           /\ \/ ~Live(e) /\ row' = row /\ stream' = stream /\ refs' = refs
              \/ Live(e) /\ Write(e, Removed) /\ refs' = OrphanObjectsFor(refs, e, NoKey)
<1>1. e \in Expenses
    BY WriterFacts DEF DeleteExpense
<1> QED BY <1>1 DEF DeleteExpense

LEMMA AttachWrites ==
    ASSUME TypeOK, NEW c \in Clients, AttachReceipt(c), NEW e, e = client[c].e, NEW k, k = client[c].key
    PROVE  /\ e \in Expenses /\ k \in Keys
           /\ ~Live(e) => row' = row /\ stream' = stream /\ refs' = refs
           /\ Live(e) => \E r \in LiveRows : Write(e, r) /\ r.key = k
           /\ Live(e) => \/ /\ client[c].read.key # NoKey
                            /\ refs' = OrphanObjectsFor([refs EXCEPT ![k] = Ref("active", e)], e, k)
                         \/ /\ client[c].read.key = NoKey
                            /\ refs' = [refs EXCEPT ![k] = Ref("active", e)]
<1>1. e \in Expenses /\ k \in Keys /\ client[c].read \in LiveRows
    BY WriterFacts DEF AttachReceipt
<1>2. CASE Live(e)
  <2> DEFINE r == [client[c].read EXCEPT !.key = k]
  <2>1. r \in LiveRows /\ r.key = k
      BY <1>1, RowFacts
  <2>2. Write(e, r)
      BY <1>2 DEF AttachReceipt
  <2>3. \/ /\ client[c].read.key # NoKey
           /\ refs' = OrphanObjectsFor([refs EXCEPT ![k] = Ref("active", e)], e, k)
        \/ /\ client[c].read.key = NoKey
           /\ refs' = [refs EXCEPT ![k] = Ref("active", e)]
      BY <1>2 DEF AttachReceipt
  <2> HIDE DEF r
  <2> QED BY <1>1, <1>2, <2>1, <2>2, <2>3
<1>3. CASE ~Live(e)
    BY <1>1, <1>3 DEF AttachReceipt
<1> QED BY <1>2, <1>3

LEMMA WritersTyped ==
    ASSUME TypeOK, NEW c \in Clients, UpdateExpense(c) \/ DeleteExpense(c) \/ AttachReceipt(c)
    PROVE  TypeOK'
<1> USE TypesOK
<1> SUFFICES Types'
    BY DEF TypeOK, Types, References, Requests
<1>1. client[c].op \in {"update", "delete", "attach"} /\ Written(c)
      /\ UNCHANGED <<objects, used, sweep, deleted, commands, faults>>
    BY DEF UpdateExpense, DeleteExpense, AttachReceipt
<1>2. client' \in [Clients -> Requests] /\ stale' \subseteq Expenses
    BY <1>1, WrittenTyped
<1>3. PICK e \in Expenses : e = client[c].e
    BY <1>1, WriterFacts
<1>4. \A r \in LiveRows \cup {Removed} : r \in Rows \ {Absent}
    BY RowFacts
<1>5. row' \in [Expenses -> Rows] /\ stream' \in [Expenses -> Seq(Rows \ {Absent})]
  <2>1. (row' = row /\ stream' = stream) \/ \E r \in LiveRows \cup {Removed} : Write(e, r)
      BY <1>3, UpdateWrites, DeleteWrites, AttachWrites
  <2> QED BY <1>4, <2>1, WriteTyped DEF Types
<1>6. refs' \in [Keys -> References]
  <2>0. refs \in [Keys -> References]
      BY DEF Types
  <2>1. CASE UpdateExpense(c)
      BY <2>0, <2>1 DEF UpdateExpense
  <2>2. CASE DeleteExpense(c)
      BY <1>3, <2>0, <2>2, DeleteWrites, OrphanTyped
  <2>3. CASE AttachReceipt(c)
    <3>1. PICK k \in Keys : k = client[c].key
        BY <1>3, <2>3, WriterFacts DEF AttachReceipt
    <3>2. [refs EXCEPT ![k] = Ref("active", e)] \in [Keys -> References]
        BY <2>0, RefShapes
    <3>3. OrphanObjectsFor([refs EXCEPT ![k] = Ref("active", e)], e, k) \in [Keys -> References]
        BY <3>2, OrphanTyped
    <3>4. \/ refs' = refs \/ refs' = [refs EXCEPT ![k] = Ref("active", e)]
          \/ refs' = OrphanObjectsFor([refs EXCEPT ![k] = Ref("active", e)], e, k)
        BY <1>3, <2>3, <3>1, AttachWrites
    <3> QED BY <2>0, <3>2, <3>3, <3>4
  <2> QED BY <2>1, <2>2, <2>3
<1> QED BY <1>1, <1>2, <1>5, <1>6 DEF Types

LEMMA TypesNext == TypeOK /\ [Next]_vars => TypeOK'
<1> SUFFICES ASSUME TypeOK, Next PROVE TypeOK'
    BY DEF vars, TypeOK
<1> QED BY CommandsTyped, WritersTyped, SweepTyped DEF Next

LEMMA TypesInit == Init => TypeOK
<1> SUFFICES ASSUME Init PROVE Types
    BY TypesOK
<1>1. Absent \in Rows /\ Unknown \in References /\ Idle \in Requests
    BY RowFacts, RequestFacts DEF References
<1> QED BY <1>1, ReceiptsAssumption DEF Init, Types

(* The state of every part of the expense side is what its declaration says. *)
THEOREM ReceiptTypes == Spec => []TypeOK
BY TypesInit, TypesNext, PTL DEF Spec
-----------------------------------------------------------------------------
(* The stream and the row. *)

LEMMA WriteAgrees ==
    ASSUME StreamInv, NEW e \in Expenses, NEW r \in Rows \ {Absent}, Write(e, r), row[e] # Removed
    PROVE  StreamAgrees'
<1>1. /\ row'[e] = r /\ stream'[e] = Append(stream[e], r)
      /\ \A f \in Expenses : f # e => row'[f] = row[f] /\ stream'[f] = stream[f]
      /\ stream[e] \in Seq(Rows \ {Absent})
    BY WriteTyped DEF StreamInv, TypeOK
<1>2. /\ Len(stream'[e]) = Len(stream[e]) + 1 /\ Len(stream[e]) \in Nat /\ stream'[e] # <<>>
      /\ stream'[e][Len(stream[e]) + 1] = r
      /\ \A i \in 1 .. Len(stream[e]) : stream'[e][i] = stream[e][i]
    BY <1>1
<1>3. row'[e] = Last(stream'[e])
    BY <1>1, <1>2 DEF Last
<1>4. \A i \in 1 .. Len(stream'[e]) - 1 : stream'[e][i] # Removed
  <2> SUFFICES ASSUME NEW i \in 1 .. Len(stream[e]) PROVE stream[e][i] # Removed
      BY <1>2
  <2>1. CASE i = Len(stream[e])
      BY <1>1, <1>2, <2>1 DEF StreamInv, StreamAgrees, Last
  <2>2. CASE i # Len(stream[e])
      BY <1>2, <2>2 DEF StreamInv, StreamAgrees
  <2> QED BY <2>1, <2>2
<1> QED BY <1>1, <1>2, <1>3, <1>4, ZenonT(30) DEF StreamInv, StreamAgrees

LEMMA StreamNext == StreamInv /\ [Next]_vars => StreamInv'
<1> SUFFICES ASSUME StreamInv, [Next]_vars PROVE StreamInv'
    OBVIOUS
<1>1. TypeOK'
    BY TypesNext DEF StreamInv
<1>2. CASE row' = row /\ stream' = stream
    BY <1>1, <1>2 DEF StreamInv, StreamAgrees
<1>3. ASSUME NEW e \in Expenses, CreateExpense(e) PROVE StreamAgrees'
  <2>1. PICK x \in Contents : Write(e, LiveRow(x, NoKey))
      BY <1>3 DEF CreateExpense
  <2>2. LiveRow(x, NoKey) \in Rows \ {Absent} /\ row[e] # Removed
      BY <1>3, RowFacts DEF CreateExpense
  <2> QED BY <2>1, <2>2, WriteAgrees
<1>4. ASSUME NEW c \in Clients, UpdateExpense(c) \/ DeleteExpense(c) \/ AttachReceipt(c) PROVE StreamAgrees'
  <2>1. PICK e \in Expenses : e = client[c].e
      BY <1>4, WriterFacts DEF StreamInv, UpdateExpense, DeleteExpense, AttachReceipt
  <2>2. \/ row' = row /\ stream' = stream
        \/ Live(e) /\ \E r \in LiveRows \cup {Removed} : Write(e, r)
      BY <1>4, <2>1, UpdateWrites, DeleteWrites, AttachWrites DEF StreamInv
  <2>3. Live(e) => row[e] # Removed
      BY RowFacts DEF Live
  <2>4. \A r \in LiveRows \cup {Removed} : r \in Rows \ {Absent}
      BY RowFacts
  <2> QED BY <1>2, <2>2, <2>3, <2>4, WriteAgrees DEF StreamInv
<1>5. \/ row' = row /\ stream' = stream
      \/ \E e \in Expenses : CreateExpense(e)
      \/ \E c \in Clients : UpdateExpense(c) \/ DeleteExpense(c) \/ AttachReceipt(c)
    BY DEF Next, vars, Read, PutReceipt, ReadForAttach, CommandFails, SweepOrphans, ClaimOrphans,
           DeleteObject, ForgetObject, DeleteFails, SweepEnds
<1> QED BY <1>1, <1>2, <1>3, <1>4, <1>5 DEF StreamInv

(* However the owner's requests overlap, an expense's row is its last event  *)
(* and nothing follows its removal: UpdateExpense, DeleteExpense and         *)
(* AttachReceipt write both in one transaction that a missing row undoes.   *)
THEOREM RowIsLastEvent == Spec => []StreamAgrees
<1>1. Init => StreamInv
    BY TypesInit DEF Init, StreamInv, StreamAgrees
<1>2. StreamInv => StreamAgrees
    BY DEF StreamInv
<1> QED BY <1>1, <1>2, StreamNext, PTL DEF Spec
-----------------------------------------------------------------------------
(* Keys, references and the receipts shown. *)

(* A step of a request that touches no reference and draws no key. *)
LEMMA KeysKept ==
    ASSUME ReceiptInv, UNCHANGED <<objects, refs, used, sweep, deleted>>,
           \A b \in Clients, k \in Keys : Held(b, k)' => Held(b, k)
    PROVE  KeysOwned'
<1>1. \A k : (Swept(k)' <=> Swept(k)) /\ \A e : Active(k, e)' <=> Active(k, e)
    BY DEF Swept, Active
<1> QED BY <1>1 DEF ReceiptInv, KeysOwned

(* A step that changes no expense and neither makes nor unmakes an active    *)
(* reference.                                                               *)
LEMMA ShownKept ==
    ASSUME ReceiptInv, UNCHANGED <<row, stale>>,
           \A k \in Keys, e \in Expenses : Active(k, e)' <=> Active(k, e),
           \A k \in Keys, e \in Expenses : Active(k, e) => k \in objects'
    PROVE  ShownIsActive' /\ ActiveSound'
<1>1. \A e \in Expenses : (Live(e)' <=> Live(e)) /\ (Live(e) /\ row[e].key # NoKey => row[e].key \in Keys)
    BY RowFacts DEF ReceiptInv, TypeOK, Live
<1>2. ActiveSound'
    BY <1>1 DEF ReceiptInv, ActiveSound
<1>3. ShownIsActive'
  <2> SUFFICES ASSUME NEW e \in Expenses \ stale, Live(e), row[e].key # NoKey
               PROVE  refs'[row'[e].key] = Ref("active", e)
      BY <1>1 DEF ShownIsActive, Active
  <2>1. PICK k \in Keys : k = row[e].key
      BY <1>1
  <2>2. Active(k, e)'
      BY <2>1 DEF ReceiptInv, ShownIsActive
  <2> QED BY <2>1, <2>2 DEF Active
<1> QED BY <1>2, <1>3

(* A request that ends, or turns to its next statement, holds nothing new.   *)
LEMMA ReleaseKept ==
    ASSUME ReceiptInv, NEW c \in Clients, NEW q,
           client' = [client EXCEPT ![c] = q],
           q.op \in {"stored", "attach"} => client[c].op \in {"stored", "attach"} /\ q.key = client[c].key
    PROVE  \A b \in Clients, k \in Keys : Held(b, k)' => Held(b, k)
<1>1. client \in [Clients -> Requests]
    BY TypesOK DEF ReceiptInv, Types
<1>2. client'[c] = q /\ \A b \in Clients : b # c => client'[b] = client[b]
    BY <1>1
<1> QED BY <1>2 DEF Held

LEMMA CreateKeeps ==
    ASSUME ReceiptInv, NEW e \in Expenses, CreateExpense(e)
    PROVE  ReceiptInv'
<1>1. TypeOK'
    BY CommandsTyped DEF ReceiptInv
<1>2. UNCHANGED <<objects, refs, used, client, sweep, deleted, stale>> /\ row[e] = Absent
    BY DEF CreateExpense
<1>3. KeysOwned'
    BY <1>2, KeysKept DEF Held
<1>4. PICK x \in Contents : Write(e, LiveRow(x, NoKey))
    BY DEF CreateExpense
<1>5. row'[e].key = NoKey /\ \A f \in Expenses : f # e => row'[f] = row[f]
    BY <1>4, RowFacts, WriteTyped DEF ReceiptInv
<1>6. ~Live(e)
    BY <1>2, RowFacts DEF Live
<1>7. \A k \in Keys : ~Active(k, e)
    BY <1>6 DEF ReceiptInv, ActiveSound
<1>8. ActiveSound'
    BY <1>2, <1>5, <1>7 DEF ReceiptInv, ActiveSound, Active, Live
<1>9. ShownIsActive'
    BY <1>2, <1>5 DEF ReceiptInv, ShownIsActive, Active, Live
<1> QED BY <1>1, <1>3, <1>8, <1>9 DEF ReceiptInv

LEMMA ReadKeeps ==
    ASSUME ReceiptInv, NEW c \in Clients,
           \/ \E e \in Expenses : Read(c, e, "update") \/ Read(c, e, "delete")
           \/ ReadForAttach(c) \/ CommandFails(c)
    PROVE  ReceiptInv'
<1>1. TypeOK'
    BY CommandsTyped DEF ReceiptInv
<1>2. UNCHANGED <<row, objects, refs, used, sweep, deleted, stale>>
    BY DEF Read, ReadForAttach, CommandFails
<1>3. \A k \in Keys, e \in Expenses : (Active(k, e)' <=> Active(k, e)) /\ (Active(k, e) => k \in objects')
    BY <1>2 DEF Active, ReceiptInv, ActiveSound
<1>4. ShownIsActive' /\ ActiveSound'
    BY <1>2, <1>3, ShownKept
<1>5. PICK q : /\ client' = [client EXCEPT ![c] = q]
               /\ q.op \in {"stored", "attach"} => client[c].op \in {"stored", "attach"} /\ q.key = client[c].key
  <2>1. ASSUME NEW e \in Expenses, NEW o \in {"update", "delete"}, Read(c, e, o)
        PROVE  \E q : /\ client' = [client EXCEPT ![c] = q]
                      /\ q.op \in {"stored", "attach"} => client[c].op \in {"stored", "attach"} /\ q.key = client[c].key
    <3> DEFINE q == [op |-> o, e |-> e, read |-> row[e]]
    <3>1. client' = [client EXCEPT ![c] = q] /\ q.op = o
        BY <2>1 DEF Read, Begin
    <3> QED BY <3>1
  <2>2. CASE ReadForAttach(c)
    <3> DEFINE q == IF Live(client[c].e)
                    THEN [op |-> "attach", e |-> client[c].e, key |-> client[c].key, read |-> row[client[c].e]]
                    ELSE Idle
    <3>1. client' = [client EXCEPT ![c] = q] /\ client[c].op = "stored"
        BY <2>2 DEF ReadForAttach
    <3>2. q.op = "idle" \/ q.key = client[c].key
        BY RequestFacts
    <3> HIDE DEF q
    <3> QED BY <3>1, <3>2
  <2>3. CASE CommandFails(c)
      BY <2>3, RequestFacts DEF CommandFails, End
  <2> QED BY <2>1, <2>2, <2>3
<1>6. KeysOwned'
    BY <1>2, <1>5, KeysKept, ReleaseKept
<1> QED BY <1>1, <1>4, <1>6 DEF ReceiptInv

(* A new key is nobody's: not held, tracked or swept. *)
LEMMA PutKeeps ==
    ASSUME ReceiptInv, NEW c \in Clients, NEW e \in Expenses, PutReceipt(c, e)
    PROVE  ReceiptInv'
<1>1. TypeOK'
    BY CommandsTyped DEF ReceiptInv
<1>2. PICK k \in Keys \ used : /\ client' = [client EXCEPT ![c] = [op |-> "stored", e |-> e, key |-> k]]
                               /\ objects' = objects \cup {k} /\ used' = used \cup {k}
                               /\ client[c] = Idle
    BY DEF PutReceipt, Begin
<1>3. UNCHANGED <<row, refs, sweep, deleted, stale>>
    BY DEF PutReceipt
<1>4. \A j \in Keys : (Swept(j)' <=> Swept(j)) /\ \A f : Active(j, f)' <=> Active(j, f)
    BY <1>3 DEF Swept, Active
<1>5. \A j \in Keys, f \in Expenses : Active(j, f) => j \in objects'
    BY <1>2 DEF ReceiptInv, ActiveSound
<1>6. ShownIsActive' /\ ActiveSound'
    BY <1>3, <1>4, <1>5, ShownKept
<1>7. objects \subseteq used /\ client \in [Clients -> Requests]
    BY TypesOK DEF ReceiptInv, Types
<1>8. refs[k] = Unknown /\ ~Swept(k) /\ \A b \in Clients : ~Held(b, k)
    BY <1>2, <1>7 DEF ReceiptInv, KeysOwned
<1>9. \A b \in Clients, j \in Keys : Held(b, j)' => Held(b, j) \/ (b = c /\ j = k)
    BY <1>2, <1>7 DEF Held
<1>10. KeysOwned'
    BY <1>2, <1>3, <1>4, <1>8, <1>9 DEF ReceiptInv, KeysOwned
<1> QED BY <1>1, <1>6, <1>10 DEF ReceiptInv

(* The end of a writing request, for the keys. *)
LEMMA WriterReleases ==
    ASSUME ReceiptInv, NEW c \in Clients, UpdateExpense(c) \/ DeleteExpense(c) \/ AttachReceipt(c)
    PROVE  /\ UNCHANGED <<objects, used, sweep, deleted>>
           /\ \A b \in Clients, k \in Keys : Held(b, k)' => Held(b, k) /\ b # c
           /\ ~Live(client[c].e) => stale' = stale
           /\ stale \subseteq stale' /\ \A f \in Expenses : f \in stale' => f \in stale \/ f = client[c].e
           /\ Live(client[c].e) /\ client[c].e \notin stale' => client[c].read = row[client[c].e]
<1>1. client[c].op \in {"update", "delete", "attach"} /\ Written(c)
      /\ UNCHANGED <<objects, used, sweep, deleted>>
    BY DEF UpdateExpense, DeleteExpense, AttachReceipt
<1>2. /\ client'[c] = Idle /\ \A b \in Clients : b # c => client'[b] = client[b]
      /\ stale \subseteq stale' /\ \A f \in Expenses : f \in stale' => f \in stale \/ f = client[c].e
      /\ Live(client[c].e) /\ client[c].e \notin stale' => client[c].read = row[client[c].e]
    BY <1>1, WrittenTyped DEF ReceiptInv
<1>3. ~Live(client[c].e) => stale' = stale
    BY <1>1 DEF Written
<1>4. \A b \in Clients, k \in Keys : Held(b, k)' => Held(b, k) /\ b # c
    BY <1>2, RequestFacts DEF Held
<1> QED BY <1>1, <1>2, <1>3, <1>4

LEMMA UpdateKeeps ==
    ASSUME ReceiptInv, NEW c \in Clients, UpdateExpense(c)
    PROVE  ReceiptInv'
<1>1. TypeOK'
    BY WritersTyped DEF ReceiptInv
<1>2. PICK e \in Expenses : e = client[c].e
    BY WriterFacts DEF ReceiptInv, UpdateExpense
<1>3. /\ UNCHANGED <<objects, used, sweep, deleted>>
      /\ \A b \in Clients, k \in Keys : Held(b, k)' => Held(b, k)
      /\ ~Live(e) => stale' = stale
      /\ stale \subseteq stale' /\ \A f \in Expenses : f \in stale' => f \in stale \/ f = e
      /\ Live(e) /\ e \notin stale' => client[c].read = row[e]
    BY <1>2, WriterReleases
<1>4. refs' = refs
    BY DEF UpdateExpense
<1>5. KeysOwned'
    BY <1>3, <1>4, KeysKept
<1>6. \A k \in Keys, f \in Expenses : (Active(k, f)' <=> Active(k, f)) /\ (Active(k, f) => k \in objects')
    BY <1>3, <1>4 DEF Active, ReceiptInv, ActiveSound
<1>7. CASE ~Live(e)
  <2>1. row' = row /\ stale' = stale
      BY <1>2, <1>3, <1>7, UpdateWrites DEF ReceiptInv
  <2> QED BY <1>1, <1>5, <1>6, <2>1, ShownKept DEF ReceiptInv
<1>8. CASE Live(e)
  <2>1. PICK r \in LiveRows : Write(e, r) /\ r.key = client[c].read.key
      BY <1>2, <1>8, UpdateWrites DEF ReceiptInv
  <2>2. r \in Rows \ {Absent} /\ r.state = "live"
      BY RowFacts
  <2>3. row'[e] = r /\ \A f \in Expenses : f # e => row'[f] = row[f]
      BY <2>1, <2>2, WriteTyped DEF ReceiptInv
  <2>4. e \notin stale' => row'[e].key = row[e].key
      BY <1>3, <1>8, <2>1, <2>3
  <2>5. ActiveSound'
      BY <1>3, <1>6, <2>2, <2>3, <2>4 DEF ReceiptInv, ActiveSound, Live
  <2>6. ShownIsActive'
      BY <1>3, <1>4, <1>8, <2>3, <2>4 DEF ReceiptInv, ShownIsActive, Live, Active
  <2> QED BY <1>1, <1>5, <2>5, <2>6 DEF ReceiptInv
<1> QED BY <1>7, <1>8

LEMMA DeleteKeeps ==
    ASSUME ReceiptInv, NEW c \in Clients, DeleteExpense(c)
    PROVE  ReceiptInv'
<1>1. TypeOK' /\ NoKey \notin Keys /\ refs \in [Keys -> References]
    BY WritersTyped, TypesOK, ReceiptsAssumption DEF ReceiptInv, Types
<1>2. PICK e \in Expenses : e = client[c].e
    BY WriterFacts DEF ReceiptInv, DeleteExpense
<1>3. /\ UNCHANGED <<objects, used, sweep, deleted>>
      /\ \A b \in Clients, k \in Keys : Held(b, k)' => Held(b, k)
      /\ ~Live(e) => stale' = stale
      /\ stale \subseteq stale' /\ \A f \in Expenses : f \in stale' => f \in stale \/ f = e
    BY <1>2, WriterReleases
<1>4. CASE ~Live(e)
  <2>1. row' = row /\ stale' = stale /\ refs' = refs
      BY <1>2, <1>3, <1>4, DeleteWrites DEF ReceiptInv
  <2>2. \A k \in Keys, f \in Expenses : (Active(k, f)' <=> Active(k, f)) /\ (Active(k, f) => k \in objects')
      BY <1>3, <2>1 DEF Active, ReceiptInv, ActiveSound
  <2> QED BY <1>1, <1>3, <2>1, <2>2, KeysKept, ShownKept DEF ReceiptInv
<1>5. CASE Live(e)
  <2>1. Write(e, Removed) /\ refs' = OrphanObjectsFor(refs, e, NoKey)
      BY <1>2, <1>5, DeleteWrites DEF ReceiptInv
  <2>2. row'[e] = Removed /\ \A f \in Expenses : f # e => row'[f] = row[f]
      BY <2>1, RowFacts, WriteTyped DEF ReceiptInv
  <2>3. \A k \in Keys : refs'[k] = IF refs[k] = Ref("active", e) THEN Ref("orphaned", e) ELSE refs[k]
      BY <1>1, <2>1, OrphanTyped
  <2>4. \A k \in Keys : /\ refs'[k] = Unknown <=> refs[k] = Unknown
                        /\ \A f \in Expenses : Active(k, f)' <=> Active(k, f) /\ f # e
      BY <2>3, RefFacts DEF Active
  <2>5. \A k : Swept(k)' <=> Swept(k)
      BY <1>3 DEF Swept
  <2>6. KeysOwned'
      BY <1>3, <2>4, <2>5 DEF ReceiptInv, KeysOwned
  <2>7. ActiveSound'
      BY <1>3, <2>2, <2>4 DEF ReceiptInv, ActiveSound, Live
  <2>8. ShownIsActive'
    <3> SUFFICES ASSUME NEW f \in Expenses \ stale', Live(f)', row'[f].key # NoKey
                 PROVE  refs'[row'[f].key] = Ref("active", f)
        BY DEF ShownIsActive, Active
    <3>1. f # e
        BY <2>2, RowFacts DEF Live
    <3>2. Live(f) /\ f \notin stale /\ row'[f] = row[f]
        BY <1>3, <2>2, <3>1 DEF Live
    <3>3. PICK k \in Keys : k = row[f].key
        BY <3>2, RowFacts DEF ReceiptInv, TypeOK, Live
    <3>4. Active(k, f)
        BY <3>2, <3>3 DEF ReceiptInv, ShownIsActive
    <3> QED BY <2>4, <3>1, <3>2, <3>3, <3>4 DEF Active
  <2> QED BY <1>1, <2>6, <2>7, <2>8 DEF ReceiptInv
<1> QED BY <1>4, <1>5

(* The attached key was its request's own, so nothing tracks or sweeps it.   *)
LEMMA AttachKeeps ==
    ASSUME ReceiptInv, NEW c \in Clients, AttachReceipt(c)
    PROVE  ReceiptInv'
<1>1. TypeOK' /\ NoKey \notin Keys /\ refs \in [Keys -> References]
    BY WritersTyped, TypesOK, ReceiptsAssumption DEF ReceiptInv, Types
<1>2. PICK e \in Expenses, k \in Keys : e = client[c].e /\ k = client[c].key
    BY WriterFacts DEF ReceiptInv, AttachReceipt
<1>3. /\ UNCHANGED <<objects, used, sweep, deleted>>
      /\ \A b \in Clients, j \in Keys : Held(b, j)' => Held(b, j) /\ b # c
      /\ ~Live(e) => stale' = stale
      /\ stale \subseteq stale' /\ \A f \in Expenses : f \in stale' => f \in stale \/ f = e
      /\ Live(e) /\ e \notin stale' => client[c].read = row[e]
    BY <1>2, WriterReleases
<1>4. CASE ~Live(e)
  <2>1. row' = row /\ stale' = stale /\ refs' = refs
      BY <1>2, <1>3, <1>4, AttachWrites DEF ReceiptInv
  <2>2. \A j \in Keys, f \in Expenses : (Active(j, f)' <=> Active(j, f)) /\ (Active(j, f) => j \in objects')
      BY <1>3, <2>1 DEF Active, ReceiptInv, ActiveSound
  <2> QED BY <1>1, <1>3, <2>1, <2>2, KeysKept, ShownKept DEF ReceiptInv
<1>5. CASE Live(e)
  <2>1. Held(c, k)
      BY <1>2 DEF Held, AttachReceipt
  <2>2. /\ k \in objects /\ refs[k] = Unknown /\ ~Swept(k) /\ k \in used
        /\ \A b \in Clients : ~Held(b, k)'
      BY <1>3, <2>1 DEF ReceiptInv, KeysOwned, TypeOK
  <2>3. PICK r \in LiveRows : Write(e, r) /\ r.key = k
    <3> DEFINE r == [client[c].read EXCEPT !.key = k]
    <3>1. client[c].read \in LiveRows
        BY WriterFacts DEF ReceiptInv, AttachReceipt
    <3>2. r \in LiveRows /\ r.key = k
        BY <3>1, RowFacts
    <3>3. Write(e, r)
        BY <1>2, <1>5 DEF AttachReceipt
    <3> HIDE DEF r
    <3> QED BY <3>2, <3>3
  <2>4. \/ /\ client[c].read.key # NoKey
           /\ refs' = OrphanObjectsFor([refs EXCEPT ![k] = Ref("active", e)], e, k)
        \/ /\ client[c].read.key = NoKey
           /\ refs' = [refs EXCEPT ![k] = Ref("active", e)]
      BY <1>2, <1>5, AttachWrites DEF ReceiptInv
  <2>5. r \in Rows \ {Absent} /\ r.state = "live"
      BY RowFacts
  <2>6. row'[e] = r /\ \A f \in Expenses : f # e => row'[f] = row[f]
      BY <2>3, <2>5, WriteTyped DEF ReceiptInv
  <2>7. /\ refs'[k] = Ref("active", e)
        /\ \A j \in Keys : j # k =>
              \/ refs'[j] = refs[j] /\ (client[c].read.key # NoKey => refs[j] # Ref("active", e))
              \/ refs[j] = Ref("active", e) /\ refs'[j] = Ref("orphaned", e)
    <3> DEFINE tracked == [refs EXCEPT ![k] = Ref("active", e)]
    <3>1. tracked \in [Keys -> References] /\ tracked[k] = Ref("active", e) /\ \A j \in Keys : j # k => tracked[j] = refs[j]
        BY <1>1, RefShapes
    <3> HIDE DEF tracked
    <3>2. \A j \in Keys : OrphanObjectsFor(tracked, e, k)[j] =
              IF tracked[j] = Ref("active", e) /\ j # k THEN Ref("orphaned", e) ELSE tracked[j]
        BY <3>1, OrphanTyped
    <3>3. (client[c].read.key # NoKey /\ refs' = OrphanObjectsFor(tracked, e, k)) \/ (client[c].read.key = NoKey /\ refs' = tracked)
        BY <2>4 DEF tracked
    <3> QED BY <3>1, <3>2, <3>3
  <2>8. /\ \A f \in Expenses : Active(k, f)' <=> f = e
        /\ \A j \in Keys : j # k =>
              /\ refs'[j] = Unknown <=> refs[j] = Unknown
              /\ \A f \in Expenses : /\ Active(j, f)' => Active(j, f) /\ (f = e => client[c].read.key = NoKey)
                                     /\ Active(j, f) /\ f # e => Active(j, f)'
      BY <2>7, RefFacts DEF Active
  <2>9. \A j : Swept(j)' <=> Swept(j)
      BY <1>3 DEF Swept
  <2>10. KeysOwned'
    <3> SUFFICES ASSUME NEW j \in Keys
                 PROVE  /\ refs'[j] # Unknown \/ Swept(j)' => j \in used
                        /\ \A b \in Clients : Held(b, j)' =>
                              /\ j \in objects /\ refs'[j] = Unknown /\ ~Swept(j)'
                              /\ \A a \in Clients : Held(a, j)' => a = b
                        /\ Swept(j)' => \A f \in Expenses : ~Active(j, f)'
        BY <1>3 DEF KeysOwned
    <3>1. CASE j = k
        BY <2>2, <2>9, <3>1
    <3>2. CASE j # k
        BY <1>3, <2>8, <2>9, <3>2 DEF ReceiptInv, KeysOwned
    <3> QED BY <3>1, <3>2
  <2>11. ActiveSound'
    <3> SUFFICES ASSUME NEW j \in Keys, NEW f \in Expenses, Active(j, f)'
                 PROVE  j \in objects' /\ Live(f)' /\ (f \notin stale' => row'[f].key = j)
        BY DEF ActiveSound
    <3>1. CASE j = k
        BY <1>3, <2>2, <2>3, <2>5, <2>6, <2>8, <3>1 DEF Live
    <3>2. CASE j # k /\ f # e
        BY <1>3, <2>6, <2>8, <3>2 DEF ReceiptInv, ActiveSound, Live
    <3>3. CASE j # k /\ f = e
      <4>1. Active(j, e) /\ client[c].read.key = NoKey
          BY <2>8, <3>3
      <4>2. e \in stale'
          BY <1>1, <1>3, <1>5, <4>1 DEF ReceiptInv, ActiveSound
      <4> QED BY <1>3, <2>5, <2>6, <3>3, <4>1, <4>2 DEF ReceiptInv, ActiveSound, Live
    <3> QED BY <3>1, <3>2, <3>3
  <2>12. ShownIsActive'
    <3> SUFFICES ASSUME NEW f \in Expenses \ stale', Live(f)', row'[f].key # NoKey
                 PROVE  refs'[row'[f].key] = Ref("active", f)
        BY DEF ShownIsActive, Active
    <3>1. CASE f = e
        BY <2>3, <2>6, <2>7, <3>1
    <3>2. CASE f # e
      <4>1. Live(f) /\ f \notin stale /\ row'[f] = row[f]
          BY <1>3, <2>6, <3>2 DEF Live
      <4>2. PICK j \in Keys : j = row[f].key
          BY <4>1, RowFacts DEF ReceiptInv, TypeOK, Live
      <4>3. Active(j, f)
          BY <4>1, <4>2 DEF ReceiptInv, ShownIsActive
      <4>4. j # k
          BY <2>2, <4>3, RefFacts DEF Active
      <4> QED BY <2>8, <3>2, <4>1, <4>2, <4>3, <4>4 DEF Active
    <3> QED BY <3>1, <3>2
  <2> QED BY <1>1, <2>10, <2>11, <2>12 DEF ReceiptInv
<1> QED BY <1>4, <1>5

(* A step of a sweeper: what it takes on is orphaned, and what it deletes or *)
(* forgets it had taken on.                                                 *)
LEMMA SweepKept ==
    ASSUME ReceiptInv, TypeOK', UNCHANGED <<row, stale, client, used>>,
           \A k \in Keys : Swept(k)' => Swept(k) \/ refs[k].state = "orphaned",
           \A k \in Keys : Swept(k) \/ (refs'[k] = refs[k] /\ (k \in objects => k \in objects')),
           \A k \in Keys : refs'[k] = refs[k] \/ refs'[k] = Unknown
    PROVE  ReceiptInv'
<1>1. \A b, k : Held(b, k)' <=> Held(b, k)
    BY DEF Held
<1>2. \A k \in Keys, e \in Expenses : Active(k, e)' <=> Active(k, e)
    BY RefFacts DEF ReceiptInv, KeysOwned, Active
<1>3. \A k \in Keys, e \in Expenses : Active(k, e) => k \in objects'
    BY DEF ReceiptInv, KeysOwned, ActiveSound
<1>4. ShownIsActive' /\ ActiveSound'
    BY <1>2, <1>3, ShownKept
<1>5. \A k \in Keys : refs[k].state = "orphaned" => refs[k] # Unknown /\ \A e \in Expenses : ~Active(k, e)
    BY RefFacts DEF Active
<1>6. KeysOwned'
  <2> SUFFICES ASSUME NEW k \in Keys
               PROVE  /\ refs'[k] # Unknown \/ Swept(k)' => k \in used
                      /\ \A b \in Clients : Held(b, k) =>
                            /\ k \in objects' /\ refs'[k] = Unknown /\ ~Swept(k)'
                            /\ \A a \in Clients : Held(a, k) => a = b
                      /\ Swept(k)' => \A e \in Expenses : ~Active(k, e)
      BY <1>1, <1>2 DEF KeysOwned
  <2>1. refs'[k] # Unknown \/ Swept(k)' => k \in used
      BY <1>5 DEF ReceiptInv, KeysOwned
  <2>2. ASSUME NEW b \in Clients, Held(b, k)
        PROVE  /\ k \in objects' /\ refs'[k] = Unknown /\ ~Swept(k)'
               /\ \A a \in Clients : Held(a, k) => a = b
      BY <1>5, <2>2 DEF ReceiptInv, KeysOwned
  <2>3. Swept(k)' => \A e \in Expenses : ~Active(k, e)
      BY <1>5 DEF ReceiptInv, KeysOwned
  <2> QED BY <2>1, <2>2, <2>3
<1> QED BY <1>4, <1>6 DEF ReceiptInv

LEMMA SweepKeeps ==
    ASSUME ReceiptInv, NEW s \in Sweepers, SweepOrphans(s) \/ DeleteFails(s) \/ SweepEnds(s)
    PROVE  ReceiptInv'
<1>1. TypeOK' /\ refs \in [Keys -> References] /\ sweep \in [Sweepers -> SUBSET Keys]
      /\ deleted \in [Sweepers -> Keys \cup {NoKey}] /\ NoKey \notin Keys
    BY SweepTyped, TypesOK, ReceiptsAssumption DEF ReceiptInv, Types
<1>2. UNCHANGED <<row, stale, client, used>>
    BY DEF SweepOrphans, ClaimOrphans, DeleteObject, ForgetObject, DeleteFails, SweepEnds
<1>3. CASE ClaimOrphans(s)
  <2>1. UNCHANGED <<objects, refs, deleted>> /\ sweep' = [sweep EXCEPT ![s] = Orphans]
      BY <1>3 DEF ClaimOrphans
  <2>2. \A k \in Keys : Swept(k)' => Swept(k) \/ refs[k].state = "orphaned"
      BY <1>1, <2>1 DEF Swept, Orphans
  <2> QED BY <1>1, <1>2, <2>1, <2>2, SweepKept
<1>4. CASE DeleteObject(s)
  <2>1. PICK d \in sweep[s] : /\ objects' = objects \ {d} /\ deleted' = [deleted EXCEPT ![s] = d]
                              /\ sweep' = [sweep EXCEPT ![s] = @ \ {d}] /\ refs' = refs
      BY <1>4 DEF DeleteObject
  <2>2. Swept(d)
      BY DEF Swept
  <2>3. \A k \in Keys : Swept(k)' => Swept(k)
      BY <1>1, <2>1 DEF Swept
  <2> QED BY <1>1, <1>2, <2>1, <2>2, <2>3, SweepKept
<1>5. CASE ForgetObject(s)
  <2>1. PICK d \in Keys : d = deleted[s]
      BY <1>1, <1>5 DEF ForgetObject
  <2>2. Swept(d)
      BY <2>1 DEF Swept
  <2>3. refs' = [refs EXCEPT ![d] = Unknown] /\ deleted' = [deleted EXCEPT ![s] = NoKey] /\ UNCHANGED <<objects, sweep>>
      BY <1>5, <2>1 DEF ForgetObject
  <2>4. \A k \in Keys : Swept(k)' => Swept(k)
      BY <1>1, <2>3 DEF Swept
  <2>5. refs'[d] = Unknown /\ \A k \in Keys : k # d => refs'[k] = refs[k]
      BY <1>1, <2>3
  <2> QED BY <1>1, <1>2, <2>2, <2>3, <2>4, <2>5, SweepKept
<1>6. CASE DeleteFails(s) \/ SweepEnds(s)
  <2>1. UNCHANGED <<objects, refs>>
      BY <1>6 DEF DeleteFails, SweepEnds
  <2>2. \A k \in Keys : Swept(k)' => Swept(k)
    <3>1. CASE DeleteFails(s)
        BY <1>1, <3>1 DEF DeleteFails, Swept
    <3>2. CASE SweepEnds(s)
        BY <1>1, <3>2 DEF SweepEnds, Swept
    <3> QED BY <1>6, <3>1, <3>2
  <2> QED BY <1>1, <1>2, <2>1, <2>2, SweepKept
<1> QED BY <1>3, <1>4, <1>5, <1>6 DEF SweepOrphans

LEMMA ReceiptNext == ReceiptInv /\ [Next]_vars => ReceiptInv'
<1> SUFFICES ASSUME ReceiptInv, [Next]_vars PROVE ReceiptInv'
    OBVIOUS
<1>1. CASE UNCHANGED vars
  <2>1. TypeOK'
      BY <1>1, TypesNext DEF ReceiptInv
  <2>2. \A k : Swept(k)' <=> Swept(k)
      BY <1>1 DEF Swept, vars
  <2> QED BY <1>1, <2>1, <2>2, SweepKept DEF vars
<1>2. CASE Next
    BY <1>2, CreateKeeps, ReadKeeps, PutKeeps, UpdateKeeps, DeleteKeeps, AttachKeeps, SweepKeeps DEF Next
<1> QED BY <1>1, <1>2

LEMMA ReceiptInit == Init => ReceiptInv
<1> SUFFICES ASSUME Init PROVE ReceiptInv
    OBVIOUS
<1>1. TypeOK
    BY TypesInit
<1>2. \A k \in Keys : refs[k] = Unknown /\ \A e : ~Active(k, e)
    BY RefFacts DEF Init, Active
<1>3. \A k \in Keys, c \in Clients : ~Held(c, k) /\ ~Swept(k)
    BY RequestFacts, ReceiptsAssumption DEF Init, Held, Swept
<1>4. \A e \in Expenses : ~Live(e)
    BY RowFacts DEF Init, Live
<1>5. \A k \in Keys : ~Swept(k)
    BY ReceiptsAssumption DEF Init, Swept
<1>6. KeysOwned
    BY <1>2, <1>3, <1>5 DEF KeysOwned
<1>7. ShownIsActive /\ ActiveSound
    BY <1>2, <1>4 DEF ShownIsActive, ActiveSound
<1> QED BY <1>1, <1>6, <1>7 DEF ReceiptInv

LEMMA ReceiptSound == ReceiptInv => NothingDangles
<1> SUFFICES ASSUME ReceiptInv PROVE NothingDangles
    OBVIOUS
<1>1. \A k \in Keys : refs[k].state = "active" => \E e \in Expenses : Active(k, e)
    BY TypesOK, RefShapes, RefFacts DEF ReceiptInv, Types, Active
<1>2. \A k \in Keys, e \in Expenses : Active(k, e) => refs[k].resource = e
    BY RefFacts DEF Active
<1>3. ActiveIsStored
    BY <1>1 DEF ReceiptInv, ActiveSound, ActiveIsStored
<1>4. ReplacedIsOrphaned
    BY <1>1, <1>2 DEF ReceiptInv, ActiveSound, ReplacedIsOrphaned
<1>5. DeletedKeepsNothing
    BY RowFacts DEF ReceiptInv, ActiveSound, DeletedKeepsNothing, Live, Active
<1>6. ReceiptIsStored
  <2> SUFFICES ASSUME NEW e \in Expenses \ stale, Live(e), row[e].key # NoKey PROVE row[e].key \in objects
      BY DEF ReceiptIsStored
  <2>1. row[e].key \in Keys
      BY RowFacts DEF ReceiptInv, TypeOK, Live
  <2>2. Active(row[e].key, e)
      BY DEF ReceiptInv, ShownIsActive
  <2> QED BY <2>1, <2>2 DEF ReceiptInv, ActiveSound
<1> QED BY <1>3, <1>4, <1>5, <1>6 DEF NothingDangles

(* However owners, sweepers of several replicas and failures interleave, no  *)
(* active object leaves the store, the receipt an expense shows can be       *)
(* downloaded, a replaced receipt is orphaned (both unless a request wrote   *)
(* from an outdated read), and a deleted expense keeps nothing               *)
(* (AttachReceipt, DeleteExpense, sweepOrphanedObjects).                    *)
THEOREM ReceiptsNeverDangle == Spec => []NothingDangles
BY ReceiptInit, ReceiptNext, ReceiptSound, PTL DEF Spec
=============================================================================
