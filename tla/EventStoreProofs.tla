-------------------------- MODULE EventStoreProofs --------------------------
(***************************************************************************)
(* Proofs about EventStore for every set of commands, aggregates,           *)
(* subscriptions and starting replicas.                                     *)
(***************************************************************************)
EXTENDS EventStore, FiniteSetTheorems, TLAPS

(* A unit of work that has not ended, begun or not. *)
Live(t) == step[t] \notin {"committed", "aborted"}

StoreTyped ==
    /\ events \subseteq Event /\ nextSeq \in Nat /\ subs \subseteq Subscriptions
    /\ lock \in [Aggregates -> Txns \cup {Nobody}]
    /\ step \in [Txns -> TxnStep]
    /\ at \in [Txns -> Int] /\ \A t \in Txns : at[t] \in 1..Len(Plan[t])
    /\ version \in [Txns -> Nat]
    /\ written \in [Txns -> SUBSET Event]
    /\ fanned = [t \in Txns |-> fanned[t]]
    /\ reg \in [Registrars -> RegStep]
    /\ backfill \in [Registrars -> SUBSET (Nat \X Subscriptions)]

(* The advisory locks: a unit of work holds the lock of every aggregate it   *)
(* wrote to and, between lock and fan-out, of the one it is about to write,  *)
(* and none once it has ended.                                              *)
Locked ==
    \A t \in Txns :
        /\ Live(t) => \A e \in written[t] : lock[e.agg] = t
        /\ step[t] \in {"version", "insert", "fanout"} => lock[Target(t)] = t
        /\ ~Live(t) => \A a \in Aggregates : lock[a] # t

(* The log is what the units of work that committed wrote. *)
Committed ==
    /\ \A e \in events : \E t \in Txns : step[t] = "committed" /\ e \in written[t]
    /\ \A t \in Txns : step[t] = "committed" => written[t] \subseteq events
    /\ \A t \in Txns : step[t] = "lock" /\ at[t] = 1 => written[t] = {}

(* global_seq names an event. *)
SeqsUnique ==
    /\ \A t \in Txns : \A e \in written[t] : e.seq < nextSeq
    /\ \A t, u \in Txns : \A e \in written[t], f \in written[u] : e.seq = f.seq => t = u /\ e = f

(* What a unit of work sees of an aggregate is numbered 1, 2, ... *)
Numbered ==
    \A a \in Aggregates :
        /\ \E n \in Nat : VersionsOf(a, events) = 1..n
        /\ \A t \in Txns : Live(t) => \E n \in Nat : VersionsOf(a, events \cup written[t]) = 1..n

(* ... in the order of global_seq. *)
InOrder(es) ==
    \A e, f \in es : e.agg = f.agg =>
        (e.ver < f.ver <=> e.seq < f.seq) /\ (e.ver = f.ver => e = f)

Ordered ==
    /\ InOrder(events)
    /\ \A t \in Txns : Live(t) => InOrder(events \cup written[t])

(* The version an Append read is still the next one when it inserts. *)
VersionFresh ==
    \A t \in Txns : step[t] = "insert" =>
        /\ version[t] > 0
        /\ VersionsOf(Target(t), events \cup written[t]) = 1..(version[t] - 1)

(* What is in flight comes after what is visible of its aggregate. *)
Later ==
    \A t \in Txns : Live(t) => \A e \in written[t], f \in events : e.agg = f.agg => f.seq < e.seq

StreamInv == /\ StoreTyped /\ Locked /\ Committed /\ SeqsUnique
             /\ Numbered /\ Ordered /\ VersionFresh /\ Later

(* Registrars: one at a time registers a name, a new one, and every unit of  *)
(* work open meanwhile has met it.                                          *)
Registration ==
    \A r \in Registrars : Registering(r) =>
        /\ Registers[r] \notin subs
        /\ \A q \in Registrars : Registering(q) /\ Registers[q] = Registers[r] => q = r
        /\ \A t \in Txns : Open(t) => <<t, Registers[r]>> \in met

(* The backfill covers what had committed before; what commits later has met *)
(* the subscription.                                                        *)
Backfilled ==
    \A r \in Registrars : reg[r] = "commit" =>
        /\ \A x \in backfill[r] : \E e \in events : x = <<e.seq, Registers[r]>>
        /\ \A t \in Txns : step[t] = "committed" /\ <<t, Registers[r]>> \notin met
              => \A e \in written[t] : <<e.seq, Registers[r]>> \in backfill[r]

(* Each event of a unit of work but the one about to be fanned out has its   *)
(* delivery rows.                                                           *)
Newest(t, e) == \A f \in written[t] : f.seq <= e.seq

FannedOut ==
    \A t \in Txns :
        /\ \A x \in fanned[t] : \E e \in written[t], s \in subs : x = <<e.seq, s>>
        /\ step[t] = "fanout" => \E e \in written[t] : Newest(t, e)
        /\ Live(t) => \A e \in written[t], s \in subs :
              \/ <<t, s>> \in met
              \/ <<e.seq, s>> \in fanned[t]
              \/ step[t] = "fanout" /\ Newest(t, e)

(* FanOutWhenApart. *)
OutboxSound == \A x \in outbox : \E e \in events, s \in subs : x = <<e.seq, s>>

Covered ==
    \A t \in Txns, s \in subs : step[t] = "committed" /\ <<t, s>> \notin met
        => \A e \in written[t] : <<e.seq, s>> \in outbox

FanOutInv == StreamInv /\ Registration /\ Backfilled /\ FannedOut /\ OutboxSound /\ Covered
-----------------------------------------------------------------------------
LEMMA InVersions ==
    ASSUME NEW a, NEW es
    PROVE  \A v : v \in VersionsOf(a, es) <=> \E e \in es : e.agg = a /\ e.ver = v
BY DEF VersionsOf

(* The versions of an aggregate depend on its events only. *)
LEMMA SameVersions ==
    ASSUME NEW a, NEW es, NEW fs, \A e : e.agg = a => (e \in es <=> e \in fs)
    PROVE  VersionsOf(a, es) = VersionsOf(a, fs)
<1>1. \A v : v \in VersionsOf(a, es) <=> v \in VersionsOf(a, fs)
    BY InVersions
<1> QED BY <1>1

LEMMA MaxIs ==
    ASSUME NEW S, NEW n \in S, \A y \in S : y \in Nat /\ y <= n
    PROVE  Max(S) = n
<1>1. ASSUME NEW x \in S, \A y \in S : x >= y PROVE x = n
  <2>1. x >= n /\ x <= n /\ x \in Nat /\ n \in Nat
      BY <1>1
  <2> QED BY <2>1
<1>2. \A y \in S : n >= y
    OBVIOUS
<1> QED BY <1>1, <1>2 DEF Max

(* coalesce(max(aggregate_version), 0) of a dense stream is its length. *)
LEMMA MaxTo ==
    ASSUME NEW n \in Nat
    PROVE  Max({0} \cup 1..n) = n
<1>1. n \in {0} \cup 1..n /\ \A y \in {0} \cup 1..n : y \in Nat /\ y <= n
    OBVIOUS
<1> QED BY <1>1, MaxIs

LEMMA TargetTyped == StoreTyped => \A t \in Txns : Target(t) \in Aggregates
BY EventStoreAssumption DEF StoreTyped, Target

LEMMA StreamInit == Init => StreamInv
<1> SUFFICES ASSUME Init PROVE StreamInv OBVIOUS
<1> USE DEF Init
<1>1. StoreTyped
  <2>1. \A t \in Txns : Len(Plan[t]) \in Nat /\ Len(Plan[t]) # 0
      BY EventStoreAssumption
  <2>2. \A t \in Txns : at[t] \in 1..Len(Plan[t])
      BY <2>1
  <2> QED BY <2>2, EventStoreAssumption DEF StoreTyped, TxnStep, RegStep
<1>2. Locked /\ Committed /\ SeqsUnique /\ VersionFresh /\ Later
    BY DEF Locked, Committed, SeqsUnique, VersionFresh, Later, Live
<1>3. Numbered
  <2>1. \A a \in Aggregates : VersionsOf(a, {}) = 1..0
      BY InVersions
  <2>2. \A t \in Txns : events \cup written[t] = {}
      OBVIOUS
  <2> QED BY <2>1, <2>2 DEF Numbered
<1>4. Ordered
    BY DEF Ordered, InOrder
<1> QED BY <1>1, <1>2, <1>3, <1>4 DEF StreamInv

(* Steps that write no event. *)
LEMMA FrameKeeps ==
    ASSUME StreamInv, UNCHANGED <<events, written>>, \A u \in Txns : Live(u)' => Live(u)
    PROVE  Numbered' /\ Ordered' /\ Later'
BY DEF StreamInv, Numbered, Ordered, Later

LEMMA LockKeeps ==
    ASSUME StreamInv, NEW t \in Txns, Lock(t)
    PROVE  StreamInv'
<1> USE DEF StreamInv
<1>1. /\ step[t] = "lock" /\ lock[Target(t)] \in {Nobody, t}
      /\ lock' = [lock EXCEPT ![Target(t)] = t] /\ step' = [step EXCEPT ![t] = "version"]
      /\ UNCHANGED <<events, subs, nextSeq, at, version, written, fanned, reg, backfill>>
    BY DEF Lock, db, regs
<1>2. Target(t) \in Aggregates
    BY TargetTyped
<1>3. StoreTyped'
    BY <1>1, <1>2 DEF StoreTyped, TxnStep
<1>4. \A u \in Txns : Target(u)' = Target(u) /\ (u # t => step'[u] = step[u])
    BY <1>1 DEF Target, StoreTyped
<1>5. step'[t] = "version"
    BY <1>1 DEF StoreTyped
<1>6. \A u \in Txns : Live(u)' <=> Live(u)
    BY <1>1, <1>4, <1>5 DEF Live
<1>7. \A a \in Aggregates : lock'[a] = IF a = Target(t) THEN t ELSE lock[a]
    BY <1>1 DEF StoreTyped
<1>8. \A u \in Txns : \A e \in written[u] : e.agg \in Aggregates
    BY DEF StoreTyped, Event
<1>9. \A u \in Txns : u # Nobody
    BY EventStoreAssumption
<1>10. Locked'
  <2> SUFFICES ASSUME NEW u \in Txns
               PROVE  /\ Live(u) => \A e \in written[u] : lock'[e.agg] = u
                      /\ step'[u] \in {"version", "insert", "fanout"} => lock'[Target(u)] = u
                      /\ ~Live(u) => \A a \in Aggregates : lock'[a] # u
      BY <1>1, <1>4, <1>6 DEF Locked
  <2>1. CASE u = t
      BY <1>1, <1>2, <1>7, <1>8, <2>1 DEF Locked, Live
  <2>2. CASE u # t
      BY <1>1, <1>2, <1>4, <1>7, <1>8, <1>9, <2>2, TargetTyped DEF Locked
  <2> QED BY <2>1, <2>2
<1>11. Committed'
    BY <1>1, <1>4, <1>5 DEF Committed
<1>12. SeqsUnique'
    BY <1>1 DEF SeqsUnique
<1>13. VersionFresh'
    BY <1>1, <1>4, <1>5 DEF VersionFresh
<1> QED BY <1>1, <1>3, <1>6, <1>10, <1>11, <1>12, <1>13, FrameKeeps

LEMMA ReadVersionKeeps ==
    ASSUME StreamInv, NEW t \in Txns, ReadVersion(t)
    PROVE  StreamInv'
<1> USE DEF StreamInv
<1> DEFINE m == Max({0} \cup VersionsOf(Target(t), events \cup written[t])) + 1
<1>1. /\ step[t] = "version" /\ version' = [version EXCEPT ![t] = m]
      /\ step' = [step EXCEPT ![t] = "insert"]
      /\ UNCHANGED <<events, subs, nextSeq, lock, at, written, fanned, reg, backfill>>
    BY DEF ReadVersion, db, regs
<1>2. Target(t) \in Aggregates /\ Live(t)
    BY <1>1, TargetTyped DEF Live
<1>3. PICK n \in Nat : VersionsOf(Target(t), events \cup written[t]) = 1..n
    BY <1>2 DEF Numbered
<1>4. m = n + 1
    BY <1>3, MaxTo
<1> HIDE DEF m
<1>5. StoreTyped'
    BY <1>1, <1>4 DEF StoreTyped, TxnStep
<1>6. \A u \in Txns : Target(u)' = Target(u) /\ (u # t => step'[u] = step[u] /\ version'[u] = version[u])
    BY <1>1 DEF Target, StoreTyped
<1>7. step'[t] = "insert" /\ version'[t] = n + 1
    BY <1>1, <1>4 DEF StoreTyped
<1>8. \A u \in Txns : Live(u)' <=> Live(u)
    BY <1>1, <1>6, <1>7 DEF Live
<1>9. Locked'
    BY <1>1, <1>6, <1>7, <1>8 DEF Locked
<1>10. Committed' /\ SeqsUnique'
    BY <1>1, <1>6, <1>7 DEF Committed, SeqsUnique
<1>11. VersionFresh'
  <2>1. (n + 1) - 1 = n
      OBVIOUS
  <2> QED BY <1>1, <1>3, <1>6, <1>7, <2>1 DEF VersionFresh
<1> QED BY <1>1, <1>5, <1>8, <1>9, <1>10, <1>11, FrameKeeps

LEMMA InsertKeeps ==
    ASSUME StreamInv, NEW t \in Txns, InsertEvent(t)
    PROVE  StreamInv'
<1> USE DEF StreamInv
<1> DEFINE new == [seq |-> nextSeq, agg |-> Target(t), ver |-> version[t]]
<1>1. /\ step[t] = "insert" /\ written' = [written EXCEPT ![t] = @ \cup {new}]
      /\ nextSeq' = nextSeq + 1 /\ step' = [step EXCEPT ![t] = "fanout"]
      /\ UNCHANGED <<events, subs, lock, at, version, fanned, reg, backfill>>
    BY DEF InsertEvent, db, regs
<1>2. Target(t) \in Aggregates /\ Live(t) /\ lock[Target(t)] = t
    BY <1>1, TargetTyped DEF Live, Locked
<1>3. new \in Event /\ new.seq = nextSeq /\ new.agg = Target(t) /\ new.ver = version[t]
    BY <1>2 DEF StoreTyped, Event
<1> HIDE DEF new
<1>4. StoreTyped'
    BY <1>1, <1>3 DEF StoreTyped, TxnStep
<1>5. \A u \in Txns : Target(u)' = Target(u) /\ (u # t => step'[u] = step[u] /\ written'[u] = written[u])
    BY <1>1 DEF Target, StoreTyped
<1>6. step'[t] = "fanout" /\ written'[t] = written[t] \cup {new}
    BY <1>1 DEF StoreTyped
<1>7. \A u \in Txns : Live(u)' <=> Live(u)
    BY <1>1, <1>5, <1>6 DEF Live
<1>8. Locked'
    BY <1>1, <1>2, <1>3, <1>5, <1>6, <1>7 DEF Locked
<1>9. Committed'
    BY <1>1, <1>5, <1>6 DEF Committed
<1>10. \A u \in Txns : \A e \in written[u] : e.seq \in Nat /\ e.ver \in Nat /\ e.seq < nextSeq
    BY DEF StoreTyped, Event, SeqsUnique
<1>11. \A e \in events : e.seq \in Nat /\ e.ver \in Nat /\ e.seq < nextSeq
    BY <1>10 DEF Committed
<1>12. nextSeq \in Nat /\ version[t] \in Nat
    BY DEF StoreTyped
<1>13. SeqsUnique'
  <2>1. \A u \in Txns : \A e \in written'[u] : e.seq < nextSeq'
      BY <1>1, <1>3, <1>5, <1>6, <1>10, <1>12
  <2>2. ASSUME NEW u \in Txns, NEW v \in Txns, NEW e \in written'[u], NEW f \in written'[v], e.seq = f.seq
        PROVE  u = v /\ e = f
      BY <1>3, <1>5, <1>6, <1>10, <1>12, <2>2 DEF SeqsUnique
  <2> QED BY <2>1, <2>2 DEF SeqsUnique
<1>14. \A e \in events \cup written[t] : e.agg = Target(t) => e.ver \in 1..(version[t] - 1)
    BY <1>1, InVersions DEF VersionFresh
<1>15. Numbered'
  <2> SUFFICES ASSUME NEW a \in Aggregates, NEW u \in Txns, Live(u)
               PROVE  \E n \in Nat : VersionsOf(a, events \cup written'[u]) = 1..n
      BY <1>1, <1>7 DEF Numbered
  <2>1. CASE u # t
      BY <1>5, <2>1 DEF Numbered
  <2>2. CASE u = t /\ a # Target(t)
    <3>1. VersionsOf(a, events \cup written'[u]) = VersionsOf(a, events \cup written[u])
      <4>1. \A e : e.agg = a => (e \in events \cup written'[u] <=> e \in events \cup written[u])
          BY <1>3, <1>6, <2>2
      <4> QED BY <4>1, SameVersions
    <3> QED BY <3>1 DEF Numbered
  <2>3. CASE u = t /\ a = Target(t)
    <3>1. VersionsOf(a, events \cup written[t]) = 1..(version[t] - 1)
        BY <1>1, <2>3 DEF VersionFresh
    <3>2. version[t] > 0
        BY <1>1 DEF VersionFresh
    <3>3. \A v : v \in VersionsOf(a, events \cup written'[t])
                   <=> v \in VersionsOf(a, events \cup written[t]) \/ v = version[t]
      <4>1. \A v : v \in VersionsOf(a, events \cup written'[t])
                    <=> \E e \in events \cup written'[t] : e.agg = a /\ e.ver = v
          BY InVersions
      <4>2. \A v : v \in VersionsOf(a, events \cup written[t])
                    <=> \E e \in events \cup written[t] : e.agg = a /\ e.ver = v
          BY InVersions
      <4> QED BY <1>3, <1>6, <2>3, <4>1, <4>2, ZenonT(30)
    <3>4. \A v : v \in 1..(version[t] - 1) \/ v = version[t] <=> v \in 1..version[t]
        BY <1>12, <3>2
    <3>5. VersionsOf(a, events \cup written'[t]) = 1..version[t]
        BY <3>1, <3>3, <3>4
    <3> QED BY <1>12, <2>3, <3>5
  <2> QED BY <2>1, <2>2, <2>3
<1>16. Ordered'
  <2> SUFFICES ASSUME NEW u \in Txns, Live(u) PROVE InOrder(events \cup written'[u])
      BY <1>1, <1>7 DEF Ordered, InOrder
  <2>1. CASE u # t
      BY <1>5, <2>1 DEF Ordered
  <2>2. CASE u = t
    <3>1. InOrder(events \cup written[t])
        BY <1>2 DEF Ordered
    <3>2. \A e \in events \cup written[t] :
            e.seq < new.seq /\ e.seq \in Nat /\ (e.agg = new.agg => e.ver < new.ver /\ e.ver \in Nat)
        BY <1>3, <1>10, <1>11, <1>12, <1>14
    <3>3. \A e, f \in events \cup written[t] \cup {new} : e.agg = f.agg =>
            (e.ver < f.ver <=> e.seq < f.seq) /\ (e.ver = f.ver => e = f)
      <4> SUFFICES ASSUME NEW e \in events \cup written[t] \cup {new},
                          NEW f \in events \cup written[t] \cup {new}, e.agg = f.agg
                   PROVE  (e.ver < f.ver <=> e.seq < f.seq) /\ (e.ver = f.ver => e = f)
          OBVIOUS
      <4>1. CASE e # new /\ f # new
          BY <3>1, <4>1 DEF InOrder
      <4>2. CASE e = new /\ f # new
          BY <1>3, <1>12, <3>2, <4>2
      <4>3. CASE e # new /\ f = new
          BY <1>3, <1>12, <3>2, <4>3
      <4>4. CASE e = new /\ f = new
          BY <1>3, <1>12, <4>4
      <4> QED BY <4>1, <4>2, <4>3, <4>4
    <3>4. events \cup written'[u] = events \cup written[t] \cup {new}
        BY <1>6, <2>2
    <3> QED BY <3>3, <3>4 DEF InOrder
  <2> QED BY <2>1, <2>2
<1>17. VersionFresh'
    BY <1>1, <1>5, <1>6 DEF VersionFresh
<1>18. Later'
    BY <1>1, <1>3, <1>5, <1>6, <1>7, <1>11 DEF Later
<1> QED BY <1>4, <1>8, <1>9, <1>13, <1>15, <1>16, <1>17, <1>18

LEMMA FanOutKeeps ==
    ASSUME StreamInv, NEW t \in Txns, FanOut(t)
    PROVE  StreamInv'
<1> USE DEF StreamInv
<1>1. /\ step[t] = "fanout"
      /\ fanned' = [fanned EXCEPT ![t] = @ \cup ({Max({e.seq : e \in written[t]})} \X subs)]
      /\ UNCHANGED <<events, subs, nextSeq, lock, version, written, reg, backfill>>
    BY DEF FanOut, db, regs
<1>2. /\ at' \in [Txns -> Int] /\ step' \in [Txns -> TxnStep]
      /\ \A u \in Txns : u # t => at'[u] = at[u] /\ step'[u] = step[u]
      /\ step'[t] \in {"lock", "commit"} /\ (step'[t] = "lock" => at'[t] = at[t] + 1)
      /\ at'[t] \in 1..Len(Plan[t])
  <2>1. /\ Len(Plan[t]) \in Nat /\ at[t] \in 1..Len(Plan[t])
        /\ at \in [Txns -> Int] /\ step \in [Txns -> TxnStep] /\ \A u \in Txns : at[u] \in 1..Len(Plan[u])
      BY EventStoreAssumption DEF StoreTyped
  <2>2. CASE at[t] < Len(Plan[t])
    <3>1. at' = [at EXCEPT ![t] = @ + 1] /\ step' = [step EXCEPT ![t] = "lock"]
        BY <2>2 DEF FanOut
    <3> QED BY <2>1, <2>2, <3>1 DEF TxnStep
  <2>3. CASE ~(at[t] < Len(Plan[t]))
    <3>1. at' = at /\ step' = [step EXCEPT ![t] = "commit"]
        BY <2>3 DEF FanOut
    <3> QED BY <2>1, <2>3, <3>1 DEF TxnStep
  <2> QED BY <2>2, <2>3
<1>3. StoreTyped'
  <2>1. fanned' = [u \in Txns |-> fanned'[u]]
      BY <1>1 DEF StoreTyped
  <2> QED BY <1>1, <1>2, <2>1 DEF StoreTyped
<1>4. \A u \in Txns : (Live(u)' <=> Live(u)) /\ (u # t => Target(u)' = Target(u))
    BY <1>1, <1>2 DEF Live, Target
<1>5. Locked'
    BY <1>1, <1>2, <1>4 DEF Locked
<1>6. Committed'
  <2>1. ~(step'[t] = "lock" /\ at'[t] = 1)
      BY <1>2 DEF StoreTyped
  <2> QED BY <1>1, <1>2, <2>1 DEF Committed
<1>7. SeqsUnique'
    BY <1>1 DEF SeqsUnique
<1>8. VersionFresh'
  <2> SUFFICES ASSUME NEW u \in Txns, step'[u] = "insert"
               PROVE  /\ version'[u] > 0
                      /\ VersionsOf(Target(u)', events' \cup written'[u]) = 1..version'[u] - 1
      BY DEF VersionFresh, VersionsOf
  <2>1. u # t
      BY <1>2
  <2>2. step[u] = "insert" /\ Target(u)' = Target(u)
      BY <1>2, <1>4, <2>1
  <2>3. version[u] > 0 /\ VersionsOf(Target(u), events \cup written[u]) = 1..version[u] - 1
      BY <2>2 DEF VersionFresh
  <2> QED BY <1>1, <2>2, <2>3
<1> QED BY <1>1, <1>3, <1>4, <1>5, <1>6, <1>7, <1>8, FrameKeeps

(* What a unit of work that ends does to the locks. *)
LEMMA UnlockFrees ==
    ASSUME StoreTyped, NEW t \in Txns, Unlock(t)
    PROVE  /\ lock' \in [Aggregates -> Txns \cup {Nobody}]
           /\ \A a \in Aggregates : lock'[a] # t /\ \A u \in Txns : u # t => (lock'[a] = u <=> lock[a] = u)
BY EventStoreAssumption DEF Unlock, StoreTyped

LEMMA EndLocks ==
    ASSUME StreamInv, NEW t \in Txns, Live(t), Unlock(t), UNCHANGED <<at, written>>,
           step' \in [Txns -> TxnStep], ~Live(t)', \A u \in Txns : u # t => step'[u] = step[u]
    PROVE  Locked'
<1>1. \A a \in Aggregates : lock'[a] # t /\ \A u \in Txns : u # t => (lock'[a] = u <=> lock[a] = u)
    BY UnlockFrees DEF StreamInv
<1>2. \A u \in Txns : Target(u) \in Aggregates /\ Target(u)' = Target(u) /\ \A e \in written[u] : e.agg \in Aggregates
    BY TargetTyped DEF StreamInv, StoreTyped, Event, Target
<1>3. \A u \in Txns : u # t => (Live(u)' <=> Live(u))
    BY DEF Live
<1>4. step'[t] \notin {"version", "insert", "fanout"}
    BY DEF Live
<1> QED BY <1>1, <1>2, <1>3, <1>4 DEF StreamInv, Locked

LEMMA AbortKeeps ==
    ASSUME StreamInv, NEW t \in Txns, Abort(t)
    PROVE  StreamInv'
<1> USE DEF StreamInv
<1>1. /\ Live(t) /\ step' = [step EXCEPT ![t] = "aborted"] /\ Unlock(t)
      /\ UNCHANGED <<events, subs, nextSeq, at, version, written, fanned, reg, backfill>>
    BY DEF Abort, Open, Live, db, regs
<1>2. step'[t] = "aborted" /\ (\A u \in Txns : u # t => step'[u] = step[u]) /\ step' \in [Txns -> TxnStep]
    BY <1>1 DEF StoreTyped, TxnStep
<1>3. ~Live(t)' /\ \A u \in Txns : Live(u)' => Live(u)
    BY <1>2 DEF Live
<1>4. StoreTyped'
    BY <1>1, <1>2, UnlockFrees DEF StoreTyped
<1>5. Locked'
    BY <1>1, <1>2, <1>3, EndLocks
<1>6. Committed'
    BY <1>1, <1>2 DEF Committed, Live
<1>7. SeqsUnique' /\ VersionFresh'
  <2>1. \A u \in Txns : Target(u)' = Target(u)
      BY <1>1 DEF Target
  <2> QED BY <1>1, <1>2, <2>1 DEF SeqsUnique, VersionFresh
<1> QED BY <1>1, <1>3, <1>4, <1>5, <1>6, <1>7, FrameKeeps

LEMMA CommitKeeps ==
    ASSUME StreamInv, NEW t \in Txns, Commit(t)
    PROVE  StreamInv'
<1> USE DEF StreamInv
<1>1. /\ step[t] = "commit" /\ events' = events \cup written[t]
      /\ step' = [step EXCEPT ![t] = "committed"] /\ Unlock(t)
      /\ UNCHANGED <<subs, nextSeq, at, version, written, fanned, reg, backfill>>
    BY DEF Commit, regs
<1>2. step'[t] = "committed" /\ (\A u \in Txns : u # t => step'[u] = step[u]) /\ step' \in [Txns -> TxnStep]
    BY <1>1 DEF StoreTyped, TxnStep
<1>3. Live(t) /\ ~Live(t)' /\ \A u \in Txns : Live(u)' => Live(u) /\ u # t
    BY <1>1, <1>2 DEF Live
<1>4. StoreTyped'
    BY <1>1, <1>2, UnlockFrees DEF StoreTyped
<1>5. Locked'
    BY <1>1, <1>2, <1>3, EndLocks
<1>6. Committed'
    BY <1>1, <1>2 DEF Committed
<1>7. SeqsUnique'
    BY <1>1 DEF SeqsUnique
<1>8. \A u \in Txns : Live(u)' => \A e \in written[t], f \in written[u] : e.agg # f.agg
    BY <1>3 DEF Locked
<1>9. Numbered'
  <2>1. \A a \in Aggregates : \E n \in Nat : VersionsOf(a, events') = 1..n
      BY <1>1, <1>3 DEF Numbered
  <2>2. ASSUME NEW a \in Aggregates, NEW u \in Txns, Live(u)'
        PROVE  \E n \in Nat : VersionsOf(a, events' \cup written[u]) = 1..n
    <3>1. CASE \E e \in written[t] : e.agg = a
      <4>1. VersionsOf(a, events' \cup written[u]) = VersionsOf(a, events')
        <5>1. \A e : e.agg = a => (e \in events' \cup written[u] <=> e \in events')
            BY <1>8, <2>2, <3>1
        <5> QED BY <5>1, SameVersions
      <4> QED BY <2>1, <4>1
    <3>2. CASE ~\E e \in written[t] : e.agg = a
      <4>1. VersionsOf(a, events' \cup written[u]) = VersionsOf(a, events \cup written[u])
        <5>1. \A e : e.agg = a => (e \in events' \cup written[u] <=> e \in events \cup written[u])
            BY <1>1, <3>2
        <5> QED BY <5>1, SameVersions
      <4> QED BY <1>3, <2>2, <4>1 DEF Numbered
    <3> QED BY <3>1, <3>2
  <2> QED BY <1>1, <2>1, <2>2 DEF Numbered
<1>10. Ordered'
  <2>1. InOrder(events \cup written[t])
      BY <1>3 DEF Ordered
  <2>2. ASSUME NEW u \in Txns, Live(u)' PROVE InOrder(events' \cup written[u])
    <3>1. InOrder(events \cup written[u])
        BY <1>3, <2>2 DEF Ordered
    <3> QED BY <1>1, <1>8, <2>1, <2>2, <3>1 DEF InOrder
  <2>3. InOrder(events')
      BY <1>1, <2>1
  <2> QED BY <1>1, <2>2, <2>3 DEF Ordered, InOrder
<1>11. VersionFresh'
  <2> SUFFICES ASSUME NEW u \in Txns, step'[u] = "insert"
               PROVE  version[u] > 0 /\ VersionsOf(Target(u), events' \cup written[u]) = 1..(version[u] - 1)
      BY <1>1 DEF VersionFresh, Target
  <2>1. u # t /\ step[u] = "insert"
      BY <1>2
  <2>2. \A e \in written[t] : e.agg # Target(u)
      BY <1>3, <2>1 DEF Locked
  <2>3. VersionsOf(Target(u), events' \cup written[u]) = VersionsOf(Target(u), events \cup written[u])
    <3>1. \A e : e.agg = Target(u) => (e \in events' \cup written[u] <=> e \in events \cup written[u])
        BY <1>1, <2>2
    <3> QED BY <3>1, SameVersions
  <2> QED BY <2>1, <2>3 DEF VersionFresh
<1>12. Later'
    BY <1>1, <1>3, <1>8 DEF Later
<1> QED BY <1>4, <1>5, <1>6, <1>7, <1>9, <1>10, <1>11, <1>12

(* What a registrar does touches no stream. *)
LEMMA RegistrarKeeps ==
    ASSUME StreamInv, UNCHANGED <<events, nextSeq, lock, txns>>,
           subs' \subseteq Subscriptions, reg' \in [Registrars -> RegStep],
           backfill' \in [Registrars -> SUBSET (Nat \X Subscriptions)]
    PROVE  StreamInv'
<1> USE DEF StreamInv, txns
<1>1. \A u \in Txns : (Live(u)' <=> Live(u)) /\ Target(u)' = Target(u)
    BY DEF Live, Target
<1>2. StoreTyped'
    BY DEF StoreTyped
<1>3. Locked' /\ Committed' /\ SeqsUnique' /\ VersionFresh'
    BY <1>1 DEF Locked, Committed, SeqsUnique, VersionFresh
<1> QED BY <1>1, <1>2, <1>3, FrameKeeps

LEMMA StreamNext == StreamInv /\ [Next]_vars => StreamInv'
<1> SUFFICES ASSUME StreamInv, [Next]_vars PROVE StreamInv' OBVIOUS
<1> USE DEF db, regs, txns
<1>1. StoreTyped
    BY DEF StreamInv
<1>2. ASSUME NEW r \in Registrars,
             Subscribe(r) \/ Backfill(r) \/ CommitRegistration(r) \/ AbortRegistration(r)
      PROVE  StreamInv'
  <2>1. Registers[r] \in Subscriptions
      BY EventStoreAssumption
  <2>2. reg' \in [Registrars -> RegStep]
      BY <1>1, <1>2 DEF StoreTyped, RegStep, Subscribe, Backfill, CommitRegistration, AbortRegistration
  <2>3. subs' \subseteq Subscriptions
      BY <1>1, <1>2, <2>1 DEF StoreTyped, Subscribe, Backfill, CommitRegistration, AbortRegistration
  <2>4. {<<e.seq, Registers[r]>> : e \in events} \in SUBSET (Nat \X Subscriptions)
      BY <1>1, <2>1 DEF StoreTyped, Event
  <2>5. backfill' \in [Registrars -> SUBSET (Nat \X Subscriptions)]
    <3>1. backfill \in [Registrars -> SUBSET (Nat \X Subscriptions)]
        BY <1>1 DEF StoreTyped
    <3>2. \/ backfill' = backfill \/ backfill' = [backfill EXCEPT ![r] = {}]
          \/ backfill' = [backfill EXCEPT ![r] = {<<e.seq, Registers[r]>> : e \in events}]
        BY <1>2 DEF Subscribe, Backfill, CommitRegistration, AbortRegistration
    <3> QED BY <2>4, <3>1, <3>2
  <2>6. UNCHANGED <<events, nextSeq, lock, txns>>
      BY <1>2 DEF Subscribe, Backfill, CommitRegistration, AbortRegistration
  <2> QED BY <2>2, <2>3, <2>5, <2>6, RegistrarKeeps
<1>3. CASE UNCHANGED vars
  <2>1. UNCHANGED <<events, nextSeq, lock, txns, subs, reg, backfill>>
      BY <1>3 DEF vars
  <2> QED BY <1>1, <2>1, RegistrarKeeps DEF StoreTyped
<1> QED
    BY <1>2, <1>3, LockKeeps, ReadVersionKeeps, InsertKeeps, FanOutKeeps, CommitKeeps, AbortKeeps DEF Next

(* The stream of an aggregate has as many events as its last version says. *)
LEMMA DenseStream ==
    ASSUME StreamInv, NEW a \in Aggregates
    PROVE  LET es == {e \in events : e.agg = a} IN
           /\ VersionsOf(a, es) = 1..Cardinality(es)
           /\ \A e, f \in es : e.ver < f.ver <=> e.seq < f.seq
<1> DEFINE es == {e \in events : e.agg = a}
<1>1. PICK n \in Nat : VersionsOf(a, events) = 1..n
    BY DEF StreamInv, Numbered
<1>2. VersionsOf(a, es) = VersionsOf(a, events)
  <2>1. \A e : e.agg = a => (e \in es <=> e \in events)
      OBVIOUS
  <2> QED BY <2>1, SameVersions
<1>3. \A e, f \in es : (e.ver < f.ver <=> e.seq < f.seq) /\ (e.ver = f.ver => e = f)
    BY DEF StreamInv, Ordered, InOrder
<1>4. Cardinality(es) = n
  <2> DEFINE g == [e \in es |-> e.ver]
  <2>1. \A v : v \in 1..n <=> \E e \in es : e.ver = v
    <3>1. VersionsOf(a, es) = 1..n /\ \A e \in es : e.agg = a
        BY <1>1, <1>2
    <3> HIDE DEF es
    <3>2. \A v : v \in VersionsOf(a, es) <=> \E e \in es : e.agg = a /\ e.ver = v
        BY InVersions
    <3> QED BY ONLY <3>1, <3>2
  <2>2. g \in [es -> 1..n]
      BY <2>1
  <2>3. \A e, f \in es : g[e] = g[f] => e = f
      BY <1>3
  <2>4. \A v \in 1..n : \E e \in es : g[e] = v
      BY <2>1
  <2> DEFINE h == [v \in 1..n |-> CHOOSE e \in es : g[e] = v]
  <2>5. \A v \in 1..n : h[v] \in es /\ g[h[v]] = v
      BY <2>4
  <2>6. h \in [1..n -> es]
      BY <2>5
  <2>7. \A e \in es : h[g[e]] = e /\ g[e] \in 1..n
      BY <2>2, <2>3, <2>5
  <2>8. \A v, w \in 1..n : h[v] = h[w] => v = w
      BY <2>5
  <2> HIDE DEF h, g, es
  <2>9. h \in Bijection(1..n, es)
    <3>1. h \in Injection(1..n, es)
        BY <2>6, <2>8 DEF Injection, IsInjective
    <3>2. h \in Surjection(1..n, es)
        BY <2>6, <2>7 DEF Surjection
    <3> QED BY <3>1, <3>2 DEF Bijection
  <2>10. ExistsBijection(1..n, es)
      BY <2>9 DEF ExistsBijection
  <2>11. IsFiniteSet(1..n) /\ Cardinality(1..n) = n
      BY FS_Interval
  <2> QED BY <2>10, <2>11, FS_Bijection
<1> QED BY <1>1, <1>2, <1>3, <1>4

(* Concurrent Appends number every stream 1, 2, 3, ... in the order of       *)
(* global_seq, and the version an Append is about to insert is nobody       *)
(* else's: the advisory lock is enough (EventStore.Append).                 *)
THEOREM StreamsNumbered == Spec => []StreamsSound
<1>1. StreamInv => StreamsSound
  <2> SUFFICES ASSUME StreamInv PROVE StreamsSound OBVIOUS
  <2>1. StreamsDense
      BY DenseStream DEF StreamsDense
  <2>2. NoVersionConflict
    <3> SUFFICES ASSUME NEW t \in Txns, step[t] = "insert", NEW u \in Txns,
                        NEW e \in events \cup written[u], u = t \/ Open(u), e.agg = Target(t)
                 PROVE  e.ver # version[t]
        BY DEF NoVersionConflict
    <3>1. CASE e \in events \cup written[t]
      <4>1. e.ver \in 1..(version[t] - 1) /\ version[t] \in Nat
          BY <3>1, InVersions DEF StreamInv, VersionFresh, StoreTyped
      <4> QED BY <4>1
    <3>2. CASE e \in written[u] /\ u # t
        BY <3>2 DEF StreamInv, Locked, Open, Live
    <3> QED BY <3>1, <3>2
  <2> QED BY <2>1, <2>2 DEF StreamsSound
<1> QED BY StreamInit, StreamNext, <1>1, PTL DEF Spec

(* Within one aggregate events become visible in the order of global_seq,   *)
(* which is what the engine's blocker guard needs of Append.                *)
THEOREM VisibilityOrdered == Spec => VisibleInOrder
<1> DEFINE InOrderStep == \A e \in events' \ events : \A f \in events : f.agg = e.agg => f.seq < e.seq
<1>1. StreamInv /\ [Next]_vars => [InOrderStep]_vars
  <2> SUFFICES ASSUME StreamInv, Next PROVE InOrderStep
      BY DEF vars
  <2>1. ASSUME NEW t \in Txns, Commit(t) PROVE InOrderStep
    <3>1. events' = events \cup written[t] /\ Live(t)
        BY <2>1 DEF Commit, Live
    <3> QED BY <2>1, <3>1 DEF StreamInv, Later
  <2>2. CASE UNCHANGED events
      BY <2>2
  <2>3. UNCHANGED events \/ \E t \in Txns : Commit(t)
      BY DEF Next, db, Lock, ReadVersion, InsertEvent, FanOut, Abort, Subscribe, Backfill,
             CommitRegistration, AbortRegistration
  <2> QED BY <2>1, <2>2, <2>3
<1> QED BY StreamInit, StreamNext, <1>1, PTL DEF Spec, VisibleInOrder
-----------------------------------------------------------------------------
LEMMA FanOutInit == Init => FanOutInv
<1> SUFFICES ASSUME Init PROVE FanOutInv OBVIOUS
<1>1. StreamInv
    BY StreamInit
<1>2. Registration /\ Backfilled /\ FannedOut /\ OutboxSound /\ Covered
    BY DEF Init, Registration, Registering, Backfilled, FannedOut, OutboxSound, Covered
<1> QED BY <1>1, <1>2 DEF FanOutInv

(* A statement of a unit of work that neither inserts, fans out nor ends. *)
LEMMA QuietKeeps ==
    ASSUME FanOutInv, NEW t \in Txns, Lock(t) \/ ReadVersion(t)
    PROVE  Registration' /\ Backfilled' /\ FannedOut' /\ OutboxSound' /\ Covered'
<1> USE DEF FanOutInv
<1>1. /\ met \subseteq met' /\ UNCHANGED <<events, outbox, subs, at, written, fanned, reg, backfill>>
      /\ step[t] \in {"lock", "version"} /\ step' = [step EXCEPT ![t] = step'[t]]
      /\ step'[t] \in {"version", "insert"}
    BY DEF Lock, ReadVersion, db, regs, StreamInv, StoreTyped
<1>2. \A u \in Txns : u # t => step'[u] = step[u]
    BY <1>1 DEF StreamInv, StoreTyped
<1>3. \A u \in Txns : (Live(u)' <=> Live(u)) /\ (u # t => (Open(u)' <=> Open(u)))
    BY <1>1, <1>2 DEF Live, Open
<1>4. \A r \in Registrars : Registering(r)' <=> Registering(r)
    BY <1>1 DEF Registering
<1>5. \A r \in Registrars : Registering(r) => <<t, Registers[r]>> \in met'
  <2>1. CASE Lock(t)
      BY <2>1 DEF Lock
  <2>2. CASE ReadVersion(t)
      BY <2>2 DEF ReadVersion, Registration, Open
  <2> QED BY <2>1, <2>2
<1>6. Registration'
    BY <1>1, <1>3, <1>4, <1>5 DEF Registration
<1>7. Backfilled' /\ Covered'
    BY <1>1, <1>2 DEF Backfilled, Covered
<1>8. FannedOut'
    BY <1>1, <1>2, <1>3 DEF FannedOut, Newest
<1>9. OutboxSound'
    BY <1>1 DEF OutboxSound
<1> QED BY <1>6, <1>7, <1>8, <1>9

LEMMA InsertFans ==
    ASSUME FanOutInv, NEW t \in Txns, InsertEvent(t)
    PROVE  Registration' /\ Backfilled' /\ FannedOut' /\ OutboxSound' /\ Covered'
<1> USE DEF FanOutInv
<1> DEFINE new == [seq |-> nextSeq, agg |-> Target(t), ver |-> version[t]]
<1>1. /\ step[t] = "insert" /\ written' = [written EXCEPT ![t] = @ \cup {new}]
      /\ step' = [step EXCEPT ![t] = "fanout"]
      /\ UNCHANGED <<events, outbox, subs, at, fanned, reg, backfill, met>>
    BY DEF InsertEvent, db, regs
<1>2. /\ \A u \in Txns : u # t => step'[u] = step[u] /\ written'[u] = written[u]
      /\ step'[t] = "fanout" /\ written'[t] = written[t] \cup {new} /\ new.seq = nextSeq
    BY <1>1 DEF StreamInv, StoreTyped
<1> HIDE DEF new
<1>3. \A u \in Txns : (Live(u)' <=> Live(u)) /\ (Open(u)' <=> Open(u))
    BY <1>1, <1>2 DEF Live, Open
<1>4. Registration'
    BY <1>1, <1>3 DEF Registration, Registering
<1>5. Backfilled' /\ Covered' /\ OutboxSound'
    BY <1>1, <1>2 DEF Backfilled, Covered, OutboxSound
<1>6. ASSUME NEW n, n = new PROVE Newest(t, n)'
  <2>1. \A e \in written[t] : e.seq \in Nat /\ e.seq < nextSeq
      BY DEF StreamInv, SeqsUnique, StoreTyped, Event
  <2>2. nextSeq \in Nat
      BY DEF StreamInv, StoreTyped
  <2> SUFFICES ASSUME NEW f \in written'[t] PROVE f.seq <= n.seq
      BY DEF Newest
  <2> QED BY <1>2, <1>6, <2>1, <2>2
<1>7. FannedOut'
  <2> SUFFICES ASSUME NEW u \in Txns
               PROVE  /\ \A x \in fanned[u] : \E e \in written'[u], s \in subs : x = <<e.seq, s>>
                      /\ step'[u] = "fanout" => \E e \in written'[u] : Newest(u, e)'
                      /\ Live(u)' => \A e \in written'[u], s \in subs :
                            \/ <<u, s>> \in met
                            \/ <<e.seq, s>> \in fanned[u]
                            \/ step'[u] = "fanout" /\ Newest(u, e)'
      BY <1>1 DEF FannedOut
  <2>1. CASE u # t
      BY <1>1, <1>2, <1>3, <2>1 DEF FannedOut, Newest
  <2>2. CASE u = t
    <3>1. \E e \in written'[t] : Newest(t, e)'
        BY <1>2, <1>6
    <3>2. \A e \in written[t], s \in subs : <<t, s>> \in met \/ <<e.seq, s>> \in fanned[t]
        BY <1>1 DEF FannedOut, Live
    <3>3. \A x \in fanned[t] : \E e \in written'[t], s \in subs : x = <<e.seq, s>>
        BY <1>2 DEF FannedOut
    <3>4. \A e \in written'[t] : e \in written[t] \/ Newest(t, e)'
        BY <1>2, <1>6
    <3> QED BY <1>2, <2>2, <3>1, <3>2, <3>3, <3>4
  <2> QED BY <2>1, <2>2
<1> QED BY <1>4, <1>5, <1>7

LEMMA FanOutFans ==
    ASSUME FanOutInv, NEW t \in Txns, FanOut(t)
    PROVE  Registration' /\ Backfilled' /\ FannedOut' /\ OutboxSound' /\ Covered'
<1> USE DEF FanOutInv
<1> DEFINE m == Max({e.seq : e \in written[t]})
<1>1. /\ step[t] = "fanout" /\ fanned' = [fanned EXCEPT ![t] = @ \cup ({m} \X subs)]
      /\ UNCHANGED <<events, outbox, subs, written, reg, backfill, met>>
    BY DEF FanOut, db, regs
<1>2. PICK last \in written[t] : Newest(t, last)
    BY <1>1 DEF FannedOut
<1>3. \A e \in written[t] : e.seq \in Nat
    BY DEF StreamInv, StoreTyped, Event
<1>4. m = last.seq
  <2> DEFINE S == {e.seq : e \in written[t]}
  <2>1. last.seq \in S /\ \A y \in S : y \in Nat /\ y <= last.seq
      BY <1>2, <1>3 DEF Newest
  <2> HIDE DEF S
  <2>2. Max(S) = last.seq
      BY <2>1, MaxIs
  <2> QED BY <2>2 DEF S
<1> HIDE DEF m
<1>5. /\ \A u \in Txns : u # t => step'[u] = step[u] /\ at'[u] = at[u] /\ fanned'[u] = fanned[u]
      /\ fanned'[t] = fanned[t] \cup ({m} \X subs)
      /\ step'[t] \in {"lock", "commit"} /\ (step'[t] = "lock" => at'[t] = at[t] + 1)
      /\ at[t] \in Nat /\ at[t] > 0
  <2>1. /\ at \in [Txns -> Int] /\ step \in [Txns -> TxnStep] /\ at[t] \in 1..Len(Plan[t])
        /\ Len(Plan[t]) \in Nat /\ fanned = [u \in Txns |-> fanned[u]]
      BY EventStoreAssumption DEF StreamInv, StoreTyped
  <2>2. \/ at' = [at EXCEPT ![t] = @ + 1] /\ step' = [step EXCEPT ![t] = "lock"]
        \/ at' = at /\ step' = [step EXCEPT ![t] = "commit"]
      BY DEF FanOut
  <2> QED BY <1>1, <2>1, <2>2
<1>6. \A u \in Txns : (Live(u)' <=> Live(u)) /\ (Open(u)' <=> Open(u))
    BY <1>1, <1>5 DEF Live, Open
<1>7. Registration'
    BY <1>1, <1>6 DEF Registration, Registering
<1>8. Backfilled' /\ Covered' /\ OutboxSound'
    BY <1>1, <1>5 DEF Backfilled, Covered, OutboxSound
<1>9. FannedOut'
  <2> SUFFICES ASSUME NEW u \in Txns
               PROVE  /\ \A x \in fanned'[u] : \E e \in written[u], s \in subs : x = <<e.seq, s>>
                      /\ step'[u] = "fanout" => \E e \in written[u] : Newest(u, e)
                      /\ Live(u) => \A e \in written[u], s \in subs :
                            \/ <<u, s>> \in met
                            \/ <<e.seq, s>> \in fanned'[u]
                            \/ step'[u] = "fanout" /\ Newest(u, e)
      BY <1>1, <1>6 DEF FannedOut, Newest
  <2>1. CASE u # t
      BY <1>5, <2>1 DEF FannedOut
  <2>2. CASE u = t
    <3>1. \A x \in fanned'[t] : \E e \in written[t], s \in subs : x = <<e.seq, s>>
      <4>1. \A x \in {m} \X subs : \E s \in subs : x = <<last.seq, s>>
          BY <1>4
      <4> QED BY <1>2, <1>5, <4>1 DEF FannedOut
    <3>2. ASSUME NEW e \in written[t], NEW s \in subs, <<t, s>> \notin met
          PROVE  <<e.seq, s>> \in fanned'[t]
      <4>1. CASE <<e.seq, s>> \in fanned[t]
          BY <1>5, <4>1
      <4>2. CASE Newest(t, e)
        <5>1. e.seq = m
            BY <1>2, <1>3, <1>4, <4>2 DEF Newest
        <5> QED BY <1>5, <5>1
      <4> QED BY <1>1, <3>2, <4>1, <4>2 DEF FannedOut, Live
    <3> QED BY <1>5, <2>2, <3>1, <3>2
  <2> QED BY <2>1, <2>2
<1> QED BY <1>7, <1>8, <1>9

LEMMA EndFans ==
    ASSUME FanOutInv, NEW t \in Txns, Commit(t) \/ Abort(t)
    PROVE  Registration' /\ Backfilled' /\ FannedOut' /\ OutboxSound' /\ Covered'
<1> USE DEF FanOutInv
<1>1. /\ Live(t) /\ Open(t) /\ events \subseteq events' /\ outbox \subseteq outbox'
      /\ UNCHANGED <<subs, at, written, fanned, reg, backfill, met>>
      /\ step' = [step EXCEPT ![t] = step'[t]] /\ step'[t] \in {"committed", "aborted"}
    BY DEF Commit, Abort, Open, Live, db, regs, StreamInv, StoreTyped
<1>2. \A u \in Txns : u # t => step'[u] = step[u]
    BY <1>1 DEF StreamInv, StoreTyped
<1>3. ~Live(t)' /\ ~Open(t)' /\ \A u \in Txns : u # t => (Live(u)' <=> Live(u)) /\ (Open(u)' <=> Open(u))
    BY <1>1, <1>2 DEF Live, Open
<1>4. Registration'
    BY <1>1, <1>3 DEF Registration, Registering
<1>5. Backfilled'
  <2>1. \A r \in Registrars : reg[r] = "commit" => <<t, Registers[r]>> \in met
      BY <1>1 DEF Registration, Registering
  <2> QED BY <1>1, <1>2, <2>1 DEF Backfilled
<1>6. FannedOut'
    BY <1>1, <1>2, <1>3 DEF FannedOut, Newest
<1>7. OutboxSound'
  <2>1. CASE Commit(t)
    <3>1. events' = events \cup written[t] /\ outbox' = outbox \cup fanned[t]
        BY <2>1 DEF Commit
    <3> QED BY <1>1, <3>1 DEF OutboxSound, FannedOut
  <2>2. CASE Abort(t)
      BY <2>2 DEF Abort, db, OutboxSound
  <2> QED BY <2>1, <2>2
<1>8. Covered'
  <2>1. CASE Commit(t)
    <3>1. step[t] = "commit" /\ outbox' = outbox \cup fanned[t]
        BY <2>1 DEF Commit
    <3>2. \A e \in written[t], s \in subs : <<t, s>> \in met \/ <<e.seq, s>> \in fanned[t]
        BY <1>1, <3>1 DEF FannedOut
    <3> QED BY <1>1, <1>2, <3>1, <3>2 DEF Covered
  <2>2. CASE Abort(t)
    <3>1. step'[t] = "aborted" /\ outbox' = outbox
        BY <2>2 DEF Abort, db, StreamInv, StoreTyped
    <3> QED BY <1>1, <1>2, <3>1 DEF Covered
  <2> QED BY <2>1, <2>2
<1> QED BY <1>4, <1>5, <1>6, <1>7, <1>8

LEMMA SubscribeKeeps ==
    ASSUME FanOutInv, NEW r \in Registrars, Subscribe(r)
    PROVE  Registration' /\ Backfilled' /\ FannedOut' /\ OutboxSound' /\ Covered'
<1> USE DEF FanOutInv
<1>1. /\ reg[r] = "subscribe" /\ met \subseteq met'
      /\ \A q \in Registrars : Registering(q) => Registers[q] # Registers[r]
      /\ UNCHANGED <<events, outbox, subs, step, at, written, fanned, backfill>>
    BY DEF Subscribe, db, txns
<1>2. /\ \A q \in Registrars : q # r => reg'[q] = reg[q]
      /\ Registers[r] \in subs => reg'[r] = "done"
      /\ Registers[r] \notin subs => reg'[r] = "backfill"
    BY DEF Subscribe, StreamInv, StoreTyped
<1>3. \A t \in Txns : (Open(t)' <=> Open(t)) /\ (Live(t)' <=> Live(t)) /\ \A e : Newest(t, e)' <=> Newest(t, e)
    BY <1>1 DEF Open, Live, Newest
<1>4. Registering(r)' => Registers[r] \notin subs /\ \A t \in Txns : Open(t) => <<t, Registers[r]>> \in met'
  <2>1. CASE Registers[r] \in subs
      BY <1>2, <2>1 DEF Registering
  <2>2. CASE Registers[r] \notin subs
    <3>1. met' = met \cup ({t \in Txns : Open(t)} \X {Registers[r]})
        BY <2>2 DEF Subscribe
    <3> QED BY <2>2, <3>1
  <2> QED BY <2>1, <2>2
<1>5. \A q \in Registrars : q # r => (Registering(q)' <=> Registering(q))
    BY <1>2 DEF Registering
<1>6. Registration'
    BY <1>1, <1>3, <1>4, <1>5 DEF Registration
<1>7. Backfilled' /\ Covered' /\ OutboxSound'
    BY <1>1, <1>2 DEF Backfilled, Covered, OutboxSound
<1>8. FannedOut'
    BY <1>1, <1>3 DEF FannedOut
<1> QED BY <1>6, <1>7, <1>8

LEMMA BackfillKeeps ==
    ASSUME FanOutInv, NEW r \in Registrars, Backfill(r) \/ AbortRegistration(r)
    PROVE  Registration' /\ Backfilled' /\ FannedOut' /\ OutboxSound' /\ Covered'
<1> USE DEF FanOutInv
<1>1. UNCHANGED <<events, outbox, subs, step, at, written, fanned, met>>
    BY DEF Backfill, AbortRegistration, db, txns
<1>2. /\ \A q \in Registrars : q # r => reg'[q] = reg[q] /\ backfill'[q] = backfill[q]
      /\ Registering(r)
      /\ \/ reg'[r] = "subscribe"
         \/ reg'[r] = "commit" /\ backfill'[r] = {<<e.seq, Registers[r]>> : e \in events}
    BY DEF Backfill, AbortRegistration, Registering, StreamInv, StoreTyped
<1>3. \A t \in Txns : (Open(t)' <=> Open(t)) /\ (Live(t)' <=> Live(t)) /\ \A e : Newest(t, e)' <=> Newest(t, e)
    BY <1>1 DEF Open, Live, Newest
<1>4. \A q \in Registrars : Registering(q)' => Registering(q)
    BY <1>2 DEF Registering
<1>5. Registration'
    BY <1>1, <1>3, <1>4 DEF Registration
<1>6. Backfilled'
    BY <1>1, <1>2 DEF Backfilled, StreamInv, Committed
<1>7. FannedOut' /\ OutboxSound' /\ Covered'
    BY <1>1, <1>3 DEF FannedOut, OutboxSound, Covered
<1> QED BY <1>5, <1>6, <1>7

LEMMA CommitRegistrationKeeps ==
    ASSUME FanOutInv, NEW r \in Registrars, CommitRegistration(r)
    PROVE  Registration' /\ Backfilled' /\ FannedOut' /\ OutboxSound' /\ Covered'
<1> USE DEF FanOutInv
<1>1. /\ reg[r] = "commit" /\ subs' = subs \cup {Registers[r]} /\ outbox' = outbox \cup backfill[r]
      /\ UNCHANGED <<events, step, at, written, fanned, backfill, met>>
    BY DEF CommitRegistration, db, txns
<1>2. reg'[r] = "done" /\ \A q \in Registrars : q # r => reg'[q] = reg[q]
    BY DEF CommitRegistration, StreamInv, StoreTyped
<1>3. \A t \in Txns : (Open(t)' <=> Open(t)) /\ (Live(t)' <=> Live(t)) /\ \A e : Newest(t, e)' <=> Newest(t, e)
    BY <1>1 DEF Open, Live, Newest
<1>4. Registering(r) /\ ~Registering(r)' /\ \A q \in Registrars : q # r => (Registering(q)' <=> Registering(q))
    BY <1>1, <1>2 DEF Registering
<1>5. Registration'
    BY <1>1, <1>3, <1>4 DEF Registration
<1>6. Backfilled'
    BY <1>1, <1>2 DEF Backfilled
<1>7. FannedOut'
  <2>1. \A t \in Txns : Live(t) /\ written[t] # {} => <<t, Registers[r]>> \in met
      BY <1>4 DEF Registration, Open, Live, StreamInv, Committed
  <2> QED BY <1>1, <1>3, <2>1 DEF FannedOut
<1>8. OutboxSound'
    BY <1>1 DEF OutboxSound, Backfilled
<1>9. Covered'
    BY <1>1 DEF Covered, Backfilled
<1> QED BY <1>5, <1>6, <1>7, <1>8, <1>9

LEMMA FanOutNext == FanOutInv /\ [Next]_vars => FanOutInv'
<1> SUFFICES ASSUME FanOutInv, [Next]_vars PROVE FanOutInv' OBVIOUS
<1>1. StreamInv'
    BY StreamNext DEF FanOutInv
<1>2. CASE UNCHANGED vars
  <2>1. UNCHANGED <<events, outbox, subs, step, at, written, fanned, reg, backfill, met>>
      BY <1>2 DEF vars, db, txns, regs
  <2>2. \A t \in Txns : (Open(t)' <=> Open(t)) /\ (Live(t)' <=> Live(t)) /\ \A e : Newest(t, e)' <=> Newest(t, e)
      BY <2>1 DEF Open, Live, Newest
  <2>3. \A r \in Registrars : Registering(r)' <=> Registering(r)
      BY <2>1 DEF Registering
  <2>4. Registration' /\ Backfilled'
      BY <2>1, <2>2, <2>3 DEF FanOutInv, Registration, Backfilled
  <2>5. FannedOut' /\ OutboxSound' /\ Covered'
      BY <2>1, <2>2 DEF FanOutInv, FannedOut, OutboxSound, Covered
  <2> QED BY <1>1, <2>4, <2>5 DEF FanOutInv
<1>3. CASE Next
  <2>1. Registration' /\ Backfilled' /\ FannedOut' /\ OutboxSound' /\ Covered'
      BY <1>3, QuietKeeps, InsertFans, FanOutFans, EndFans, SubscribeKeeps, BackfillKeeps,
         CommitRegistrationKeeps DEF Next
  <2> QED BY <1>1, <2>1 DEF FanOutInv
<1> QED BY <1>2, <1>3

(* Every committed event reaches the queue of every subscription, by         *)
(* fan-out or by backfill and never by both, unless its unit of work was    *)
(* open while the subscription was being registered (Append,                *)
(* EnsureSubscription).                                                     *)
THEOREM DeliveredExactly == Spec => []FanOutExact
<1>1. FanOutInv => FanOutExact
  <2> SUFFICES ASSUME FanOutInv PROVE FanOutExact OBVIOUS
  <2> USE DEF FanOutInv
  <2>1. FanOutWhenApart
    <3>1. outbox \subseteq {e.seq : e \in events} \X subs
        BY DEF OutboxSound
    <3> QED BY <3>1 DEF FanOutWhenApart, Covered
  <2>2. ASSUME NEW r \in Registrars, reg[r] = "commit" PROVE backfill[r] \cap outbox = {}
    <3>1. Registers[r] \notin subs
        BY <2>2 DEF Registration, Registering
    <3>2. \A x \in backfill[r] : \E e \in events : x = <<e.seq, Registers[r]>>
        BY <2>2 DEF Backfilled
    <3>3. \A x \in outbox : \E e \in events, s \in subs : x = <<e.seq, s>>
        BY DEF OutboxSound
    <3> QED BY <3>1, <3>2, <3>3
  <2>3. ASSUME NEW t \in Txns, step[t] = "commit" PROVE fanned[t] \cap outbox = {}
    <3>1. \A e \in written[t], f \in events : e.seq # f.seq
        BY <2>3 DEF StreamInv, SeqsUnique, Committed
    <3>2. \A x \in fanned[t] : \E e \in written[t], s \in subs : x = <<e.seq, s>>
        BY DEF FannedOut
    <3>3. \A x \in outbox : \E e \in events, s \in subs : x = <<e.seq, s>>
        BY DEF OutboxSound
    <3> QED BY <3>1, <3>2, <3>3
  <2> QED BY <2>1, <2>2, <2>3 DEF FanOutExact, NoDoubleDelivery
<1> QED BY FanOutInit, FanOutNext, <1>1, PTL DEF Spec
=============================================================================
