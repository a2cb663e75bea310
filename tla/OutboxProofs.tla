---------------------------- MODULE OutboxProofs ----------------------------
(***************************************************************************)
(* Proofs about Outbox for every set of workers, aggregates and sequence   *)
(* numbers.  Type correctness and the bound on repeated runs hold           *)
(* unconditionally; the other results assume that no handler outlives its  *)
(* lease and that no commit acknowledgement is lost, the two cases in      *)
(* which TLC shows that they fail.                                         *)
(***************************************************************************)
EXTENDS Outbox, FiniteSetTheorems, TLAPS

(* Both environment switches are off. *)
Benign == SlowHandlers = FALSE /\ LostAcks = FALSE

LEMMA MessageFacts ==
    /\ NoMessage \in Message
    /\ \A m \in Message : m.seq \in Seqs /\ m.attempts \in Nat
<1>1. (CHOOSE s \in Seqs : TRUE) \in Seqs
    BY OutboxAssumption
<1> QED
    BY <1>1 DEF NoMessage, Message

(* Every reachable state is well typed, whatever the environment does. *)
LEMMA TypeInit == Init => TypeOK
    BY MessageFacts, OutboxAssumption
    DEF Init, TypeOK, RowStatus, LeaseState, WorkerState

LEMMA TypeNext == TypeOK /\ [Next]_vars => TypeOK'
<1> SUFFICES ASSUME TypeOK, [Next]_vars PROVE TypeOK'
    OBVIOUS
<1> USE OutboxAssumption DEF TypeOK, RowStatus, LeaseState, WorkerState, rows, workers
<1>1. ASSUME NEW s \in Seqs, Append(s) PROVE TypeOK'
    BY <1>1 DEF Append
<1>2. ASSUME NEW s \in Seqs, LeaseExpires(s) PROVE TypeOK'
    BY <1>2 DEF LeaseExpires, Fault
<1>3. ASSUME NEW s \in Seqs, BackoffElapses(s) PROVE TypeOK'
    BY <1>3 DEF BackoffElapses
<1>4. ASSUME NEW s \in Seqs, RequeueDeadLetter(s) PROVE TypeOK'
    BY <1>4 DEF RequeueDeadLetter, Fault
<1>5. ASSUME NEW w \in Workers, Claim(w) PROVE TypeOK'
  <2>1. PICK s \in Seqs :
            /\ lease' = [lease EXCEPT ![s] = "held"]
            /\ attempts' = [attempts EXCEPT ![s] = @ + 1]
            /\ claimed' = [claimed EXCEPT ![w] =
                              [seq |-> s, attempts |-> attempts[s] + 1]]
            /\ pc' = [pc EXCEPT ![w] = "handling"]
        BY <1>5 DEF Claim
  <2>2. [seq |-> s, attempts |-> attempts[s] + 1] \in Message
        BY DEF Message
  <2> QED BY <1>5, <2>1, <2>2 DEF Claim
<1>6. ASSUME NEW w \in Workers, CommitHandled(w)
      PROVE /\ status' \in [Seqs -> RowStatus]
            /\ lease' \in [Seqs -> LeaseState] /\ applied' \in [Seqs -> Nat]
            /\ checkpoint' \in [last : Int, count : Nat]
            /\ UNCHANGED <<agg, attempts, available, claimed>>
  <2>1. claimed[w].seq \in Seqs
        BY MessageFacts
  <2>2. checkpoint.last \in Int /\ checkpoint.count \in Nat /\ claimed[w].seq \in Int
        BY <2>1
  <2> QED BY <1>6, <2>1, <2>2 DEF CommitHandled
<1>7. ASSUME NEW w \in Workers, Succeed(w) PROVE TypeOK'
    BY <1>6, <1>7 DEF Succeed
<1>8. ASSUME NEW w \in Workers, CommitAckLost(w) PROVE TypeOK'
  <2>1. PICK s \in Seqs : s = claimed[w].seq
        BY MessageFacts
  <2>2. overruns' = [overruns EXCEPT ![s] = @ + 1] /\ overruns[s] \in Nat
        BY <1>8, <2>1 DEF CommitAckLost
  <2>3. overruns' \in [Seqs -> Nat]
        BY <2>1, <2>2
  <2> QED BY <1>6, <1>8, <2>3 DEF CommitAckLost, Fault
<1>9. ASSUME NEW w \in Workers, HandlerFails(w) PROVE TypeOK'
    BY <1>9 DEF HandlerFails
<1>10. ASSUME NEW w \in Workers, RecordFailure(w) PROVE TypeOK'
    BY <1>10, MessageFacts DEF RecordFailure
<1>11. ASSUME NEW w \in Workers, Abandon(w) PROVE TypeOK'
    BY <1>11 DEF Abandon, Fault
<1>12. ASSUME NEW w \in Workers, Crash(w) PROVE TypeOK'
    BY <1>12 DEF Crash, Fault
<1>13. ASSUME NEW w \in Workers, Restart(w) PROVE TypeOK'
    BY <1>13 DEF Restart
<1>14. CASE UNCHANGED vars
    BY <1>14 DEF vars
<1> QED
    BY <1>1, <1>2, <1>3, <1>4, <1>5, <1>7, <1>8, <1>9, <1>10, <1>11, <1>12,
       <1>13, <1>14 DEF Next

(* Every reachable state is well typed, whatever the environment does:     *)
(* statuses, leases and worker states stay within the values the claim     *)
(* statement and the CHECK constraints of events.outbox know.              *)
THEOREM TypeCorrect == Spec => []TypeOK
    BY TypeInit, TypeNext, PTL DEF Spec
-----------------------------------------------------------------------------
(* The workers that may still complete or fail a row. *)
Holders(s) == {w \in Workers : Holds(w, s)}
Hands(s)   == Cardinality(Holders(s))

(* A commit a row is still entitled to without anybody holding it: it is    *)
(* not processed, and no live worker has its lease.                         *)
Spare(s) == IF status[s] = "processed" \/ (lease[s] = "held" /\ Holders(s) # {}) THEN 0 ELSE 1

(* Every commit made, every one a worker may still make and the spare one   *)
(* are covered by the first delivery and the overruns; only a queued row is *)
(* leased.                                                                  *)
RepeatInv ==
    /\ TypeOK
    /\ \A s \in Seqs : /\ applied[s] + Hands(s) + Spare(s) <= 1 + overruns[s]
                       /\ lease[s] = "held" => status[s] = "pending"

LEMMA HandsCount ==
    /\ \A s \in Seqs : IsFiniteSet(Holders(s)) /\ Hands(s) \in Nat
                        /\ (Holders(s) = {} <=> Hands(s) = 0)
    /\ \A s \in Seqs : (Holders(s) = {} <=> ~HeldAlive(s))
<1>1. ASSUME NEW s \in Seqs
      PROVE  IsFiniteSet(Holders(s)) /\ Hands(s) \in Nat /\ (Holders(s) = {} <=> Hands(s) = 0)
  <2>1. IsFiniteSet(Holders(s))
        BY OutboxAssumption, FS_Subset DEF Holders
  <2> QED BY <2>1, FS_CardinalityType, FS_EmptySet DEF Hands
<1>2. ASSUME NEW s \in Seqs PROVE Holders(s) = {} <=> ~HeldAlive(s)
      BY DEF Holders, HeldAlive
<1> QED BY <1>1, <1>2

(* The holders of a row after a step of one worker. *)
LEMMA HandsLet ==
    ASSUME NEW s \in Seqs, NEW w \in Workers, Holds(w, s),
           Holders(s)' = Holders(s) \ {w}
    PROVE  Hands(s)' = Hands(s) - 1 /\ Hands(s) >= 1
<1>1. w \in Holders(s) BY DEF Holders
<1>2. PICK H : H = Holders(s) OBVIOUS
<1>3. IsFiniteSet(H) BY <1>2, HandsCount
<1>4. Cardinality(H \ {w}) = Cardinality(H) - 1
      BY <1>1, <1>2, <1>3, FS_RemoveElement
<1>5. Hands(s) # 0 /\ Hands(s) \in Nat BY <1>1, HandsCount
<1>6. Hands(s)' = Cardinality(H \ {w}) BY <1>2 DEF Hands
<1>7. Hands(s) = Cardinality(H) BY <1>2 DEF Hands
<1> QED BY <1>4, <1>5, <1>6, <1>7

LEMMA HandsTaken ==
    ASSUME NEW s \in Seqs, NEW w \in Workers, ~Holds(w, s),
           Holders(s)' = Holders(s) \cup {w}
    PROVE  Hands(s)' = Hands(s) + 1
<1>1. w \notin Holders(s) BY DEF Holders
<1>2. PICK H : H = Holders(s) OBVIOUS
<1>3. IsFiniteSet(H) BY <1>2, HandsCount
<1>4. Cardinality(H \cup {w}) = Cardinality(H) + 1
      BY <1>1, <1>2, <1>3, FS_AddElement
<1> QED BY <1>2, <1>4 DEF Hands

LEMMA RepeatInit == Init => RepeatInv
<1> SUFFICES ASSUME Init PROVE RepeatInv
    OBVIOUS
<1>1. \A s \in Seqs : Holders(s) = {}
    BY DEF Init, Holders, Holds, Busy
<1>2. \A s \in Seqs : Hands(s) = 0
    BY <1>1, HandsCount
<1>3. \A s \in Seqs : applied[s] = 0 /\ overruns[s] = 0 /\ lease[s] = "none"
    BY DEF Init
<1>4. \A s \in Seqs : Spare(s) \in {0, 1}
    BY DEF Spare
<1> QED BY <1>2, <1>3, <1>4, TypeInit DEF RepeatInv

LEMMA RepeatNext == RepeatInv /\ [Next]_vars => RepeatInv'
<1> SUFFICES ASSUME RepeatInv, [Next]_vars PROVE RepeatInv'
    OBVIOUS
<1> USE DEF rows, workers
<1>0. TypeOK /\ TypeOK'
    BY TypeNext DEF RepeatInv
<1>a. \A s \in Seqs : /\ applied[s] \in Nat /\ overruns[s] \in Nat /\ status[s] \in RowStatus
                      /\ Hands(s) \in Nat /\ (Holders(s) = {} <=> Hands(s) = 0)
                      /\ applied[s] + Hands(s) + Spare(s) <= 1 + overruns[s]
                      /\ (lease[s] = "held" => status[s] = "pending")
  <2> TAKE s \in Seqs
  <2>1. applied[s] \in Nat /\ overruns[s] \in Nat /\ status[s] \in RowStatus
        BY <1>0 DEF TypeOK
  <2>2. Hands(s) \in Nat /\ (Holders(s) = {} <=> Hands(s) = 0)
        BY HandsCount
  <2>3. /\ applied[s] + Hands(s) + Spare(s) <= 1 + overruns[s]
        /\ (lease[s] = "held" => status[s] = "pending")
        BY DEF RepeatInv
  <2> QED BY <2>1, <2>2, <2>3
<1>b. \A w \in Workers : claimed[w] \in Message /\ claimed[w].seq \in Seqs
    BY <1>0, MessageFacts DEF TypeOK
<1>q. ASSUME \A s \in Seqs : /\ applied'[s] + Hands(s)' + Spare(s)' <= 1 + overruns'[s]
                             /\ lease'[s] = "held" => status'[s] = "pending"
      PROVE  RepeatInv'
    BY <1>0, <1>q DEF RepeatInv
\* Nobody takes or lets go of a row.
<1>h. ASSUME UNCHANGED <<pc, claimed>>
      PROVE  \A s \in Seqs : Holders(s)' = Holders(s) /\ Hands(s)' = Hands(s)
    BY <1>h DEF Holders, Holds, Busy, Hands
\* A worker that had a row lets go of it.
<1>l. ASSUME NEW w \in Workers, Busy(w), UNCHANGED claimed, NEW v \in {"idle", "down"},
             pc' = [pc EXCEPT ![w] = v]
      PROVE  \A s \in Seqs :
                IF s = claimed[w].seq
                THEN Holders(s)' = Holders(s) \ {w} /\ Hands(s)' = Hands(s) - 1 /\ Hands(s) >= 1
                ELSE Holders(s)' = Holders(s) /\ Hands(s)' = Hands(s)
  <2>1. ASSUME NEW s \in Seqs, s # claimed[w].seq PROVE Holders(s)' = Holders(s)
        BY <1>l, <1>0, <2>1 DEF Holders, Holds, Busy, TypeOK
  <2>2. ASSUME NEW s \in Seqs, s = claimed[w].seq PROVE Holders(s)' = Holders(s) \ {w}
        BY <1>l, <1>0, <2>2 DEF Holders, Holds, Busy, TypeOK
  <2>3. ASSUME NEW s \in Seqs, s = claimed[w].seq PROVE Hands(s)' = Hands(s) - 1 /\ Hands(s) >= 1
    <3>1. Holds(w, s) BY <1>l, <2>3 DEF Holds
    <3> QED BY <2>2, <2>3, <3>1, HandsLet
  <2> QED BY <2>1, <2>2, <2>3 DEF Hands
<1>1. ASSUME NEW s \in Seqs, Append(s) PROVE RepeatInv'
  <2>1. \A q \in Seqs : Spare(q)' = Spare(q)
        BY <1>1, <1>h, <1>0, <1>a DEF Append, Spare, TypeOK
  <2>2. \A q \in Seqs : lease'[q] = "held" => status'[q] = "pending"
        BY <1>1, <1>0, <1>a DEF Append, TypeOK
  <2> QED BY <1>1, <1>h, <1>q, <1>a, <2>1, <2>2 DEF Append
<1>2. ASSUME NEW s \in Seqs, LeaseExpires(s) PROVE RepeatInv'
  <2>1. \A q \in Seqs : q # s => Spare(q)' = Spare(q) /\ overruns'[q] = overruns[q]
        BY <1>2, <1>h, <1>0 DEF LeaseExpires, Spare, TypeOK
  <2>2. Spare(s)' = 1 /\ Holders(s)' = Holders(s) /\ Hands(s)' = Hands(s)
        BY <1>2, <1>h, <1>0, <1>a DEF LeaseExpires, Spare, TypeOK
  <2>3. applied'[s] + Hands(s)' + Spare(s)' <= 1 + overruns'[s]
    <3>1. CASE HeldAlive(s)
      <4>1. overruns'[s] = overruns[s] + 1 /\ applied'[s] = applied[s]
            BY <1>2, <1>0, <3>1 DEF LeaseExpires, TypeOK
      <4>2. Spare(s) = 0
            BY <1>2, <1>a, <3>1, HandsCount DEF LeaseExpires, Spare
      <4> QED BY <4>1, <4>2, <2>2, <1>a
    <3>2. CASE ~HeldAlive(s)
      <4>1. overruns'[s] = overruns[s] /\ applied'[s] = applied[s]
            BY <1>2, <3>2 DEF LeaseExpires
      <4>2. Holders(s) = {} BY <3>2, HandsCount
      <4>3. Spare(s) = 1
            BY <1>2, <1>a, <4>2 DEF LeaseExpires, Spare
      <4> QED BY <4>1, <4>3, <2>2, <1>a
    <3> QED BY <3>1, <3>2
  <2>4. \A q \in Seqs : lease'[q] = "held" => status'[q] = "pending"
        BY <1>2, <1>0, <1>a DEF LeaseExpires, TypeOK
  <2>5. \A q \in Seqs : Hands(q)' = Hands(q) /\ applied'[q] = applied[q]
        BY <1>2, <1>h DEF LeaseExpires
  <2>6. ASSUME NEW q \in Seqs PROVE applied'[q] + Hands(q)' + Spare(q)' <= 1 + overruns'[q]
        BY <2>1, <2>3, <2>5, <1>a
  <2> QED BY <2>4, <2>6, <1>q
<1>3. ASSUME NEW s \in Seqs, BackoffElapses(s) PROVE RepeatInv'
  <2>1. \A q \in Seqs : Spare(q)' = Spare(q)
        BY <1>3, <1>h DEF BackoffElapses, Spare
  <2> QED BY <1>3, <1>h, <1>q, <1>a, <2>1 DEF BackoffElapses
<1>4. ASSUME NEW s \in Seqs, RequeueDeadLetter(s) PROVE RepeatInv'
  <2>1. \A q \in Seqs : Spare(q)' = Spare(q)
        BY <1>4, <1>h, <1>0, <1>a DEF RequeueDeadLetter, Spare, TypeOK
  <2>2. \A q \in Seqs : lease'[q] = "held" => status'[q] = "pending"
        BY <1>4, <1>0, <1>a DEF RequeueDeadLetter, TypeOK
  <2> QED BY <1>4, <1>h, <1>q, <1>a, <2>1, <2>2 DEF RequeueDeadLetter
<1>5. ASSUME NEW w \in Workers, Claim(w) PROVE RepeatInv'
  <2>1. PICK s \in Seqs :
            /\ Claimable(s)
            /\ lease' = [lease EXCEPT ![s] = "held"]
            /\ claimed' = [claimed EXCEPT ![w] = [seq |-> s, attempts |-> attempts[s] + 1]]
            /\ pc' = [pc EXCEPT ![w] = "handling"]
        BY <1>5 DEF Claim
  <2>2. UNCHANGED <<status, applied, overruns>> /\ pc[w] = "idle"
        BY <1>5 DEF Claim
  <2>3. claimed'[w].seq = s /\ pc'[w] = "handling"
        /\ \A v \in Workers : v # w => claimed'[v] = claimed[v] /\ pc'[v] = pc[v]
        BY <2>1, <1>0 DEF TypeOK
  <2>4. \A q \in Seqs : ~Holds(w, q)
        BY <2>2 DEF Holds, Busy
  <2>5. Holders(s)' = Holders(s) \cup {w}
        BY <2>3, <2>4 DEF Holders, Holds, Busy
  <2>6. \A q \in Seqs : q # s => Holders(q)' = Holders(q)
        BY <2>3, <2>4 DEF Holders, Holds, Busy
  <2>7. Hands(s)' = Hands(s) + 1
        BY <2>4, <2>5, HandsTaken
  <2>8. \A q \in Seqs : q # s => Hands(q)' = Hands(q) /\ Spare(q)' = Spare(q)
                                 /\ lease'[q] = lease[q]
        BY <2>1, <2>2, <2>6, <1>0 DEF Hands, Spare, TypeOK
  <2>9. status[s] = "pending" /\ lease[s] # "held" /\ lease'[s] = "held"
        BY <2>1, <1>0 DEF Claimable, TypeOK
  <2>10. Spare(s) = 1 BY <2>9 DEF Spare
  <2>11. Spare(s)' = 0 BY <2>5, <2>9 DEF Spare
  <2>12. ASSUME NEW q \in Seqs PROVE applied'[q] + Hands(q)' + Spare(q)' <= 1 + overruns'[q]
    <3>1. CASE q = s BY <3>1, <2>2, <2>7, <2>10, <2>11, <1>a
    <3>2. CASE q # s BY <3>2, <2>2, <2>8, <1>a
    <3> QED BY <3>1, <3>2
  <2> QED BY <2>2, <2>8, <2>9, <2>12, <1>a, <1>q
<1>6. ASSUME NEW w \in Workers, CommitHandled(w)
      PROVE /\ \A q \in Seqs : q # claimed[w].seq =>
                  applied'[q] = applied[q] /\ status'[q] = status[q] /\ lease'[q] = lease[q]
            /\ applied'[claimed[w].seq] = applied[claimed[w].seq] + 1
            /\ status'[claimed[w].seq] = "processed" /\ lease'[claimed[w].seq] = "none"
            /\ claimed' = claimed
    BY <1>6, <1>0, <1>b DEF CommitHandled, TypeOK
<1>7. ASSUME NEW w \in Workers, Succeed(w) PROVE RepeatInv'
  <2>1. Busy(w) /\ pc' = [pc EXCEPT ![w] = "idle"] /\ CommitHandled(w) /\ overruns' = overruns
        BY <1>7 DEF Succeed, Busy
  <2>2. \A q \in Seqs : q # claimed[w].seq => Spare(q)' = Spare(q)
        BY <2>1, <1>6, <1>l DEF Spare
  <2>3. Spare(claimed[w].seq)' = 0 /\ Spare(claimed[w].seq) \in {0, 1}
        BY <2>1, <1>6 DEF Spare
  <2>4. ASSUME NEW q \in Seqs PROVE applied'[q] + Hands(q)' + Spare(q)' <= 1 + overruns'[q]
    <3>1. CASE q = claimed[w].seq
      <4>1. Hands(q)' = Hands(q) - 1 /\ applied'[q] = applied[q] + 1
            BY <3>1, <2>1, <1>6, <1>l
      <4>2. Spare(q)' = 0 /\ Spare(q) \in {0, 1} /\ overruns'[q] = overruns[q]
            BY <3>1, <2>1, <2>3, <1>6
      <4> QED BY <4>1, <4>2, <1>a
    <3>2. CASE q # claimed[w].seq BY <3>2, <2>1, <2>2, <1>6, <1>l, <1>a
    <3> QED BY <3>1, <3>2
  <2>5. \A q \in Seqs : lease'[q] = "held" => status'[q] = "pending"
        BY <2>1, <1>6, <1>a
  <2> QED BY <2>4, <2>5, <1>q
<1>8. ASSUME NEW w \in Workers, CommitAckLost(w) PROVE RepeatInv'
  <2>1. pc[w] = "handling" /\ pc' = [pc EXCEPT ![w] = "failing"] /\ CommitHandled(w)
        /\ overruns' = [overruns EXCEPT ![claimed[w].seq] = @ + 1]
        BY <1>8 DEF CommitAckLost
  <2>2. \A q \in Seqs : Holders(q)' = Holders(q) /\ Hands(q)' = Hands(q)
        BY <2>1, <1>6, <1>0 DEF Holders, Holds, Busy, Hands, TypeOK
  <2>3. \A q \in Seqs : overruns'[q] = overruns[q] + (IF q = claimed[w].seq THEN 1 ELSE 0)
        BY <2>1, <1>0 DEF TypeOK
  <2>4. \A q \in Seqs : q # claimed[w].seq => Spare(q)' = Spare(q)
        BY <2>1, <2>2, <1>6 DEF Spare
  <2>5. Spare(claimed[w].seq)' = 0 /\ Spare(claimed[w].seq) \in {0, 1}
        BY <2>1, <1>6 DEF Spare
  <2>6. ASSUME NEW q \in Seqs PROVE applied'[q] + Hands(q)' + Spare(q)' <= 1 + overruns'[q]
    <3>1. CASE q = claimed[w].seq BY <3>1, <2>1, <2>2, <2>3, <2>5, <1>6, <1>a
    <3>2. CASE q # claimed[w].seq BY <3>2, <2>1, <2>2, <2>3, <2>4, <1>6, <1>a
    <3> QED BY <3>1, <3>2
  <2>7. \A q \in Seqs : lease'[q] = "held" => status'[q] = "pending"
        BY <2>1, <1>6, <1>a
  <2> QED BY <2>6, <2>7, <1>q
<1>9. ASSUME NEW w \in Workers, HandlerFails(w) PROVE RepeatInv'
  <2>1. \A q \in Seqs : Holders(q)' = Holders(q) /\ Hands(q)' = Hands(q)
        BY <1>9, <1>0 DEF HandlerFails, Holders, Holds, Busy, Hands, TypeOK
  <2>2. \A q \in Seqs : Spare(q)' = Spare(q)
        BY <1>9, <2>1 DEF HandlerFails, Spare
  <2> QED BY <1>9, <1>q, <1>a, <2>1, <2>2 DEF HandlerFails
<1>10. ASSUME NEW w \in Workers, RecordFailure(w) PROVE RepeatInv'
  <2>1. Busy(w) /\ pc' = [pc EXCEPT ![w] = "idle"] /\ UNCHANGED <<claimed, applied, overruns>>
        BY <1>10 DEF RecordFailure, Busy
  <2>2. /\ status'[claimed[w].seq] \in {"pending", "dead"} /\ lease'[claimed[w].seq] = "none"
        /\ \A q \in Seqs : q # claimed[w].seq => status'[q] = status[q] /\ lease'[q] = lease[q]
        BY <1>10, <1>0, <1>b DEF RecordFailure, TypeOK
  <2>3. \A q \in Seqs : q # claimed[w].seq => Spare(q)' = Spare(q)
        BY <2>1, <2>2, <1>l DEF Spare
  <2>4. Spare(claimed[w].seq)' = 1 /\ Spare(claimed[w].seq) \in {0, 1}
    <3>1. (IF \/ status'[claimed[w].seq] = "processed"
              \/ (lease'[claimed[w].seq] = "held" /\ Holders(claimed[w].seq)' # {})
           THEN 0 ELSE 1) = 1
          BY <2>2
    <3>2. Spare(claimed[w].seq)' = 1
          BY <2>1, <3>1 DEF Spare
    <3> QED BY <3>2 DEF Spare
  <2>5. ASSUME NEW q \in Seqs PROVE applied'[q] + Hands(q)' + Spare(q)' <= 1 + overruns'[q]
    <3>1. CASE q = claimed[w].seq
      <4>1. Hands(q)' = Hands(q) - 1 /\ applied'[q] = applied[q] /\ overruns'[q] = overruns[q]
            BY <3>1, <2>1, <1>l
      <4>2. Spare(q)' = 1 /\ Spare(q) \in {0, 1}
            BY <3>1, <2>1, <2>4
      <4> QED BY <4>1, <4>2, <1>a
    <3>2. CASE q # claimed[w].seq BY <3>2, <2>1, <2>3, <1>l, <1>a
    <3> QED BY <3>1, <3>2
  <2>6. \A q \in Seqs : lease'[q] = "held" => status'[q] = "pending"
        BY <2>2, <1>a
  <2> QED BY <2>5, <2>6, <1>q
<1>11. ASSUME NEW w \in Workers, Abandon(w) \/ Crash(w) PROVE RepeatInv'
  <2>1. /\ UNCHANGED <<status, lease, claimed, applied, overruns>>
        /\ \E v \in {"idle", "down"} : pc' = [pc EXCEPT ![w] = v]
        BY <1>11 DEF Abandon, Crash
  <2>2. CASE Busy(w)
    <3>1. ASSUME NEW q \in Seqs
          PROVE  IF q = claimed[w].seq
                 THEN Holders(q)' = Holders(q) \ {w} /\ Hands(q)' = Hands(q) - 1 /\ Hands(q) >= 1
                 ELSE Holders(q)' = Holders(q) /\ Hands(q)' = Hands(q)
          BY <2>1, <2>2, <1>l
    <3>2. ASSUME NEW q \in Seqs, q # claimed[w].seq PROVE Spare(q)' = Spare(q)
          BY <2>1, <3>1, <3>2 DEF Spare
    <3>3. ASSUME NEW q \in Seqs PROVE Spare(q)' \in {0, 1} /\ Spare(q) \in {0, 1}
          BY DEF Spare
    <3>4. ASSUME NEW q \in Seqs PROVE Spare(q)' <= Spare(q) + 1
          BY <3>3
    <3>5. ASSUME NEW q \in Seqs PROVE applied'[q] + Hands(q)' + Spare(q)' <= 1 + overruns'[q]
      <4>1. CASE q = claimed[w].seq BY <4>1, <2>1, <3>1, <3>3, <3>4, <1>a
      <4>2. CASE q # claimed[w].seq BY <4>2, <2>1, <3>1, <3>2, <1>a
      <4> QED BY <4>1, <4>2
    <3> QED BY <2>1, <3>5, <1>a, <1>q
  <2>3. CASE ~Busy(w)
    <3>1. \A q \in Seqs : Holders(q)' = Holders(q) /\ Hands(q)' = Hands(q)
          BY <2>1, <2>3, <1>0 DEF Holders, Holds, Busy, Hands, TypeOK
    <3>2. \A q \in Seqs : Spare(q)' = Spare(q)
          BY <2>1, <3>1 DEF Spare
    <3> QED BY <2>1, <3>1, <3>2, <1>a, <1>q
  <2> QED BY <2>2, <2>3
<1>12. ASSUME NEW w \in Workers, Restart(w) PROVE RepeatInv'
  <2>1. \A q \in Seqs : Holders(q)' = Holders(q) /\ Hands(q)' = Hands(q)
        BY <1>12, <1>0 DEF Restart, Holders, Holds, Busy, Hands, TypeOK
  <2>2. \A q \in Seqs : Spare(q)' = Spare(q)
        BY <1>12, <2>1 DEF Restart, Spare
  <2> QED BY <1>12, <1>q, <1>a, <2>1, <2>2 DEF Restart
<1>13. CASE UNCHANGED vars
  <2>1. \A q \in Seqs : Spare(q)' = Spare(q)
        BY <1>13, <1>h DEF vars, Spare
  <2> QED BY <1>13, <1>h, <1>q, <1>a, <2>1 DEF vars
<1> QED
    BY <1>1, <1>2, <1>3, <1>4, <1>5, <1>7, <1>8, <1>9, <1>10, <1>11, <1>12, <1>13 DEF Next

(* However many workers outlive their leases and however many               *)
(* acknowledgements are lost, a row's handler commits once, and once more   *)
(* at most for each of those events; a row that is still queued or dead has *)
(* not even had the first: complete() and fail() match rows by id alone.    *)
THEOREM RepeatsBounded == Spec => []RepeatsExplained
<1>1. RepeatInv => RepeatsExplained
  <2> SUFFICES ASSUME RepeatInv, NEW s \in Seqs
               PROVE  applied[s] <= overruns[s] + (IF status[s] = "processed" THEN 1 ELSE 0)
      BY DEF RepeatsExplained
  <2>1. /\ applied[s] \in Nat /\ overruns[s] \in Nat /\ Hands(s) \in Nat
        /\ applied[s] + Hands(s) + Spare(s) <= 1 + overruns[s]
        /\ (Holders(s) = {} <=> Hands(s) = 0)
    <3>1. applied[s] \in Nat /\ overruns[s] \in Nat
          BY DEF RepeatInv, TypeOK
    <3>2. Hands(s) \in Nat /\ (Holders(s) = {} <=> Hands(s) = 0)
          BY HandsCount
    <3>3. applied[s] + Hands(s) + Spare(s) <= 1 + overruns[s]
          BY DEF RepeatInv
    <3> QED BY <3>1, <3>2, <3>3
  <2>2. CASE status[s] = "processed"
        BY <2>1, <2>2 DEF Spare
  <2>3. CASE status[s] # "processed" /\ Spare(s) = 1
        BY <2>1, <2>3
  <2>4. CASE status[s] # "processed" /\ Spare(s) # 1
    <3>1. Spare(s) = 0 /\ Hands(s) >= 1
          BY <2>1, <2>4 DEF Spare
    <3> QED BY <2>1, <2>4, <3>1
  <2> QED BY <2>2, <2>3, <2>4
<1> QED
    BY <1>1, RepeatInit, RepeatNext, PTL DEF Spec
-----------------------------------------------------------------------------
(* The strengthening that makes the safety invariants inductive: whatever  *)
(* a worker holds has only processed predecessors, and the handler asked   *)
(* for its aggregate type.                                                 *)
BusyUnblocked ==
    \A w \in Workers : Busy(w) =>
        /\ agg[claimed[w].seq] \in Subscribed
        /\ \A q \in Seqs : /\ Same(q, claimed[w].seq) /\ q < claimed[w].seq
                           /\ Present(q)
                          => status[q] = "processed"

IInv == TypeOK /\ OneHolder /\ BusyUnblocked /\ NoOvertaking /\ ExactlyOnce

LEMMA IInvInit == Init => IInv
<1> SUFFICES ASSUME Init PROVE IInv
    OBVIOUS
<1>1. \A w \in Workers : ~Busy(w)
    BY DEF Init, Busy
<1>2. \A s \in Seqs : status[s] = "absent" /\ applied[s] = 0
    BY DEF Init
<1> QED
    BY <1>1, <1>2, TypeInit
    DEF IInv, OneHolder, BusyUnblocked, NoOvertaking, ExactlyOnce

(* Rows and workers change in four ways only. *)
LEMMA AppendKeeps ==
    ASSUME IInv, NEW s \in Seqs, Append(s) PROVE IInv'
<1> USE MessageFacts, OutboxAssumption DEF IInv, TypeOK, Append, workers, Same, Present
<1>0. TypeOK' BY TypeNext DEF Next
<1>1. OneHolder' BY DEF OneHolder, Busy
<1>2. BusyUnblocked'
  <2> SUFFICES ASSUME NEW w \in Workers, Busy(w)
               PROVE  /\ agg[claimed[w].seq] \in Subscribed
                      /\ \A q \in Seqs : agg[q] = agg[claimed[w].seq]
                             /\ q < claimed[w].seq /\ status'[q] # "absent"
                             => status'[q] = "processed"
      BY DEF BusyUnblocked, Busy
  <2>1. status[claimed[w].seq] = "pending"
      BY DEF OneHolder
  <2>2. agg[s] = agg[claimed[w].seq] => claimed[w].seq < s
      BY <2>1
  <2>3. \A q \in Seqs : q # s => status'[q] = status[q]
      OBVIOUS
  <2>4. claimed[w].seq \in Int /\ s \in Int
      OBVIOUS
  <2> QED BY <2>2, <2>3, <2>4 DEF BusyUnblocked
<1>3. NoOvertaking' BY DEF NoOvertaking
<1>4. ExactlyOnce' BY DEF ExactlyOnce
<1> QED BY <1>0, <1>1, <1>2, <1>3, <1>4

LEMMA ClaimKeeps ==
    ASSUME IInv, NEW w \in Workers, Claim(w) PROVE IInv'
<1> USE MessageFacts, OutboxAssumption DEF IInv, TypeOK
<1>0. TypeOK' BY TypeNext DEF Next
<1>1. PICK s \in Seqs :
          /\ Claimable(s)
          /\ lease' = [lease EXCEPT ![s] = "held"]
          /\ attempts' = [attempts EXCEPT ![s] = @ + 1]
          /\ claimed' = [claimed EXCEPT ![w] =
                            [seq |-> s, attempts |-> attempts[s] + 1]]
          /\ pc' = [pc EXCEPT ![w] = "handling"]
    BY DEF Claim
<1>2. UNCHANGED <<agg, status, available, applied>>
    BY DEF Claim
<1>3. \A v \in Workers : Busy(v) => claimed[v].seq # s
    BY <1>1 DEF Claimable, OneHolder
<1>4. /\ claimed'[w].seq = s /\ claimed'[w].attempts = attempts'[s]
      /\ \A v \in Workers \ {w} : claimed'[v] = claimed[v] /\ Busy(v)' = Busy(v)
      /\ lease'[s] = "held"
      /\ \A q \in Seqs \ {s} : lease'[q] = lease[q] /\ attempts'[q] = attempts[q]
    BY <1>1 DEF Busy
<1>5. OneHolder'
    BY <1>1, <1>2, <1>3, <1>4 DEF OneHolder, Claimable
<1>6. BusyUnblocked'
  <2> SUFFICES ASSUME NEW v \in Workers, Busy(v)'
               PROVE  /\ agg'[claimed'[v].seq] \in Subscribed
                      /\ \A q \in Seqs : (Same(q, claimed[v].seq) /\ q < claimed[v].seq
                             /\ Present(q) => status[q] = "processed")'
      BY DEF BusyUnblocked
  <2>1. CASE v = w
    BY <1>1, <1>2, <1>4, <2>1 DEF Claimable, Blocked, Same, Present, RowStatus
  <2>2. CASE v # w
    BY <1>2, <1>4, <2>2 DEF BusyUnblocked, Same, Present
  <2> QED BY <2>1, <2>2
<1>7. NoOvertaking' BY <1>2 DEF NoOvertaking, Same, Present
<1>8. ExactlyOnce' BY <1>2 DEF ExactlyOnce
<1> QED BY <1>0, <1>5, <1>6, <1>7, <1>8

LEMMA SucceedKeeps ==
    ASSUME IInv, NEW w \in Workers, Succeed(w) PROVE IInv'
<1> USE MessageFacts, OutboxAssumption DEF IInv, TypeOK
<1> DEFINE s == claimed[w].seq
<1>0. TypeOK' BY TypeNext DEF Next
<1>1. /\ s \in Seqs /\ Busy(w) /\ status[s] = "pending" /\ agg[s] \in Subscribed
    BY DEF Succeed, Busy, OneHolder, BusyUnblocked
<1>2. /\ UNCHANGED <<agg, attempts, claimed>>
      /\ status' = [status EXCEPT ![s] = "processed"]
      /\ lease' = [lease EXCEPT ![s] = "none"]
      /\ applied' = [applied EXCEPT ![s] = @ + 1]
      /\ pc' = [pc EXCEPT ![w] = "idle"]
    BY DEF Succeed, CommitHandled
<1>3. \A v \in Workers : Busy(v)' => v # w /\ Busy(v) /\ claimed[v].seq # s
    BY <1>1, <1>2 DEF Busy, OneHolder
<1>4. OneHolder'
    BY <1>1, <1>2, <1>3 DEF OneHolder
<1>5. BusyUnblocked'
    BY <1>1, <1>2, <1>3 DEF BusyUnblocked, Same, Present
<1>6. NoOvertaking'
    BY <1>1, <1>2 DEF NoOvertaking, BusyUnblocked, Same, Present
<1>7. ExactlyOnce'
    BY <1>1, <1>2 DEF ExactlyOnce
<1> QED BY <1>0, <1>4, <1>5, <1>6, <1>7

LEMMA RecordFailureKeeps ==
    ASSUME IInv, NEW w \in Workers, RecordFailure(w) PROVE IInv'
<1> USE MessageFacts, OutboxAssumption DEF IInv, TypeOK
<1> DEFINE s == claimed[w].seq
<1>0. TypeOK' BY TypeNext DEF Next
<1>1. /\ s \in Seqs /\ Busy(w) /\ status[s] = "pending"
    BY DEF RecordFailure, Busy, OneHolder
<1>2. /\ UNCHANGED <<agg, attempts, claimed, applied>>
      /\ \E st \in {"pending", "dead"} : status' = [status EXCEPT ![s] = st]
      /\ lease' = [lease EXCEPT ![s] = "none"]
      /\ pc' = [pc EXCEPT ![w] = "idle"]
    BY DEF RecordFailure
<1>3. \A v \in Workers : Busy(v)' => v # w /\ Busy(v) /\ claimed[v].seq # s
    BY <1>1, <1>2 DEF Busy, OneHolder
<1>4. OneHolder'
    BY <1>1, <1>2, <1>3 DEF OneHolder
<1>5. BusyUnblocked'
    BY <1>1, <1>2, <1>3 DEF BusyUnblocked, Same, Present
<1>6. NoOvertaking'
    BY <1>1, <1>2 DEF NoOvertaking, Same, Present
<1>7. ExactlyOnce'
    BY <1>1, <1>2 DEF ExactlyOnce
<1> QED BY <1>0, <1>4, <1>5, <1>6, <1>7

LEMMA RequeueKeeps ==
    ASSUME IInv, NEW s \in Seqs, RequeueDeadLetter(s) PROVE IInv'
<1> USE MessageFacts, OutboxAssumption DEF IInv, TypeOK, workers
<1>0. TypeOK' BY TypeNext DEF Next
<1>1. \A v \in Workers : Busy(v) => claimed[v].seq # s
    BY DEF RequeueDeadLetter, OneHolder
<1>2. OneHolder'
    BY <1>1 DEF OneHolder, RequeueDeadLetter, Busy
<1>3. BusyUnblocked'
    BY <1>1 DEF BusyUnblocked, RequeueDeadLetter, Busy, Same, Present
<1>4. NoOvertaking'
    BY DEF NoOvertaking, RequeueDeadLetter, Same, Present
<1>5. ExactlyOnce'
    BY DEF ExactlyOnce, RequeueDeadLetter
<1> QED BY <1>0, <1>2, <1>3, <1>4, <1>5

(* A worker that lets go of its row, or turns to recording a failure,      *)
(* touches no row.                                                         *)
LEMMA LetGoKeeps ==
    ASSUME IInv, NEW w \in Workers,
           HandlerFails(w) \/ Abandon(w) \/ Crash(w) \/ Restart(w)
    PROVE  IInv'
<1> USE DEF IInv, TypeOK
<1>0. TypeOK' BY TypeNext DEF Next
<1>1. UNCHANGED <<agg, status, attempts, lease, claimed, applied>>
    BY DEF HandlerFails, Abandon, Crash, Restart, rows
<1>2. \A v \in Workers : Busy(v)' => Busy(v)
    BY DEF HandlerFails, Abandon, Crash, Restart, Busy
<1>3. OneHolder' BY <1>1, <1>2 DEF OneHolder
<1>4. BusyUnblocked' BY <1>1, <1>2 DEF BusyUnblocked, Same, Present
<1>5. NoOvertaking' BY <1>1 DEF NoOvertaking, Same, Present
<1>6. ExactlyOnce' BY <1>1 DEF ExactlyOnce
<1> QED BY <1>0, <1>3, <1>4, <1>5, <1>6

LEMMA ClockKeeps ==
    ASSUME Benign, IInv, NEW s \in Seqs, LeaseExpires(s) \/ BackoffElapses(s)
    PROVE  IInv'
<1> USE DEF IInv, TypeOK, workers
<1>0. TypeOK' BY TypeNext DEF Next
<1>1. UNCHANGED <<agg, status, attempts, pc, claimed, applied>>
    BY DEF LeaseExpires, BackoffElapses
<1>2. \A v \in Workers : Busy(v) => lease'[claimed[v].seq] = lease[claimed[v].seq]
  <2>1. CASE BackoffElapses(s) BY <2>1 DEF BackoffElapses
  <2>2. CASE LeaseExpires(s)
    <3>1. ~HeldAlive(s)
        BY <2>2 DEF LeaseExpires, Benign
    <3> QED BY <2>2, <3>1, MessageFacts DEF LeaseExpires, HeldAlive, Holds
  <2> QED BY <2>1, <2>2
<1>3. OneHolder' BY <1>1, <1>2 DEF OneHolder, Busy
<1>4. BusyUnblocked' BY <1>1 DEF BusyUnblocked, Busy, Same, Present
<1>5. NoOvertaking' BY <1>1 DEF NoOvertaking, Same, Present
<1>6. ExactlyOnce' BY <1>1 DEF ExactlyOnce
<1> QED BY <1>0, <1>3, <1>4, <1>5, <1>6

LEMMA IInvNext == ASSUME Benign PROVE IInv /\ [Next]_vars => IInv'
<1> SUFFICES ASSUME IInv, [Next]_vars PROVE IInv'
    OBVIOUS
<1>1. \A w \in Workers : ~CommitAckLost(w)
    BY DEF Benign, CommitAckLost
<1>2. CASE UNCHANGED vars
    BY <1>2 DEF vars, rows, workers, IInv, TypeOK, OneHolder, BusyUnblocked,
                NoOvertaking, ExactlyOnce, Busy, Same, Present
<1> QED
    BY <1>1, <1>2, AppendKeeps, ClaimKeeps, SucceedKeeps, RecordFailureKeeps,
       RequeueKeeps, LetGoKeeps, ClockKeeps DEF Next
-----------------------------------------------------------------------------
LEMMA InductiveInvariant == ASSUME Benign PROVE Spec => []IInv
    BY IInvInit, IInvNext, PTL DEF Spec

(* outbox.Handler.Handle: a committed handler run and its outcome are one  *)
(* fact, and it happens once per row.                                      *)
THEOREM ExactlyOnceDelivery == ASSUME Benign PROVE Spec => []ExactlyOnce
    BY InductiveInvariant, PTL DEF IInv

(* The blocker guard of claimStatement: a retried or dead-lettered event   *)
(* is never overtaken by a later one of its aggregate.                     *)
THEOREM OrderKept == ASSUME Benign PROVE Spec => []NoOvertaking
    BY InductiveInvariant, PTL DEF IInv

(* The lease of claimStatement: no two live workers hold one row.          *)
THEOREM LeaseExclusive == ASSUME Benign PROVE Spec => []OneHolder
    BY InductiveInvariant, PTL DEF IInv

(* complete(), fail() and RequeueDeadLetter: nothing revives a processed   *)
(* row.                                                                    *)
THEOREM ProcessedStays == ASSUME Benign PROVE Spec => ProcessedIsFinal
<1>1. ASSUME IInv, [Next]_vars
      PROVE [\A s \in Seqs : status[s] = "processed" => status'[s] = "processed"]_vars
  <2> SUFFICES ASSUME NEW s \in Seqs, status[s] = "processed", Next
               PROVE status'[s] = "processed"
      BY <1>1
  <2> USE <1>1 DEF IInv, TypeOK
  <2>1. \A w \in Workers : Busy(w) => claimed[w].seq # s
      BY DEF OneHolder
  <2>2. ASSUME NEW w \in Workers, RecordFailure(w) PROVE status'[s] = "processed"
      BY <2>1, <2>2 DEF RecordFailure, Busy
  <2>3. ASSUME NEW w \in Workers, CommitHandled(w) PROVE status'[s] = "processed"
      BY <2>3 DEF CommitHandled
  <2>4. ASSUME NEW q \in Seqs, Append(q) \/ RequeueDeadLetter(q)
        PROVE status'[s] = "processed"
      BY <2>4 DEF Append, RequeueDeadLetter
  <2> QED BY <2>2, <2>3, <2>4 DEF Next, Succeed, CommitAckLost, Claim, HandlerFails,
             Abandon, Crash, Restart, LeaseExpires, BackoffElapses, rows
<1> QED
    BY <1>1, InductiveInvariant, PTL DEF Spec, ProcessedIsFinal

(* Only Succeed runs a handler to its commit. *)
LEMMA AppliedOnlyBySucceed ==
    ASSUME Benign, TypeOK, Next,
           ~ \E w \in Workers : Succeed(w)
    PROVE  UNCHANGED <<agg, applied>>
<1>1. \A w \in Workers : ~CommitAckLost(w)
    BY DEF Benign, CommitAckLost
<1> QED
    BY <1>1 DEF Next, Append, LeaseExpires, BackoffElapses, RequeueDeadLetter,
       Claim, HandlerFails, RecordFailure, Abandon, Crash, Restart, rows

(* The contract of Store.ProcessNext: handlers observe each aggregate's    *)
(* events in order.                                                        *)
THEOREM InOrder == ASSUME Benign PROVE Spec => AppliedInOrder
<1>1. ASSUME IInv, [Next]_vars
      PROVE [\A s \in Seqs : applied'[s] > applied[s] =>
                \A q \in Seqs : Same(q, s) /\ q > s => applied[q] = 0]_vars
  <2> SUFFICES ASSUME NEW s \in Seqs, NEW q \in Seqs, Next,
                      applied'[s] > applied[s], Same(q, s), q > s
               PROVE applied[q] = 0
      BY <1>1
  <2> USE <1>1, MessageFacts, OutboxAssumption DEF IInv, TypeOK
  <2>1. PICK w \in Workers : Succeed(w)
      BY AppliedOnlyBySucceed
  <2>2. s = claimed[w].seq
      BY <2>1 DEF Succeed, CommitHandled
  <2>3. status[s] = "pending"
      BY <2>1, <2>2 DEF OneHolder, Succeed, Busy
  <2>4. status[q] # "processed"
      BY <2>3 DEF NoOvertaking, Same, Present
  <2> QED BY <2>4 DEF ExactlyOnce
<1> QED
    BY <1>1, InductiveInvariant, PTL DEF Spec, AppliedInOrder
-----------------------------------------------------------------------------
(* The processed rows, of which there are finitely many at any moment. *)
Done == {s \in Seqs : status[s] = "processed"}

(* Only a committed handler run adds to the processed rows, and it adds a   *)
(* row that was not among them.                                            *)
LEMMA DoneChanges ==
    ASSUME Benign, IInv, Next
    PROVE  \/ Done' = Done /\ checkpoint' = checkpoint
           \/ \E s \in Seqs \ Done :
                 /\ Done' = Done \cup {s}
                 /\ checkpoint' = [last  |-> IF s > checkpoint.last THEN s ELSE checkpoint.last,
                                   count |-> checkpoint.count + 1]
<1> USE MessageFacts DEF IInv, TypeOK, rows, workers
<1>1. ASSUME NEW w \in Workers, Succeed(w)
      PROVE \E s \in Seqs \ Done :
                 /\ Done' = Done \cup {s}
                 /\ checkpoint' = [last  |-> IF s > checkpoint.last THEN s ELSE checkpoint.last,
                                   count |-> checkpoint.count + 1]
  <2>1. claimed[w].seq \in Seqs /\ status[claimed[w].seq] = "pending"
      BY <1>1 DEF Succeed, Busy, OneHolder
  <2>2. Done' = Done \cup {claimed[w].seq}
      BY <1>1, <2>1 DEF Succeed, CommitHandled, Done
  <2> QED BY <1>1, <2>1, <2>2 DEF Succeed, CommitHandled, Done
<1>2. ASSUME NEW w \in Workers, RecordFailure(w)
      PROVE Done' = Done /\ checkpoint' = checkpoint
    BY <1>2 DEF RecordFailure, Busy, OneHolder, Done
<1>3. ASSUME NEW s \in Seqs, Append(s) \/ RequeueDeadLetter(s)
      PROVE Done' = Done /\ checkpoint' = checkpoint
    BY <1>3 DEF Append, RequeueDeadLetter, Done
<1>4. ASSUME status' = status, checkpoint' = checkpoint
      PROVE Done' = Done /\ checkpoint' = checkpoint
    BY <1>4 DEF Done
<1>5. \A w \in Workers : ~CommitAckLost(w)
    BY DEF Benign, CommitAckLost
<1> QED
    BY <1>1, <1>2, <1>3, <1>4, <1>5 DEF Next, Claim, HandlerFails, Abandon, Crash, Restart,
       LeaseExpires, BackoffElapses

CheckpointInv ==
    /\ IsFiniteSet(Done)
    /\ checkpoint.count = Cardinality(Done)
    /\ \A s \in Done : s <= checkpoint.last
    /\ IF Done = {} THEN checkpoint.last = 0 ELSE checkpoint.last \in Done

(* complete() counts every processed row once and keeps the largest        *)
(* global_seq, although rows of different aggregates finish out of order,  *)
(* for any set of sequence numbers.                                        *)
THEOREM CheckpointTrue == ASSUME Benign PROVE Spec => []CheckpointAgrees
<1>1. Init => CheckpointInv
  <2> SUFFICES ASSUME Init PROVE CheckpointInv OBVIOUS
  <2>1. Done = {} BY DEF Init, Done
  <2> QED BY <2>1, FS_EmptySet DEF Init, CheckpointInv
<1>2. IInv /\ CheckpointInv /\ [Next]_vars => CheckpointInv'
  <2> SUFFICES ASSUME IInv, CheckpointInv, [Next]_vars PROVE CheckpointInv'
      OBVIOUS
  <2>1. CASE Done' = Done /\ checkpoint' = checkpoint
      BY <2>1 DEF CheckpointInv
  <2>2. ASSUME NEW s \in Seqs \ Done, Done' = Done \cup {s},
               checkpoint' = [last  |-> IF s > checkpoint.last THEN s ELSE checkpoint.last,
                              count |-> checkpoint.count + 1]
        PROVE CheckpointInv'
    <3>1. IsFiniteSet(Done') /\ Cardinality(Done') = Cardinality(Done) + 1
        BY <2>2, FS_AddElement DEF CheckpointInv
    <3>2. s \in Int /\ s > 0 /\ checkpoint.last \in Int /\ \A q \in Done : q \in Int
        BY OutboxAssumption DEF IInv, TypeOK, Done
    <3>3. checkpoint'.count = Cardinality(Done')
        BY <2>2, <3>1 DEF CheckpointInv
    <3>4. \A q \in Done' : q <= checkpoint'.last
        BY <2>2, <3>2 DEF CheckpointInv
    <3>5. checkpoint'.last \in Done'
        BY <2>2, <3>2 DEF CheckpointInv
    <3> QED BY <2>2, <3>1, <3>3, <3>4, <3>5 DEF CheckpointInv
  <2>3. CASE UNCHANGED vars
      BY <2>1, <2>3 DEF vars, rows, Done
  <2> QED BY <2>1, <2>2, <2>3, DoneChanges
<1>3. CheckpointInv => CheckpointAgrees
    BY DEF CheckpointInv, CheckpointAgrees, Done
<1> QED BY <1>1, <1>2, <1>3, InductiveInvariant, PTL DEF Spec
-----------------------------------------------------------------------------
(* The refinement mapping of Delivery. *)
LogOf == [a \in Aggregates |-> {s \in Seqs : Present(s) /\ agg[s] = a}]
DeliveredOf ==
    [a \in Aggregates |-> {s \in Seqs : status[s] = "processed" /\ agg[s] = a}]

LEMMA AddElement ==
    ASSUME NEW S, NEW a \in S, NEW e, NEW f, NEW g,
           f = [x \in S |-> f[x]], g = [x \in S |-> g[x]],
           \A x \in S : g[x] = IF x = a THEN f[x] \cup {e} ELSE f[x]
    PROVE  g = [f EXCEPT ![a] = @ \cup {e}]
    OBVIOUS

LEMMA CommitSimulated ==
    ASSUME IInv, NEW s \in Seqs, Append(s)
    PROVE  /\ \A q \in LogOf[agg[s]] : q < s
           /\ LogOf' = [LogOf EXCEPT ![agg[s]] = @ \cup {s}]
           /\ DeliveredOf' = DeliveredOf
<1> USE DEF IInv, TypeOK, Append, Present, Same
<1>1. agg[s] \in Aggregates /\ agg' = agg
    OBVIOUS
<1>2. \A q \in LogOf[agg[s]] : q < s
    BY DEF LogOf
<1>3. LogOf' = [LogOf EXCEPT ![agg[s]] = @ \cup {s}]
  <2>1. ASSUME NEW a \in Aggregates
        PROVE LogOf'[a] = IF a = agg[s] THEN LogOf[a] \cup {s} ELSE LogOf[a]
      BY <1>1 DEF LogOf
  <2>2. /\ LogOf = [a \in Aggregates |-> LogOf[a]]
        /\ LogOf' = [a \in Aggregates |-> LogOf'[a]]
      BY DEF LogOf
  <2> QED BY ONLY <1>1, <2>1, <2>2, AddElement
<1>4. \A q \in Seqs : status'[q] = "processed" <=> status[q] = "processed"
    OBVIOUS
<1>5. DeliveredOf' = DeliveredOf
    BY <1>1, <1>4 DEF DeliveredOf
<1> QED BY <1>2, <1>3, <1>5

LEMMA DeliverSimulated ==
    ASSUME IInv, NEW w \in Workers, Succeed(w)
    PROVE  LET s == claimed[w].seq IN
           /\ s \in Seqs /\ agg[s] \in Subscribed
           /\ s \in LogOf[agg[s]] \ DeliveredOf[agg[s]]
           /\ \A q \in LogOf[agg[s]] : q < s => q \in DeliveredOf[agg[s]]
           /\ DeliveredOf' = [DeliveredOf EXCEPT ![agg[s]] = @ \cup {s}]
           /\ LogOf' = LogOf
<1> USE MessageFacts DEF IInv, TypeOK, Present, Same
<1> DEFINE s == claimed[w].seq
<1>1. /\ s \in Seqs /\ Busy(w) /\ status[s] = "pending"
      /\ agg[s] \in Subscribed /\ agg[s] \in Aggregates
    BY DEF Succeed, Busy, OneHolder, BusyUnblocked
<1>2. status' = [status EXCEPT ![s] = "processed"] /\ agg' = agg
    BY DEF Succeed, CommitHandled
<1>3. s \in LogOf[agg[s]] \ DeliveredOf[agg[s]]
    BY <1>1 DEF LogOf, DeliveredOf
<1>4. \A q \in LogOf[agg[s]] : q < s => q \in DeliveredOf[agg[s]]
    BY <1>1 DEF LogOf, DeliveredOf, BusyUnblocked
<1>5. DeliveredOf' = [DeliveredOf EXCEPT ![agg[s]] = @ \cup {s}]
  <2>1. ASSUME NEW a \in Aggregates
        PROVE DeliveredOf'[a] =
                IF a = agg[s] THEN DeliveredOf[a] \cup {s} ELSE DeliveredOf[a]
      BY <1>1, <1>2 DEF DeliveredOf
  <2>2. /\ DeliveredOf = [a \in Aggregates |-> DeliveredOf[a]]
        /\ DeliveredOf' = [a \in Aggregates |-> DeliveredOf'[a]]
      BY DEF DeliveredOf
  <2> QED BY ONLY <1>1, <2>1, <2>2, AddElement
<1>6. \A q \in Seqs : status'[q] # "absent" <=> status[q] # "absent"
    BY <1>1, <1>2
<1>7. LogOf' = LogOf
    BY <1>2, <1>6 DEF LogOf
<1> QED BY <1>1, <1>3, <1>4, <1>5, <1>7

LEMMA OthersStutter ==
    ASSUME Benign, IInv, [Next]_vars,
           ~ \E s \in Seqs : Append(s), ~ \E w \in Workers : Succeed(w)
    PROVE  UNCHANGED <<LogOf, DeliveredOf>>
<1> USE MessageFacts DEF IInv, TypeOK
<1>1. agg' = agg
    BY AppliedOnlyBySucceed DEF vars, rows
<1> DEFINE Alike(q) == /\ status'[q] # "absent" <=> status[q] # "absent"
                       /\ status'[q] = "processed" <=> status[q] = "processed"
<1>2. ASSUME NEW q \in Seqs PROVE Alike(q)
  <2>1. ASSUME NEW w \in Workers, RecordFailure(w) PROVE Alike(q)
      BY <2>1 DEF RecordFailure, OneHolder, Busy
  <2>2. ASSUME NEW s \in Seqs, RequeueDeadLetter(s) PROVE Alike(q)
      BY <2>2 DEF RequeueDeadLetter
  <2>3. CASE status' = status
      BY <2>3
  <2>4. \A w \in Workers : ~CommitAckLost(w)
      BY DEF Benign, CommitAckLost
  <2> QED
      BY <2>1, <2>2, <2>3, <2>4 DEF Next, vars, rows, Claim, HandlerFails, Abandon,
         Crash, Restart, LeaseExpires, BackoffElapses
<1> QED BY <1>1, <1>2 DEF LogOf, DeliveredOf, Present

(* The queue, with its leases, retries, crashes and dead letters,          *)
(* implements in-order exactly-once delivery per aggregate.                *)
THEOREM Refinement == ASSUME Benign PROVE Spec => ImplementsOrderedDelivery
<1>1. Init => Delivery!Init
    BY DEF Init, Delivery!Init, Present
<1>2. IInv /\ [Next]_vars => [Delivery!Next]_(Delivery!vars)
  <2> SUFFICES ASSUME IInv, [Next]_vars
               PROVE  [Delivery!Next]_(Delivery!vars)
      OBVIOUS
  <2>1. ASSUME NEW s \in Seqs, Append(s) PROVE Delivery!Next
    <3>1. PICK a \in Aggregates : a = agg[s]
        BY DEF IInv, TypeOK
    <3>2. Delivery!Commit(a, s)
        BY <2>1, <3>1, CommitSimulated DEF Delivery!Commit, LogOf, DeliveredOf
    <3> QED BY <3>2 DEF Delivery!Next
  <2>2. ASSUME NEW w \in Workers, Succeed(w) PROVE Delivery!Next
    <3>1. PICK s \in Seqs, a \in Subscribed : s = claimed[w].seq /\ a = agg[s]
        BY <2>2, DeliverSimulated
    <3>2. Delivery!Deliver(a, s)
        BY <2>2, <3>1, DeliverSimulated DEF Delivery!Deliver, LogOf, DeliveredOf
    <3> QED BY <3>2 DEF Delivery!Next
  <2>3. CASE ~ (\E s \in Seqs : Append(s)) /\ ~ (\E w \in Workers : Succeed(w))
      BY <2>3, OthersStutter DEF Delivery!vars, LogOf, DeliveredOf
  <2> QED
      BY <2>1, <2>2, <2>3
<1> QED
    BY <1>1, <1>2, InductiveInvariant, PTL
    DEF Spec, ImplementsOrderedDelivery, Delivery!Spec
=============================================================================
