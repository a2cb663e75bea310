------------------------ MODULE LimitedServicesProofs ------------------------
(***************************************************************************)
(* Proofs about the rate limiters and the two services behind them, e-mail  *)
(* delivery and the assistant.                                              *)
(***************************************************************************)
EXTENDS Notifications, Assistant, SequenceTheorems, TLAPS

-----------------------------------------------------------------------------
(* The limiters keep their limits, for every set of keys, limit, interval   *)
(* and retention.                                                           *)

(* Durable: an open window granted at most what its row has counted, and    *)
(* its limit for every row of it that the clean-up deleted.                 *)
CountedOf(k, w) ==
    now < w + Interval[k] => granted[k][w] <= windows[k][w] + Limit[k] * purged[k][w]

Counted == durable => \A k \in Keys, w \in Time : CountedOf(k, w)

(* Local: the map's entry of an open window is that window, with its count; *)
(* without one the last window is closed; and no window is ahead of it.     *)
EntryTrue(k) ==
    /\ IF Open(k, started[k])
       THEN opened[k] = started[k] /\ count[k] = granted[k][opened[k]]
       ELSE ~Open(k, opened[k])
    /\ opened[k] # NoTime => opened[k] <= now
    /\ \A w \in Time : granted[k][w] # 0 => opened[k] # NoTime /\ w <= opened[k]

Tracked == ~durable => \A k \in Keys : EntryTrue(k)

LimiterInv == LimiterTypeOK /\ LimitKept /\ Counted /\ Tracked

(* What deleting a row once more allows. *)
LEMMA Allowance ==
    ASSUME NEW a \in Nat, NEW p \in Nat
    PROVE  /\ a * p \in Nat /\ a * (1 + p) \in Nat
           /\ a * (1 + p) = a + a * p
<1>1. a * p \in Nat
  OBVIOUS
<1>2. a * (1 + p) = a + a * p
  OBVIOUS
<1>3. QED  BY <1>1, <1>2

(* The windows of one key, and what its limit allows in each of them. *)
LEMMA WindowFields ==
    ASSUME LimiterTypeOK, NEW k \in Keys, NEW w \in Time
    PROVE  /\ granted[k][w] \in Nat /\ windows[k][w] \in Nat /\ purged[k][w] \in Nat
           /\ Limit[k] \in Nat /\ Interval[k] \in Nat /\ w \in Nat /\ now \in Nat /\ Retain \in Nat
           /\ Limit[k] * purged[k][w] \in Nat
           /\ Limit[k] * (1 + purged[k][w]) = Limit[k] + Limit[k] * purged[k][w]
<1>1. /\ granted[k][w] \in Nat /\ windows[k][w] \in Nat /\ purged[k][w] \in Nat
      /\ Limit[k] \in Nat /\ Interval[k] \in Nat /\ w \in Nat /\ now \in Nat /\ Retain \in Nat
  BY RateLimitAssumption DEF LimiterTypeOK, Time
<1>2. PICK a \in Nat, p \in Nat : a = Limit[k] /\ p = purged[k][w]
  BY <1>1
<1>3. a * p \in Nat /\ a * (1 + p) = a + a * p
  BY Allowance
<1>4. QED  BY <1>1, <1>2, <1>3

(* An instant lies in the aligned window it is put into. *)
LEMMA Aligned ==
    ASSUME NEW t \in Nat, NEW i \in Nat, i > 0
    PROVE  /\ (t \div i) * i \in Nat
           /\ (t \div i) * i <= t
           /\ t < (t \div i) * i + i
<1>1. t \div i \in Nat
  OBVIOUS
<1>2. (t \div i) * i \in Nat
  BY <1>1
<1>3. (t \div i) * i <= t /\ t < (t \div i) * i + i
  OBVIOUS
<1>4. QED  BY <1>2, <1>3

LEMMA WindowStartBounds ==
    ASSUME NEW k \in Keys, NEW t \in Time
    PROVE  /\ WindowStart(k, t) \in Time
           /\ WindowStart(k, t) <= t
           /\ t < WindowStart(k, t) + Interval[k]
<1> DEFINE w == WindowStart(k, t)
<1>1. Interval[k] \in Nat /\ Interval[k] > 0 /\ t \in Nat /\ t <= MaxTime /\ MaxTime \in Nat
  BY RateLimitAssumption DEF Time
<1>2. w \in Nat /\ w <= t /\ t < w + Interval[k]
  BY <1>1, Aligned DEF WindowStart
<1> HIDE DEF w
<1>3. QED  BY <1>1, <1>2 DEF Time, w

LEMMA LimiterStart == LimiterInit => LimiterInv
<1> SUFFICES ASSUME LimiterInit PROVE LimiterInv
  OBVIOUS
<1>1. LimiterTypeOK /\ Tracked
  BY RateLimitAssumption
     DEF LimiterInit, LimiterTypeOK, Tracked, EntryTrue, Open, Time, NoTime
<1>2. ASSUME NEW k \in Keys, NEW w \in Time
      PROVE  /\ granted[k][w] <= Limit[k] * (1 + purged[k][w])
             /\ purged[k][w] = 0 /\ CountedOf(k, w)
  <2>1. granted[k][w] = 0 /\ purged[k][w] = 0 /\ windows[k][w] = 0
    BY DEF LimiterInit
  <2>2. Limit[k] * (1 + purged[k][w]) = Limit[k] + Limit[k] * purged[k][w]
        /\ Limit[k] \in Nat /\ Limit[k] * purged[k][w] \in Nat
    BY <1>1, WindowFields
  <2>3. QED  BY <2>1, <2>2 DEF CountedOf
<1>3. QED  BY <1>1, <1>2 DEF LimiterInv, LimitKept, Counted

LEMMA CallsTyped ==
    ASSUME LimiterTypeOK, NEW k \in Keys, Called(k)
    PROVE  calls' \in [Keys -> 0 .. MaxCalls]
<1>1. calls[k] \in 0 .. MaxCalls /\ calls[k] < MaxCalls /\ MaxCalls \in Nat
  BY RateLimitAssumption DEF LimiterTypeOK, Called
<1>2. calls[k] + 1 \in 0 .. MaxCalls
  BY <1>1
<1>3. QED  BY <1>2 DEF LimiterTypeOK, Called

LEMMA DurableStep ==
    ASSUME LimiterInv, NEW k \in Keys, AllowDurable(k)
    PROVE  LimiterInv'
<1>0. now \in Time /\ calls' \in [Keys -> 0 .. MaxCalls] /\ LimiterTypeOK
  BY CallsTyped DEF LimiterInv, LimiterTypeOK, AllowDurable
<1>1. PICK w \in Time : w = WindowStart(k, now) /\ now < w + Interval[k]
  BY <1>0, WindowStartBounds
<1>2. durable /\ durable' /\ now' = now /\ purged' = purged
  BY DEF AllowDurable
<1>3. granted[k][w] <= windows[k][w] + Limit[k] * purged[k][w]
  BY <1>1, <1>2 DEF LimiterInv, Counted, CountedOf
<1>4. windows' = [windows EXCEPT ![k][w] = @ + 1]
  BY <1>1 DEF AllowDurable
<1>4a. windows' \in [Keys -> [Time -> Nat]] /\ started' = started /\ count' = count
  BY <1>0, <1>1, <1>4 DEF LimiterTypeOK, AllowDurable
<1>4b. windows'[k][w] = windows[k][w] + 1
  BY <1>0, <1>1, <1>4 DEF LimiterTypeOK
<1>5. ASSUME \/ granted' = granted
             \/ Within(k, windows[k][w] + 1) /\ granted' = [granted EXCEPT ![k][w] = @ + 1],
             NEW i \in Keys, NEW t \in Time
      PROVE  /\ granted'[i][t] <= Limit[i] * (1 + purged'[i][t])
             /\ Interval[i] <= Retain => purged'[i][t] = 0
             /\ CountedOf(i, t)'
  <2>1. /\ granted[i][t] <= Limit[i] * (1 + purged[i][t])
        /\ Interval[i] <= Retain => purged[i][t] = 0
        /\ CountedOf(i, t)
    BY <1>2 DEF LimiterInv, LimitKept, Counted
  <2>2. CASE i = k /\ t = w
    <3>1. \/ granted'[k][w] = granted[k][w]
          \/ granted'[k][w] = granted[k][w] + 1 /\ windows[k][w] + 1 <= Limit[k]
      BY <1>0, <1>5 DEF LimiterTypeOK, Within
    <3>2. /\ granted[k][w] \in Nat /\ windows[k][w] \in Nat /\ Limit[k] \in Nat
          /\ Limit[k] * purged[k][w] \in Nat
          /\ Limit[k] * (1 + purged[k][w]) = Limit[k] + Limit[k] * purged[k][w]
      BY <1>0, WindowFields
    <3>3. PICK m, n : m = Limit[k] * purged[k][w] /\ n = Limit[k] * (1 + purged[k][w])
      OBVIOUS
    <3>4. granted'[k][w] <= n /\ granted'[k][w] <= windows[k][w] + 1 + m
      BY <1>3, <2>1, <2>2, <3>1, <3>2, <3>3
    <3>5. QED  BY <1>2, <1>4b, <2>1, <2>2, <3>3, <3>4 DEF CountedOf
  <2>3. CASE ~(i = k /\ t = w)
    <3>1. granted'[i][t] = granted[i][t] /\ windows'[i][t] = windows[i][t]
      BY <1>0, <1>4, <1>5, <2>3 DEF LimiterTypeOK
    <3>2. QED  BY <1>2, <2>1, <3>1 DEF CountedOf
  <2>4. QED  BY <2>2, <2>3
<1>6. \/ granted' = granted /\ opened' = opened
      \/ /\ Within(k, windows[k][w] + 1)
         /\ granted' = [granted EXCEPT ![k][w] = @ + 1] /\ opened' = [opened EXCEPT ![k] = w]
  BY <1>1 DEF AllowDurable, Grant
<1>7. LimiterTypeOK'
  <2>1. opened' \in [Keys -> Time \cup {NoTime}]
    BY <1>0, <1>1, <1>6 DEF LimiterTypeOK
  <2>2. granted \in [Keys -> [Time -> Nat]] /\ granted[k][w] + 1 \in Nat
    BY <1>0, <1>1 DEF LimiterTypeOK
  <2>3. granted' = granted \/ granted' = [granted EXCEPT ![k][w] = @ + 1]
    BY <1>6
  <2>4. granted' \in [Keys -> [Time -> Nat]]
    BY <1>1, <2>2, <2>3
  <2>5. QED  BY <1>0, <1>2, <1>4a, <2>1, <2>4 DEF LimiterTypeOK
<1>8. LimitKept' /\ Counted'
  BY <1>5, <1>6 DEF LimitKept, Counted
<1>9. QED  BY <1>2, <1>7, <1>8 DEF LimiterInv, Tracked

(* An operation granted within the plain limit. *)
LEMMA GrantKeeps ==
    ASSUME LimiterTypeOK, LimitKept, NEW k \in Keys, NEW w \in Time, purged' = purged,
           granted' = [granted EXCEPT ![k][w] = @ + 1], granted[k][w] + 1 <= Limit[k]
    PROVE  LimitKept'
<1> SUFFICES ASSUME NEW i \in Keys, NEW t \in Time
             PROVE  /\ granted'[i][t] <= Limit[i] * (1 + purged[i][t])
                    /\ Interval[i] <= Retain => purged[i][t] = 0
  BY DEF LimitKept
<1>1. /\ granted[i][t] <= Limit[i] * (1 + purged[i][t])
      /\ Interval[i] <= Retain => purged[i][t] = 0
  BY DEF LimitKept
<1>2. CASE i = k /\ t = w
  <2>1. granted'[i][t] = granted[k][w] + 1
    BY <1>2 DEF LimiterTypeOK
  <2>2. /\ granted[i][t] \in Nat /\ Limit[i] \in Nat /\ Limit[i] * purged[i][t] \in Nat
        /\ Limit[i] * (1 + purged[i][t]) = Limit[i] + Limit[i] * purged[i][t]
    BY WindowFields
  <2>3. QED  BY <1>1, <1>2, <2>1, <2>2
<1>3. CASE ~(i = k /\ t = w)
  <2>1. granted'[i][t] = granted[i][t]
    BY <1>3 DEF LimiterTypeOK
  <2>2. QED  BY <1>1, <2>1
<1>4. QED  BY <1>2, <1>3

LEMMA LocalStep ==
    ASSUME LimiterInv, NEW k \in Keys, AllowLocal(k)
    PROVE  LimiterInv'
<1>1. PICK entries \in {started, Evict} :
        /\ ~durable
        /\ Called(k)
        /\ IF Open(k, entries[k])
           THEN /\ started' = entries
                /\ IF count[k] >= Limit[k]
                   THEN UNCHANGED <<count, opened, granted>>
                   ELSE /\ count' = [count EXCEPT ![k] = @ + 1]
                        /\ Grant(k, opened[k])
           ELSE /\ started' = [entries EXCEPT ![k] = now]
                /\ count' = [count EXCEPT ![k] = 1]
                /\ Grant(k, IF Open(k, opened[k]) THEN opened[k] ELSE now)
        /\ UNCHANGED <<durable, now, windows, purged>>
  BY DEF AllowLocal
<1>2. entries \in [Keys -> Time \cup {NoTime}]
  BY DEF LimiterInv, LimiterTypeOK, Evict
<1>3. \A j \in Keys : Open(j, entries[j]) <=> Open(j, started[j])
  BY <1>2 DEF LimiterInv, LimiterTypeOK, Evict, Open
<1>4. \A j \in Keys : Open(j, entries[j]) => entries[j] = started[j]
  BY <1>2 DEF Evict, Open
<1>5. \A j \in Keys : EntryTrue(j)
  BY <1>1 DEF LimiterInv, Tracked
<1>6. calls' \in [Keys -> 0 .. MaxCalls] /\ durable' = durable /\ now' = now
      /\ windows' = windows /\ purged' = purged
  BY <1>1, CallsTyped DEF LimiterInv
<1>7. ~durable'
  BY <1>1, <1>6
<1> USE RateLimitAssumption
<1>8. CASE Open(k, entries[k]) /\ count[k] >= Limit[k]
  <2>1. started' = entries /\ count' = count /\ opened' = opened /\ granted' = granted
    BY <1>1, <1>8
  <2>2. LimiterTypeOK'
    BY <1>2, <1>6, <2>1 DEF LimiterInv, LimiterTypeOK
  <2>3. ASSUME NEW j \in Keys PROVE EntryTrue(j)'
    BY <1>3, <1>4, <1>5, <1>6, <2>1 DEF EntryTrue, Open
  <2>4. LimitKept'
    BY <1>6, <2>1 DEF LimiterInv, LimitKept
  <2>5. QED  BY <1>7, <2>2, <2>3, <2>4 DEF LimiterInv, Counted, Tracked
<1>9. CASE Open(k, entries[k]) /\ ~(count[k] >= Limit[k])
  <2>1. /\ started' = entries
        /\ count' = [count EXCEPT ![k] = @ + 1]
        /\ opened' = [opened EXCEPT ![k] = opened[k]]
        /\ granted' = [granted EXCEPT ![k][opened[k]] = @ + 1]
    BY <1>1, <1>9 DEF Grant
  <2>2. /\ opened' = opened
        /\ opened[k] = started[k] /\ opened[k] \in Time
        /\ count[k] = granted[k][opened[k]]
    BY <1>3, <1>5, <1>9, <2>1 DEF LimiterInv, LimiterTypeOK, EntryTrue, Open
  <2>3. LimiterTypeOK'
    BY <1>2, <1>6, <2>1, <2>2 DEF LimiterInv, LimiterTypeOK
  <2>4. granted[k][opened[k]] + 1 <= Limit[k]
    BY <1>9, <2>2 DEF LimiterInv, LimiterTypeOK
  <2>5. LimitKept'
    BY <1>6, <2>1, <2>2, <2>4, GrantKeeps DEF LimiterInv
  <2>6. ASSUME NEW j \in Keys, j # k PROVE EntryTrue(j)'
    <3>1. granted'[j] = granted[j] /\ count'[j] = count[j]
      BY <2>1, <2>6 DEF LimiterInv, LimiterTypeOK
    <3>2. QED  BY <1>3, <1>4, <1>5, <1>6, <2>1, <2>2, <3>1 DEF EntryTrue, Open
  <2>7. EntryTrue(k)'
    <3>1. /\ Open(k, started[k]) /\ started'[k] = started[k] /\ opened'[k] = started[k]
          /\ opened[k] # NoTime /\ opened[k] <= now
      BY <1>3, <1>4, <1>5, <1>9, <2>1, <2>2 DEF EntryTrue, Open
    <3>2. Open(k, started[k])'
      BY <1>6, <3>1 DEF Open
    <3>3. count'[k] = granted'[k][opened[k]]
      BY <2>1, <2>2 DEF LimiterInv, LimiterTypeOK
    <3>4. \A w \in Time : granted'[k][w] # 0 => w <= opened[k]
      <4>1. \A w \in Time : w # opened[k] => granted'[k][w] = granted[k][w]
        BY <2>1, <2>2 DEF LimiterInv, LimiterTypeOK
      <4>2. opened[k] <= opened[k]
        BY <2>2, <3>1 DEF Time
      <4>3. QED  BY <1>5, <4>1, <4>2 DEF EntryTrue
    <3>5. QED  BY <1>6, <2>2, <3>1, <3>2, <3>3, <3>4 DEF EntryTrue
  <2>8. QED  BY <1>7, <2>3, <2>5, <2>6, <2>7 DEF LimiterInv, Counted, Tracked
<1>10. CASE ~Open(k, entries[k])
  <2>1. ~Open(k, opened[k])
    BY <1>3, <1>5, <1>10 DEF EntryTrue
  <2>2. /\ started' = [entries EXCEPT ![k] = now]
        /\ count' = [count EXCEPT ![k] = 1]
        /\ opened' = [opened EXCEPT ![k] = now]
        /\ granted' = [granted EXCEPT ![k][now] = @ + 1]
    BY <1>1, <1>10, <2>1 DEF Grant
  <2>3. granted[k][now] = 0
    BY <1>5, <2>1, SMTT(20) DEF LimiterInv, LimiterTypeOK, EntryTrue, Open, Time, NoTime
  <2>4. LimiterTypeOK'
    BY <1>2, <1>6, <2>2 DEF LimiterInv, LimiterTypeOK
  <2>5. LimitKept'
    <3>1. now \in Time /\ granted[k][now] + 1 <= Limit[k]
      BY <2>3 DEF LimiterInv, LimiterTypeOK
    <3>2. QED  BY <1>6, <2>2, <3>1, GrantKeeps DEF LimiterInv
  <2>6. ASSUME NEW j \in Keys, j # k PROVE EntryTrue(j)'
    BY <1>3, <1>4, <1>5, <1>6, <2>2, <2>6 DEF LimiterInv, LimiterTypeOK, EntryTrue, Open
  <2>7. EntryTrue(k)'
    <3>1. now \in Time /\ now # NoTime /\ now <= now /\ now < now + Interval[k]
      BY DEF LimiterInv, LimiterTypeOK, Time, NoTime
    <3>2. started'[k] = now /\ opened'[k] = now /\ count'[k] = 1 /\ granted'[k][now] = 1
      BY <1>2, <2>2, <2>3, <3>1 DEF LimiterInv, LimiterTypeOK
    <3>3. Open(k, started[k])'
      BY <1>6, <3>1, <3>2 DEF Open
    <3>4. \A w \in Time : granted'[k][w] # 0 => w <= now
      <4>1. \A w \in Time : w # now => granted'[k][w] = granted[k][w]
        BY <2>2, <3>1 DEF LimiterInv, LimiterTypeOK
      <4>2. \A w \in Time : granted[k][w] # 0 => w <= now
        BY <1>5, SMTT(20) DEF LimiterInv, LimiterTypeOK, EntryTrue, Time, NoTime
      <4>3. QED  BY <3>1, <4>1, <4>2
    <3>5. QED  BY <1>6, <3>1, <3>2, <3>3, <3>4 DEF EntryTrue
  <2>8. QED  BY <1>7, <2>4, <2>5, <2>6, <2>7 DEF LimiterInv, Counted, Tracked
<1>11. QED  BY <1>8, <1>9, <1>10

LEMMA CleanupStep ==
    ASSUME LimiterInv, CleanupExpired
    PROVE  LimiterInv'
<1>0. /\ LimiterTypeOK /\ durable /\ durable' /\ now' = now /\ granted' = granted
      /\ opened' = opened /\ started' = started /\ count' = count /\ calls' = calls
  BY DEF LimiterInv, CleanupExpired
<1>1. ASSUME NEW k \in Keys, NEW t \in Time
      PROVE  /\ windows'[k][t] = IF Expired(t) THEN 0 ELSE windows[k][t]
             /\ purged'[k][t] = IF Expired(t) /\ windows[k][t] > 0 /\ now < t + Interval[k]
                                THEN purged[k][t] + 1 ELSE purged[k][t]
  BY DEF CleanupExpired
<1>2. LimiterTypeOK'
  <2>1. windows' \in [Keys -> [Time -> Nat]]
    BY <1>0, WindowFields DEF CleanupExpired
  <2>2. purged' \in [Keys -> [Time -> Nat]]
    BY <1>0, WindowFields DEF CleanupExpired
  <2>3. QED  BY <1>0, <2>1, <2>2 DEF LimiterTypeOK
<1>3. ASSUME NEW k \in Keys, NEW t \in Time
      PROVE  /\ granted[k][t] <= Limit[k] * (1 + purged'[k][t])
             /\ Interval[k] <= Retain => purged'[k][t] = 0
             /\ CountedOf(k, t)'
  <2>1. /\ granted[k][t] <= Limit[k] * (1 + purged[k][t])
        /\ Interval[k] <= Retain => purged[k][t] = 0
        /\ now < t + Interval[k] => granted[k][t] <= windows[k][t] + Limit[k] * purged[k][t]
    BY <1>0 DEF LimiterInv, LimitKept, Counted, CountedOf
  <2>2. /\ granted[k][t] \in Nat /\ windows[k][t] \in Nat /\ purged[k][t] \in Nat
        /\ Limit[k] \in Nat /\ Interval[k] \in Nat /\ t \in Nat /\ now \in Nat /\ Retain \in Nat
        /\ Limit[k] * purged[k][t] \in Nat
        /\ Limit[k] * (1 + purged[k][t]) = Limit[k] + Limit[k] * purged[k][t]
    BY <1>0, WindowFields
  <2>3. CASE Expired(t) /\ windows[k][t] > 0 /\ now < t + Interval[k]
    <3>1. purged'[k][t] = 1 + purged[k][t] /\ windows'[k][t] = 0
      BY <1>1, <2>2, <2>3
    <3>2. PICK m \in Nat : m = purged'[k][t]
      BY <2>2, <3>1
    <3>3. Limit[k] * (1 + m) = Limit[k] + Limit[k] * m /\ Limit[k] * m \in Nat
      BY <2>2, Allowance
    <3>4. granted[k][t] <= Limit[k] * m
      BY <2>1, <3>1, <3>2
    <3>5. granted[k][t] <= Limit[k] * (1 + m)
      BY <2>2, <3>3, <3>4
    <3>6. ~(Interval[k] <= Retain)
      BY <2>2, <2>3 DEF Expired
    <3>7. CountedOf(k, t)'
      BY <1>0, <2>2, <3>1, <3>2, <3>3, <3>4 DEF CountedOf
    <3>8. QED  BY <3>2, <3>5, <3>6, <3>7
  <2>4. CASE ~(Expired(t) /\ windows[k][t] > 0 /\ now < t + Interval[k])
    <3>1. purged'[k][t] = purged[k][t]
      BY <1>1, <2>4
    <3>2. now < t + Interval[k] => windows'[k][t] = windows[k][t]
      BY <1>1, <2>2, <2>4
    <3>3. CountedOf(k, t)'
      BY <1>0, <2>1, <3>1, <3>2 DEF CountedOf
    <3>4. QED  BY <2>1, <3>1, <3>3
  <2>5. QED  BY <2>3, <2>4
<1>4. QED  BY <1>0, <1>2, <1>3 DEF LimiterInv, LimitKept, Counted, Tracked

LEMMA TickStep ==
    ASSUME LimiterInv, Tick
    PROVE  LimiterInv'
<1>0. now' \in Time
  BY RateLimitAssumption DEF LimiterInv, LimiterTypeOK, Tick, Time
<1>1. LimiterTypeOK'
  BY <1>0 DEF LimiterInv, LimiterTypeOK, Tick
<1>2. Counted'
  <2>1. ASSUME durable, NEW k \in Keys, NEW w \in Time PROVE CountedOf(k, w)'
    <3>1. CountedOf(k, w) /\ Interval[k] \in Nat /\ w \in Nat /\ now \in Nat
      BY <2>1, WindowFields DEF LimiterInv, Counted
    <3>2. now' = now + 1 /\ granted' = granted /\ windows' = windows /\ purged' = purged
      BY DEF Tick
    <3>3. QED  BY <3>1, <3>2 DEF CountedOf
  <2>2. QED  BY <2>1 DEF Counted, Tick
<1>3. ASSUME NEW k \in Keys, ~durable PROVE EntryTrue(k)'
  <2>1. EntryTrue(k)
    BY <1>3 DEF LimiterInv, Tracked
  <2>2. /\ now' = now + 1 /\ now \in Nat /\ Interval[k] \in Nat
        /\ opened' = opened /\ started' = started /\ count' = count /\ granted' = granted
    BY RateLimitAssumption DEF LimiterInv, LimiterTypeOK, Tick, Time
  <2>3. \A t \in Time \cup {NoTime} : t \in Nat
    BY RateLimitAssumption DEF Time, NoTime
  <2>4. started[k] \in Time \cup {NoTime} /\ opened[k] \in Time \cup {NoTime}
    BY DEF LimiterInv, LimiterTypeOK
  <2>5. \A t \in Nat : Open(k, t)' => Open(k, t)
    BY <2>2 DEF Open
  <2>6. IF Open(k, started[k])' THEN opened[k] = started[k] /\ count[k] = granted[k][opened[k]]
        ELSE ~Open(k, opened[k])'
    BY <2>1, <2>2, <2>3, <2>4, <2>5 DEF EntryTrue, Open
  <2>7. QED  BY <2>1, <2>2, <2>3, <2>4, <2>6 DEF EntryTrue, Open
<1>4. QED  BY <1>1, <1>2, <1>3 DEF LimiterInv, Tick, LimitKept, Tracked

LEMMA LimiterStep == LimiterInv /\ [LimiterNext]_limiterVars => LimiterInv'
<1> SUFFICES ASSUME LimiterInv, [LimiterNext]_limiterVars PROVE LimiterInv'
  OBVIOUS
<1>1. CASE UNCHANGED limiterVars
  <2>1. /\ durable' = durable /\ now' = now /\ windows' = windows /\ started' = started
        /\ count' = count /\ calls' = calls /\ opened' = opened /\ granted' = granted
        /\ purged' = purged
    BY <1>1 DEF limiterVars
  <2>2. LimiterTypeOK' /\ LimitKept' /\ Counted'
    BY <2>1 DEF LimiterInv, LimiterTypeOK, LimitKept, Counted, CountedOf
  <2>3. Tracked'
    BY <2>1 DEF LimiterInv, Tracked, EntryTrue, Open
  <2>4. QED  BY <2>2, <2>3 DEF LimiterInv
<1>2. CASE LimiterNext
  BY <1>2, DurableStep, LocalStep, CleanupStep, TickStep DEF LimiterNext
<1>3. QED  BY <1>1, <1>2

(* No window of either limiter grants more than its limit, or, if its       *)
(* interval is longer than the clean-up's retention, than its limit once    *)
(* more for every time its row was deleted while it was open: for every set *)
(* of keys, limits, intervals and retention (Allow, CleanupExpired,         *)
(* evictExpiredLocked).                                                     *)
THEOREM LimitsHold == LimiterSpec => []LimitKept
<1>1. LimiterInv => LimitKept
  BY DEF LimiterInv
<1>2. QED  BY <1>1, LimiterStart, LimiterStep, PTL DEF LimiterSpec
-----------------------------------------------------------------------------
(* The assistant, for every set of turns, kinds of request and tool rounds. *)

Events == {"message.delta", "message.completed", "message.error"}

Chunks == {Chunk(t, n) : t \in Turns, n \in Nat} \cup {[type |-> "err"], [type |-> "toomany"], <<>>}

Outcomes == {"none", "error", "success"}

Pipes == [turn : Turns, at : Nat, open : BOOLEAN, audit : {"recv", "send", "over"},
          held : Chunks, failed : BOOLEAN, counted : Outcomes, row : Outcomes]

JobTyped(j) ==
    /\ DOMAIN j = {"kind", "live", "left", "relay", "held", "handler", "sent", "messages", "pipes"}
    /\ j.kind \in {"chat"} \cup OneShot
    /\ j.live \in BOOLEAN /\ j.left \in BOOLEAN
    /\ j.relay \in {"open", "recv", "send", "drain", "end"}
    /\ j.handler \in {"reading", "draining", "gone"}
    /\ j.sent \in Seq(Events)
    /\ j.pipes \in Seq(Pipes)
    /\ j.relay \in {"recv", "send", "drain"} => Len(j.pipes) > 0

(* The row of a call: there is none before the call is over, it says what    *)
(* was counted, and it is missing only where an insert can fail.            *)
RowSound(live, p) ==
    /\ p.audit # "over" => p.counted = "none"
    /\ p.row \in {"none", p.counted}
    /\ ~durable \/ (live /\ ~world.refuses) => p.row = p.counted

(* One call of the provider, of a request that is live or not and whose      *)
(* client stays or has left: while the client stays, it is counted as what  *)
(* it is, and a request that is not live has nothing more to pass on.       *)
PipeSound(kind, live, left, p) ==
    /\ RowSound(live, p)
    /\ p.audit = "over" /\ ~left => p.counted = IF p.turn.fails THEN "error" ELSE "success"
    /\ (live \/ ~left) /\ ~p.open => (p.failed <=> p.turn.fails)
    /\ live /\ p.audit = "over" => ~p.open
    /\ live /\ p.audit = "send" => (p.open <=> p.held.type = "delta")
    /\ ~live /\ ~left => ~p.open /\ p.audit # "send"
    /\ kind \in OneShot => ~p.open /\ p.audit # "send"

PipesSound(j) == \A k \in 1 .. Len(j.pipes) : PipeSound(j.kind, j.live, j.left, j.pipes[k])

(* A live stream is not closed on a relay that waits for more of it. *)
AwaitsMore(j) == j.live /\ (j.relay = "recv" \/ (j.relay = "send" /\ j.held.type = "delta"))
HasMore(p)    == p.open \/ p.audit = "send"
RoundGoesOn(j) == AwaitsMore(j) => HasMore(j.pipes[Len(j.pipes)])

(* The relay has all it will get of the round. *)
GotAll(j) == j.relay \in {"open", "end", "drain"} \/ (j.relay = "send" /\ j.held.type # "delta")

(* While the client stays, nothing is left of a round the relay is done with. *)
Settled(j) ==
    ~j.left => \A k \in 1 .. Len(j.pipes) : k < Len(j.pipes) \/ GotAll(j) => ~HasMore(j.pipes[k])

(* A request's context ends when its client leaves or its handler returns,  *)
(* which is when there is nothing more to do.                               *)
Attended(j) ==
    /\ ~j.live /\ j.handler # "gone" => j.left
    /\ j.handler = "gone" => j.relay = "end"

ToldLast(j) == j.sent # <<>> /\ Terminal(j.sent[Len(j.sent)])

(* Who has been told what. *)
StreamSound(j) ==
    /\ \A n \in 1 .. Len(j.sent) : Terminal(j.sent[n]) => n = Len(j.sent)
    /\ j.handler = "reading" /\ j.relay # "end" => \A n \in 1 .. Len(j.sent) : ~Terminal(j.sent[n])
    /\ j.relay \in {"end", "drain"} \/ j.handler = "draining" => j.left \/ ToldLast(j)
    /\ RoundGoesOn(j)
    /\ Settled(j)

JobSound(j) ==
    JobTyped(j) /\ PipesSound(j) /\ Attended(j) /\ (j.kind = "chat" => StreamSound(j))

AssistantInv == DOMAIN job = Slots /\ \A s \in Slots : job[s] = Idle \/ JobSound(job[s])

-----------------------------------------------------------------------------
(* A chunk is text, a failure or the end of the answer, by what the turn is. *)
LEMMA ChunkKinds ==
    ASSUME NEW t \in Turns, NEW n \in Nat
    PROVE  /\ Chunk(t, n) \in Chunks
           /\ Chunk(t, n).type \in {"delta", "err", "done"}
           /\ Chunk(t, n).type # "delta" => (Chunk(t, n).type = "err" <=> t.fails)
<1>1. Chunk(t, n) \in Chunks
  BY DEF Chunks
<1>2. \/ Chunk(t, n) = [type |-> "delta"]
      \/ t.fails /\ Chunk(t, n) = [type |-> "err"]
      \/ ~t.fails /\ Chunk(t, n) = [type |-> "done", calls |-> collect(FoldLeft(accumulate, <<>>, Fragments(t)))]
  BY DEF Chunk, Delta
<1>3. \A c : [type |-> "done", calls |-> c].type = "done"
  OBVIOUS
<1>4. QED  BY <1>1, <1>2, <1>3

(* What changes one call of a request and keeps it sound keeps the calls of  *)
(* the request sound,                                                       *)
LEMMA PipePlaced ==
    ASSUME NEW j, JobSound(j), NEW k \in 1 .. Len(j.pipes),
           NEW q \in Pipes, PipeSound(j.kind, j.live, j.left, q),
           NEW i, i = [j EXCEPT !.pipes = [@ EXCEPT ![k] = q]]
    PROVE  /\ JobTyped(i) /\ PipesSound(i) /\ Len(i.pipes) = Len(j.pipes)
           /\ \A m \in 1 .. Len(j.pipes) : i.pipes[m] = IF m = k THEN q ELSE j.pipes[m]
           /\ i.kind = j.kind /\ i.live = j.live /\ i.left = j.left /\ i.relay = j.relay
           /\ i.held = j.held /\ i.handler = j.handler /\ i.sent = j.sent
<1>1. /\ i.pipes = [j.pipes EXCEPT ![k] = q] /\ DOMAIN i = DOMAIN j
      /\ i.kind = j.kind /\ i.live = j.live /\ i.left = j.left /\ i.relay = j.relay
      /\ i.held = j.held /\ i.handler = j.handler /\ i.sent = j.sent
  BY DEF JobSound, JobTyped
<1>2. j.pipes \in Seq(Pipes)
  BY DEF JobSound, JobTyped
<1>3. /\ i.pipes \in Seq(Pipes) /\ Len(i.pipes) = Len(j.pipes)
      /\ \A m \in 1 .. Len(j.pipes) : i.pipes[m] = IF m = k THEN q ELSE j.pipes[m]
  BY <1>1, <1>2
<1>4. JobTyped(i)
  BY <1>1, <1>3 DEF JobSound, JobTyped
<1>5. PipesSound(i)
  BY <1>1, <1>3 DEF JobSound, PipesSound
<1>6. QED  BY <1>1, <1>3, <1>4, <1>5

(* and the request, if a relay that waits for more of it still has more to   *)
(* come.                                                                    *)
LEMMA PipePut ==
    ASSUME NEW j, JobSound(j), NEW k \in 1 .. Len(j.pipes),
           NEW q \in Pipes, PipeSound(j.kind, j.live, j.left, q),
           j.kind = "chat" /\ AwaitsMore(j) /\ k = Len(j.pipes) => HasMore(q),
           HasMore(q) => HasMore(j.pipes[k])
    PROVE  JobSound([j EXCEPT !.pipes = [@ EXCEPT ![k] = q]])
<1>1. PICK i : i = [j EXCEPT !.pipes = [@ EXCEPT ![k] = q]]
  OBVIOUS
<1>2. /\ JobTyped(i) /\ PipesSound(i) /\ Len(i.pipes) = Len(j.pipes)
      /\ \A m \in 1 .. Len(j.pipes) : i.pipes[m] = IF m = k THEN q ELSE j.pipes[m]
      /\ i.kind = j.kind /\ i.live = j.live /\ i.left = j.left /\ i.relay = j.relay
      /\ i.held = j.held /\ i.handler = j.handler /\ i.sent = j.sent
  BY <1>1, PipePlaced
<1>3. ASSUME j.kind = "chat" PROVE StreamSound(i)
  <2>1. StreamSound(j)
    BY <1>3 DEF JobSound
  <2>2. RoundGoesOn(i)
    <3> SUFFICES ASSUME AwaitsMore(i) PROVE HasMore(i.pipes[Len(i.pipes)])
      BY DEF RoundGoesOn
    <3>1. AwaitsMore(j)
      BY <1>2 DEF AwaitsMore
    <3>2. Len(j.pipes) \in 1 .. Len(j.pipes)
      BY <3>1 DEF JobSound, JobTyped, AwaitsMore
    <3>3. QED  BY <3>1, <3>2, <2>1, <1>2, <1>3 DEF StreamSound, RoundGoesOn
  <2>3. Settled(i)
    <3>1. GotAll(i) <=> GotAll(j)
      BY <1>2 DEF GotAll
    <3>2. Settled(j)
      BY <2>1 DEF StreamSound
    <3>3. \A m \in 1 .. Len(j.pipes) : HasMore(i.pipes[m]) => HasMore(j.pipes[m])
      BY <1>2
    <3>4. QED  BY <1>2, <3>1, <3>2, <3>3 DEF Settled
  <2>4. QED  BY <2>1, <2>2, <2>3, <1>2 DEF StreamSound, ToldLast
<1>4. JobSound(i)
  BY <1>2, <1>3 DEF JobSound, Attended
<1>5. QED  BY <1>1, <1>4

(* A record set with Boolean fields, field by field. *)
LEMMA PipeFields ==
    ASSUME NEW p \in Pipes
    PROVE  /\ p.turn \in Turns /\ p.turn.fails \in BOOLEAN /\ p.at \in Nat /\ p.open \in BOOLEAN
           /\ p.audit \in {"recv", "send", "over"} /\ p.held \in Chunks /\ p.failed \in BOOLEAN
           /\ p.counted \in Outcomes /\ p.row \in Outcomes
  BY AssistantAssumption DEF Pipes

(* The provider's goroutine hands a chunk over: while the request is live,   *)
(* it is the turn's.                                                        *)
LEMMA ForwardKeeps ==
    ASSUME NEW j, JobSound(j), j.kind = "chat", NEW k \in 1 .. Len(j.pipes), NEW p, p = j.pipes[k],
           p.open, p.audit = "recv",
           NEW c, c = Chunk(p.turn, p.at) \/ (~j.live /\ c = [type |-> "err"])
    PROVE  JobSound([j EXCEPT !.pipes = [@ EXCEPT ![k] =
              [p EXCEPT !.at = @ + 1, !.open = (c.type = "delta"), !.audit = "send",
                        !.held = c, !.failed = (c.type = "err")]]])
<1> DEFINE q == [p EXCEPT !.at = @ + 1, !.open = (c.type = "delta"), !.audit = "send",
                          !.held = c, !.failed = (c.type = "err")]
<1>1. p \in Pipes /\ PipeSound(j.kind, j.live, j.left, p)
  BY DEF JobSound, JobTyped, PipesSound
<1>2. p.turn \in Turns /\ p.at \in Nat /\ p.turn.fails \in BOOLEAN
  BY <1>1, PipeFields
<1>3. c \in Chunks
  BY <1>2, ChunkKinds DEF Chunks
<1>4. /\ q \in Pipes /\ q.turn = p.turn /\ q.audit = "send" /\ q.held = c
      /\ q.counted = p.counted /\ q.row = p.row
  <2>1. p.at + 1 \in Nat
    BY <1>2
  <2>2. \A n \in Nat, b, f \in BOOLEAN :
            [p EXCEPT !.at = n, !.open = b, !.audit = "send", !.held = c, !.failed = f] \in Pipes
    BY <1>1, <1>3 DEF Pipes
  <2>3. q \in Pipes
    BY <2>1, <2>2, Zenon
  <2>4. QED  BY <1>1, <2>3 DEF Pipes
<1>5. (q.open <=> c.type = "delta") /\ (q.failed <=> c.type = "err")
  BY <1>1 DEF Pipes
<1> HIDE DEF q
<1>6. j.live => c.type \in {"delta", "err", "done"} /\ (c.type # "delta" => (c.type = "err" <=> p.turn.fails))
  BY <1>2, ChunkKinds
<1>7. PipeSound(j.kind, j.live, j.left, q)
  BY <1>1, <1>4, <1>5, <1>6 DEF PipeSound, RowSound, OneShot
<1>8. HasMore(p) /\ HasMore(q)
  BY <1>4 DEF HasMore
<1>9. QED  BY <1>4, <1>7, <1>8, PipePut DEF q

(* A cancelled provider goroutine ends. *)
LEMMA ForwardCancelledKeeps ==
    ASSUME NEW j, JobSound(j), j.kind = "chat", NEW k \in 1 .. Len(j.pipes), NEW p, p = j.pipes[k],
           p.open, ~j.live
    PROVE  JobSound([j EXCEPT !.pipes = [@ EXCEPT ![k] = [p EXCEPT !.open = FALSE]]])
<1> DEFINE q == [p EXCEPT !.open = FALSE]
<1>1. p \in Pipes /\ PipeSound(j.kind, j.live, j.left, p)
  BY DEF JobSound, JobTyped, PipesSound
<1>2. /\ q \in Pipes /\ ~q.open /\ q.turn = p.turn /\ q.audit = p.audit
      /\ q.counted = p.counted /\ q.row = p.row
  BY <1>1 DEF Pipes
<1> HIDE DEF q
<1>3. PipeSound(j.kind, j.live, j.left, q)
  BY <1>1, <1>2 DEF PipeSound, RowSound, OneShot
<1>4. HasMore(p)
  BY DEF HasMore
<1>5. QED  BY <1>2, <1>3, <1>4, PipePut DEF AwaitsMore, q

(* A call is over: it is counted, and has its row unless that may fail. *)
Recorded(live, p, r) ==
    /\ r \in {"none", Outcome(p)}
    /\ ~durable \/ (live /\ ~world.refuses) => r = Outcome(p)

Over(p, r) == [p EXCEPT !.audit = "over", !.counted = Outcome(p), !.row = r]

LEMMA RecordIs ==
    ASSUME NEW s, NEW p, NEW q \in record(s, p)
    PROVE  \E r : q = Over(p, r) /\ Recorded(job[s].live, p, r)
<1>1. PICK r \in RecordRequest(s, Outcome(p)) : q = Over(p, r)
  BY DEF record, Over
<1>2. CASE ~durable
  <2>1. RecordRequest(s, Outcome(p)) = {Outcome(p)}
    BY <1>2, Zenon DEF RecordRequest
  <2>2. QED  BY <1>1, <2>1 DEF Recorded
<1>3. CASE durable /\ job[s].live
  <2>1. RecordRequest(s, Outcome(p)) = {Outcome(p)} \cup (IF world.refuses THEN {"none"} ELSE {})
    BY <1>3, Zenon DEF RecordRequest
  <2>2. QED  BY <1>1, <1>3, <2>1 DEF Recorded
<1>4. CASE durable /\ ~job[s].live
  <2>1. RecordRequest(s, Outcome(p)) = {"none"}
    BY <1>4, Zenon DEF RecordRequest
  <2>2. QED  BY <1>1, <1>4, <2>1 DEF Recorded
<1>5. QED  BY <1>2, <1>3, <1>4

LEMMA OverSound ==
    ASSUME NEW kind, NEW live \in BOOLEAN, NEW left \in BOOLEAN, NEW p \in Pipes,
           ~p.open, p.audit # "send", NEW r, Recorded(live, p, r),
           live \/ ~left => (p.failed <=> p.turn.fails)
    PROVE  Over(p, r) \in Pipes /\ PipeSound(kind, live, left, Over(p, r)) /\ ~HasMore(Over(p, r))
<1>1. Outcome(p) \in {"error", "success"} /\ r \in Outcomes /\ Outcome(p) \in Outcomes
  BY DEF Outcome, Outcomes, Recorded
<1>2. PICK q : q = Over(p, r)
  OBVIOUS
<1>3. /\ q \in Pipes /\ q.audit = "over" /\ q.counted = Outcome(p) /\ q.row = r /\ q.turn = p.turn
      /\ q.open = p.open /\ q.failed = p.failed /\ q.held = p.held
  BY <1>1, <1>2 DEF Pipes, Over
<1>4. ~left => Outcome(p) = IF p.turn.fails THEN "error" ELSE "success"
  BY DEF Outcome
<1>5. PipeSound(kind, live, left, q)
  BY <1>1, <1>3, <1>4 DEF PipeSound, RowSound, Recorded
<1>6. QED  BY <1>2, <1>3, <1>5 DEF HasMore

(* The audit records when the provider's channel is closed, which is when   *)
(* the outcome is known unless the client left.                             *)
LEMMA AuditRecordKeeps ==
    ASSUME NEW j, JobSound(j), j.kind = "chat", NEW k \in 1 .. Len(j.pipes), NEW p, p = j.pipes[k],
           p.audit = "recv", ~p.open, NEW r, Recorded(j.live, p, r)
    PROVE  JobSound([j EXCEPT !.pipes = [@ EXCEPT ![k] = Over(p, r)]])
<1>1. /\ p \in Pipes /\ PipeSound(j.kind, j.live, j.left, p)
      /\ j.live \in BOOLEAN /\ j.left \in BOOLEAN
  BY DEF JobSound, JobTyped, PipesSound
<1>2. j.live \/ ~j.left => (p.failed <=> p.turn.fails)
  BY <1>1 DEF PipeSound
<1>3. /\ Over(p, r) \in Pipes /\ PipeSound(j.kind, j.live, j.left, Over(p, r))
      /\ ~HasMore(Over(p, r))
  BY <1>1, <1>2, OverSound
<1>4. AwaitsMore(j) /\ k = Len(j.pipes) => FALSE
  BY DEF JobSound, StreamSound, RoundGoesOn, HasMore
<1>5. QED  BY <1>3, <1>4, PipePut

(* The audit of a cancelled request gives up without a row. *)
LEMMA AuditCancelledKeeps ==
    ASSUME NEW j, JobSound(j), j.kind = "chat", NEW k \in 1 .. Len(j.pipes), NEW p, p = j.pipes[k],
           p.audit = "send", ~j.live
    PROVE  JobSound([j EXCEPT !.pipes = [@ EXCEPT ![k] = [p EXCEPT !.audit = "over"]]])
<1> DEFINE q == [p EXCEPT !.audit = "over"]
<1>1. p \in Pipes /\ PipeSound(j.kind, j.live, j.left, p)
  BY DEF JobSound, JobTyped, PipesSound
<1>2. /\ q \in Pipes /\ q.audit = "over" /\ q.counted = p.counted /\ q.row = p.row
      /\ q.turn = p.turn /\ q.open = p.open /\ q.failed = p.failed
  BY <1>1 DEF Pipes
<1> HIDE DEF q
<1>3. PipeSound(j.kind, j.live, j.left, q)
  BY <1>1, <1>2 DEF PipeSound, RowSound, OneShot
<1>4. HasMore(p)
  BY DEF HasMore
<1>5. QED  BY <1>2, <1>3, <1>4, PipePut DEF AwaitsMore, q

(* The call whose chunks the relay gets, and the request once it took one. *)
Current(j)  == j.pipes[Len(j.pipes)]
TakeHeld(j) == [j EXCEPT !.pipes = [@ EXCEPT ![Len(j.pipes)] = [Current(j) EXCEPT !.audit = "recv"]]]

(* A relay takes what the audit of its round holds, or drains it. *)
LEMMA Taken ==
    ASSUME NEW j, JobSound(j), j.kind = "chat", Len(j.pipes) > 0, Current(j).audit = "send",
           NEW i, i = TakeHeld(j)
    PROVE  /\ JobTyped(i) /\ PipesSound(i) /\ Len(i.pipes) = Len(j.pipes)
           /\ i.kind = j.kind /\ i.live = j.live /\ i.left = j.left /\ i.relay = j.relay
           /\ i.held = j.held /\ i.handler = j.handler /\ i.sent = j.sent
           /\ Current(i).open = Current(j).open /\ Attended(i)
           /\ ~HasMore(Current(i)) <=> ~Current(j).open
           /\ \A m \in 1 .. Len(j.pipes) : m # Len(j.pipes) => i.pipes[m] = j.pipes[m]
<1> PICK p : p = Current(j)
  OBVIOUS
<1> DEFINE q == [p EXCEPT !.audit = "recv"]
<1>1. Len(j.pipes) \in 1 .. Len(j.pipes) /\ j.pipes \in Seq(Pipes)
  BY DEF JobSound, JobTyped
<1>2. p \in Pipes /\ PipeSound(j.kind, j.live, j.left, p)
  BY <1>1 DEF JobSound, JobTyped, PipesSound, Current
<1>3. /\ q \in Pipes /\ q.audit = "recv" /\ q.counted = p.counted /\ q.row = p.row
      /\ q.turn = p.turn /\ q.open = p.open /\ q.failed = p.failed
  BY <1>2 DEF Pipes
<1>4. i = [j EXCEPT !.pipes = [@ EXCEPT ![Len(j.pipes)] = q]]
  BY DEF TakeHeld
<1> HIDE DEF q
<1>5. PipeSound(j.kind, j.live, j.left, q)
  BY <1>2, <1>3 DEF PipeSound, RowSound, OneShot
<1>6. /\ JobTyped(i) /\ PipesSound(i) /\ Len(i.pipes) = Len(j.pipes)
      /\ \A m \in 1 .. Len(j.pipes) : i.pipes[m] = IF m = Len(j.pipes) THEN q ELSE j.pipes[m]
      /\ i.kind = j.kind /\ i.live = j.live /\ i.left = j.left /\ i.relay = j.relay
      /\ i.held = j.held /\ i.handler = j.handler /\ i.sent = j.sent
  BY <1>1, <1>3, <1>4, <1>5, PipePlaced
<1>7. Current(i) = q
  BY <1>1, <1>6 DEF Current
<1>8. Attended(i)
  BY <1>6 DEF JobSound, Attended
<1>9. QED  BY <1>3, <1>6, <1>7, <1>8 DEF HasMore

(* What is left of a request's calls when its relay and its handler move. *)
LEMMA CallsKept ==
    ASSUME NEW j, NEW i, PipesSound(j), i.pipes = j.pipes, i.kind = j.kind, i.live = j.live,
           i.left = j.left
    PROVE  PipesSound(i)
  BY DEF PipesSound

(* The chunk that ends a round is the last of it, while the client stays. *)
LEMMA RoundTaken ==
    ASSUME NEW j, JobSound(j), j.kind = "chat", j.relay = "recv", Current(j).audit = "send",
           NEW i, i = TakeHeld(j), NEW o, o.pipes = i.pipes, o.left = j.left,
           GotAll(o) => Current(j).held.type # "delta"
    PROVE  Settled(o)
<1>1. Len(j.pipes) > 0 /\ StreamSound(j) /\ Len(j.pipes) \in 1 .. Len(j.pipes)
  BY DEF JobSound, JobTyped
<1>2. /\ Len(i.pipes) = Len(j.pipes) /\ (~HasMore(Current(i)) <=> ~Current(j).open)
      /\ \A m \in 1 .. Len(j.pipes) : m # Len(j.pipes) => i.pipes[m] = j.pipes[m]
  BY <1>1, Taken
<1>3. PipeSound(j.kind, j.live, j.left, Current(j))
  BY <1>1 DEF JobSound, PipesSound, Current
<1>4. ~j.left /\ GotAll(o) => ~HasMore(i.pipes[Len(i.pipes)])
  BY <1>2, <1>3 DEF PipeSound, Current
<1>5. ~j.left => \A m \in 1 .. Len(j.pipes) : m < Len(j.pipes) => ~HasMore(j.pipes[m])
  BY <1>1 DEF StreamSound, Settled
<1>6. ASSUME ~j.left, NEW m \in 1 .. Len(j.pipes), m < Len(j.pipes) \/ GotAll(o)
      PROVE  ~HasMore(i.pipes[m])
  <2>1. CASE m = Len(j.pipes)
    BY <1>2, <1>4, <1>6, <2>1
  <2>2. CASE m # Len(j.pipes)
    BY <1>1, <1>2, <1>5, <1>6, <2>2
  <2>3. QED  BY <2>1, <2>2
<1>7. QED  BY <1>2, <1>6 DEF Settled

(* The relay takes the calls a round ends with and asks the tools. *)
LEMMA ToolsAsked ==
    ASSUME NEW j, JobSound(j), j.kind = "chat", j.relay = "recv", Current(j).audit = "send",
           Current(j).held.type = "done", NEW m
    PROVE  JobSound([TakeHeld(j) EXCEPT !.relay = "open", !.messages = m])
<1> PICK i : i = TakeHeld(j)
  OBVIOUS
<1>1. Len(j.pipes) > 0 /\ StreamSound(j)
  BY DEF JobSound, JobTyped
<1>2. /\ JobTyped(i) /\ PipesSound(i) /\ Len(i.pipes) = Len(j.pipes)
      /\ i.kind = j.kind /\ i.live = j.live /\ i.left = j.left /\ i.relay = j.relay
      /\ i.held = j.held /\ i.handler = j.handler /\ i.sent = j.sent
  BY <1>1, Taken
<1>3. PICK o : o = [i EXCEPT !.relay = "open", !.messages = m]
  OBVIOUS
<1>4. /\ DOMAIN o = DOMAIN i /\ o.relay = "open" /\ o.pipes = i.pipes
      /\ o.kind = i.kind /\ o.live = i.live /\ o.left = i.left /\ o.held = i.held
      /\ o.handler = i.handler /\ o.sent = i.sent
  BY <1>2, <1>3 DEF JobTyped
<1>5. JobTyped(o) /\ PipesSound(o)
  BY <1>2, <1>4, CallsKept DEF JobTyped
<1>6. Settled(o) /\ Attended(o)
  <2>1. Settled(o)
    BY <1>2, <1>4, RoundTaken
  <2>2. QED  BY <1>2, <1>4, <2>1 DEF JobSound, Attended
<1>7. StreamSound(o)
  BY <1>1, <1>2, <1>4, <1>6 DEF StreamSound, ToldLast, RoundGoesOn, AwaitsMore
<1>8. QED  BY <1>3, <1>5, <1>6, <1>7 DEF JobSound

(* What the relay passes on: the chunk it took, or the refusal of more rounds. *)
Passes(j, c) ==
    \/ c.type = Current(j).held.type
    \/ c.type = "toomany" /\ Current(j).held.type = "done"

LEMMA PassedOn ==
    ASSUME NEW j, JobSound(j), j.kind = "chat", j.relay = "recv", Current(j).audit = "send",
           NEW c, Passes(j, c)
    PROVE  JobSound([TakeHeld(j) EXCEPT !.relay = "send", !.held = c])
<1> PICK i : i = TakeHeld(j)
  OBVIOUS
<1>1. Len(j.pipes) > 0 /\ StreamSound(j) /\ Len(j.pipes) \in 1 .. Len(j.pipes)
  BY DEF JobSound, JobTyped
<1>2. /\ JobTyped(i) /\ PipesSound(i) /\ Len(i.pipes) = Len(j.pipes)
      /\ i.kind = j.kind /\ i.live = j.live /\ i.left = j.left /\ i.relay = j.relay
      /\ i.held = j.held /\ i.handler = j.handler /\ i.sent = j.sent
      /\ Current(i).open = Current(j).open
  BY <1>1, Taken
<1>3. PICK o : o = [i EXCEPT !.relay = "send", !.held = c]
  OBVIOUS
<1>4. /\ DOMAIN o = DOMAIN i /\ o.relay = "send" /\ o.pipes = i.pipes
      /\ o.kind = i.kind /\ o.live = i.live /\ o.left = i.left /\ o.held = c
      /\ o.handler = i.handler /\ o.sent = i.sent
  BY <1>2, <1>3 DEF JobTyped
<1>5. JobTyped(o) /\ PipesSound(o)
  BY <1>1, <1>2, <1>4, CallsKept DEF JobTyped
<1>6. RoundGoesOn(o)
  <2> SUFFICES ASSUME AwaitsMore(o) PROVE HasMore(Current(o))
    BY DEF RoundGoesOn, Current
  <2>1. j.live /\ Current(j).held.type = "delta"
    BY <1>2, <1>4 DEF AwaitsMore, Passes
  <2>2. PipeSound(j.kind, j.live, j.left, Current(j))
    BY <1>1 DEF JobSound, PipesSound, Current
  <2>3. Current(j).open
    BY <2>1, <2>2 DEF PipeSound
  <2>4. Current(o) = Current(i)
    BY <1>4 DEF Current
  <2>5. QED  BY <1>2, <2>3, <2>4 DEF HasMore
<1>7. Settled(o) /\ Attended(o)
  <2>1. GotAll(o) => Current(j).held.type # "delta"
    BY <1>4 DEF GotAll, Passes
  <2>2. Settled(o)
    BY <1>2, <1>4, <2>1, RoundTaken
  <2>3. QED  BY <1>2, <1>4, <2>2 DEF JobSound, Attended
<1>8. StreamSound(o)
  BY <1>1, <1>2, <1>4, <1>6, <1>7 DEF StreamSound, ToldLast
<1>9. QED  BY <1>3, <1>5, <1>7, <1>8 DEF JobSound

(* After a failure the relay empties the round. *)
LEMMA DrainKeeps ==
    ASSUME NEW j, JobSound(j), j.kind = "chat", j.relay = "drain", Current(j).audit = "send"
    PROVE  JobSound(TakeHeld(j))
<1>1. PICK i : i = TakeHeld(j)
  OBVIOUS
<1>2. Len(j.pipes) > 0
  BY DEF JobSound, JobTyped
<1>3. /\ JobTyped(i) /\ PipesSound(i) /\ Len(i.pipes) = Len(j.pipes) /\ Attended(i)
      /\ i.kind = j.kind /\ i.live = j.live /\ i.left = j.left /\ i.relay = j.relay
      /\ i.held = j.held /\ i.handler = j.handler /\ i.sent = j.sent
  BY <1>1, <1>2, Taken
<1>4. j.left
  BY <1>2 DEF JobSound, JobTyped, StreamSound, Settled, GotAll, HasMore, Current
<1>5. StreamSound(i)
  BY <1>3, <1>4 DEF JobSound, StreamSound, ToldLast, RoundGoesOn, AwaitsMore, Settled
<1>6. QED  BY <1>1, <1>3, <1>5 DEF JobSound

(* The next call of the provider is made: a stream is opened, or a one-shot  *)
(* request calls.                                                           *)
LEMMA CallMade ==
    ASSUME NEW j, JobSound(j), j.relay = "open", NEW q \in Pipes, PipeSound(j.kind, j.live, j.left, q),
           j.kind = "chat" => q.open
    PROVE  JobSound([j EXCEPT !.relay = "recv", !.pipes = Append(j.pipes, q)])
<1>1. PICK o : o = [j EXCEPT !.relay = "recv", !.pipes = Append(j.pipes, q)]
  OBVIOUS
<1>2. /\ DOMAIN o = DOMAIN j /\ o.relay = "recv" /\ o.pipes = Append(j.pipes, q)
      /\ o.kind = j.kind /\ o.live = j.live /\ o.left = j.left /\ o.held = j.held
      /\ o.handler = j.handler /\ o.sent = j.sent
  BY <1>1 DEF JobSound, JobTyped
<1>3. j.pipes \in Seq(Pipes) /\ Len(j.pipes) \in Nat
  BY DEF JobSound, JobTyped
<1>4. /\ o.pipes \in Seq(Pipes) /\ Len(o.pipes) = Len(j.pipes) + 1
      /\ o.pipes[Len(j.pipes) + 1] = q
      /\ \A m \in 1 .. Len(j.pipes) : o.pipes[m] = j.pipes[m]
  BY <1>2, <1>3
<1>5. JobTyped(o)
  BY <1>2, <1>3, <1>4 DEF JobSound, JobTyped
<1>6. PipesSound(o)
  <2> SUFFICES ASSUME NEW k \in 1 .. Len(o.pipes) PROVE PipeSound(j.kind, j.live, j.left, o.pipes[k])
    BY <1>2 DEF PipesSound
  <2>1. k = Len(j.pipes) + 1 \/ k \in 1 .. Len(j.pipes)
    BY <1>3, <1>4
  <2>2. QED  BY <2>1, <1>4 DEF JobSound, PipesSound
<1>7. ASSUME j.kind = "chat" PROVE StreamSound(o)
  <2>1. StreamSound(j)
    BY <1>7 DEF JobSound
  <2>2. RoundGoesOn(o)
    BY <1>4, <1>7 DEF RoundGoesOn, HasMore
  <2>3. Settled(o)
    <3>1. ~j.left => \A m \in 1 .. Len(j.pipes) : ~HasMore(j.pipes[m])
      BY <2>1 DEF StreamSound, Settled, GotAll
    <3>2. ~GotAll(o)
      BY <1>2 DEF GotAll
    <3>3. \A m \in 1 .. Len(o.pipes) : m < Len(o.pipes) => m \in 1 .. Len(j.pipes)
      BY <1>3, <1>4
    <3>4. QED  BY <1>2, <1>4, <3>1, <3>2, <3>3 DEF Settled
  <2>4. QED  BY <1>2, <2>1, <2>2, <2>3 DEF StreamSound, ToldLast
<1>8. Attended(o)
  BY <1>2 DEF JobSound, Attended
<1>9. QED  BY <1>1, <1>2, <1>5, <1>6, <1>7, <1>8 DEF JobSound

(* The round's channel is closed.  While the request is live and the client  *)
(* reading, that is after the failure it was told.                          *)
LEMMA RoundClosedKeeps ==
    ASSUME NEW j, JobSound(j), j.kind = "chat", j.relay \in {"recv", "drain"},
           j.pipes[Len(j.pipes)].audit = "over"
    PROVE  JobSound([j EXCEPT !.relay = "end"])
<1>1. PICK o : o = [j EXCEPT !.relay = "end"]
  OBVIOUS
<1>2. /\ DOMAIN o = DOMAIN j /\ o.relay = "end" /\ o.pipes = j.pipes
      /\ o.kind = j.kind /\ o.live = j.live /\ o.left = j.left /\ o.held = j.held
      /\ o.handler = j.handler /\ o.sent = j.sent
  BY <1>1 DEF JobSound, JobTyped
<1>3. JobTyped(o) /\ PipesSound(o)
  BY <1>2, CallsKept DEF JobSound, JobTyped
<1>4. StreamSound(j)
  BY DEF JobSound
<1>5. Len(j.pipes) \in 1 .. Len(j.pipes)
  BY DEF JobSound, JobTyped
<1>6. PipeSound(j.kind, j.live, j.left, j.pipes[Len(j.pipes)])
  BY <1>5 DEF JobSound, PipesSound
<1>7. j.live /\ j.relay = "recv" => FALSE
  BY <1>4, <1>6 DEF StreamSound, RoundGoesOn, AwaitsMore, HasMore, PipeSound
<1>8. Attended(o) /\ (~j.live => j.left)
  BY <1>2 DEF JobSound, Attended
<1>9. j.left \/ ToldLast(j)
  BY <1>4, <1>7, <1>8 DEF StreamSound, JobSound, JobTyped
<1>10. Settled(o)
  <2>1. CASE j.left
    BY <1>2, <2>1 DEF Settled
  <2>2. CASE ~j.left
    <3>1. j.relay = "drain"
      BY <1>7, <1>8, <2>2
    <3>2. \A m \in 1 .. Len(j.pipes) : ~HasMore(j.pipes[m])
      BY <1>4, <2>2, <3>1 DEF StreamSound, Settled, GotAll
    <3>3. QED  BY <1>2, <3>2 DEF Settled
  <2>3. QED  BY <2>1, <2>2
<1>11. StreamSound(o)
  BY <1>2, <1>4, <1>9, <1>10 DEF StreamSound, ToldLast, RoundGoesOn, AwaitsMore
<1>12. QED  BY <1>1, <1>3, <1>8, <1>11 DEF JobSound

(* Where the relay goes after a send. *)
LEMMA AfterSend ==
    ASSUME NEW c, NEW sent \in BOOLEAN
    PROVE  /\ c.type = "delta" => After(c, sent) = IF sent THEN "recv" ELSE "drain"
           /\ c.type = "err" => After(c, sent) = "drain"
           /\ c.type \notin {"delta", "err"} => After(c, sent) = "end"
           /\ After(c, sent) \in {"recv", "drain", "end"}
<1>1. CASE c.type = "delta"
  <2>1. c.type # "err"
    BY <1>1
  <2>2. After(c, sent) = IF sent THEN "recv" ELSE "drain"
    BY <1>1, <2>1, Zenon DEF After
  <2>3. QED  BY <1>1, <2>1, <2>2
<1>2. CASE c.type = "err"
  <2>1. c.type # "delta"
    BY <1>2
  <2>2. After(c, sent) = "drain"
    BY <1>2, <2>1, Zenon DEF After
  <2>3. QED  BY <1>2, <2>1, <2>2
<1>3. CASE c.type # "delta" /\ c.type # "err"
  <2>1. After(c, sent) = "end"
    BY <1>3, Zenon DEF After
  <2>2. QED  BY <1>3, <2>1
<1>4. QED  BY <1>1, <1>2, <1>3

(* A cancelled relay gives its send up. *)
LEMMA SendCancelledKeeps ==
    ASSUME NEW j, JobSound(j), j.kind = "chat", j.relay = "send", ~j.live
    PROVE  JobSound([j EXCEPT !.relay = After(j.held, FALSE), !.held = <<>>])
<1>1. PICK r : r = After(j.held, FALSE)
  OBVIOUS
<1>2. PICK o : o = [j EXCEPT !.relay = r, !.held = <<>>]
  OBVIOUS
<1>3. r \in {"recv", "drain", "end"}
  BY <1>1, AfterSend
<1>4. /\ DOMAIN o = DOMAIN j /\ o.relay = r /\ o.pipes = j.pipes
      /\ o.kind = j.kind /\ o.live = j.live /\ o.left = j.left
      /\ o.handler = j.handler /\ o.sent = j.sent
  BY <1>2 DEF JobSound, JobTyped
<1>5. JobTyped(o) /\ PipesSound(o)
  BY <1>3, <1>4, CallsKept DEF JobSound, JobTyped
<1>6. j.left /\ Attended(o)
  BY <1>3, <1>4 DEF JobSound, Attended
<1>7. StreamSound(o)
  BY <1>3, <1>4, <1>6 DEF JobSound, StreamSound, ToldLast, RoundGoesOn, AwaitsMore, Settled
<1>8. QED  BY <1>1, <1>2, <1>5, <1>6, <1>7 DEF JobSound

(* What the handler writes of a chunk. *)
LEMMA EventOf ==
    ASSUME NEW c
    PROVE  /\ Event(c) \in Events
           /\ c.type = "delta" <=> ~Terminal(Event(c))
           /\ c.type = "err" => Event(c) = "message.error"
<1>1. CASE c.type = "delta"
  <2>1. c.type # "done"
    BY <1>1
  <2>2. Event(c) = "message.delta"
    BY <1>1, <2>1, Zenon DEF Event
  <2>3. QED  BY <1>1, <2>2 DEF Events, Terminal
<1>2. CASE c.type = "done"
  <2>1. c.type # "delta"
    BY <1>2
  <2>2. Event(c) = "message.completed"
    BY <1>2, <2>1, Zenon DEF Event
  <2>3. QED  BY <1>2, <2>2 DEF Events, Terminal
<1>3. CASE c.type # "delta" /\ c.type # "done"
  <2>1. Event(c) = "message.error"
    BY <1>3, Zenon DEF Event
  <2>2. QED  BY <1>3, <2>1 DEF Events, Terminal
<1>4. QED  BY <1>1, <1>2, <1>3

(* A client that leaves disturbs no call, *)
LEMMA PipeLeft ==
    ASSUME NEW kind, NEW live, NEW left \in BOOLEAN, NEW l \in BOOLEAN, left => l, NEW p,
           PipeSound(kind, live, left, p)
    PROVE  PipeSound(kind, live, l, p)
  BY DEF PipeSound

(* and a relay whose send was received has got all of a round only if that   *)
(* was its last chunk.                                                      *)
LEMMA SentSettles ==
    ASSUME NEW j, StreamSound(j), j.relay = "send", NEW o, o.pipes = j.pipes, j.left => o.left,
           o.relay = After(j.held, TRUE)
    PROVE  Settled(o)
<1>1. /\ o.relay \in {"recv", "drain", "end"}
      /\ o.relay # "recv" => j.held.type # "delta"
  <2>1. CASE j.held.type = "delta"
    BY <2>1, AfterSend
  <2>2. CASE j.held.type # "delta"
    BY <2>2, AfterSend
  <2>3. QED  BY <2>1, <2>2
<1>2. GotAll(o) => GotAll(j)
  BY <1>1 DEF GotAll
<1>3. Settled(j)
  BY DEF StreamSound
<1>4. QED  BY <1>2, <1>3 DEF Settled

(* o is j after its relay's send was received. *)
Received(j, o, told, left, handler) ==
    /\ DOMAIN o = DOMAIN j /\ o.relay = After(j.held, TRUE) /\ o.pipes = j.pipes
    /\ o.kind = j.kind /\ o.live = j.live
    /\ o.sent = told /\ o.left = left /\ o.handler = handler

(* The handler takes a chunk that the client no longer gets, because it was  *)
(* told of a failure or could not be written to.                            *)
LEMMA ReceiveUnread ==
    ASSUME NEW j, JobSound(j), j.kind = "chat", j.relay = "send",
           NEW l \in BOOLEAN, j.left => l, l \/ j.handler = "draining",
           NEW o, Received(j, o, j.sent, l, "draining")
    PROVE  JobSound(o)
<1> PICK r : r = After(j.held, TRUE)
  OBVIOUS
<1> /\ DOMAIN o = DOMAIN j /\ o.relay = r /\ o.pipes = j.pipes /\ o.kind = j.kind
    /\ o.live = j.live /\ o.left = l /\ o.handler = "draining" /\ o.sent = j.sent
  BY DEF Received
<1>1. /\ j.held.type = "delta" => r = "recv"
      /\ r \in {"recv", "drain", "end"} /\ (r = "recv" => j.held.type = "delta")
  BY AfterSend, Zenon
<1>2. JobTyped(o) /\ PipesSound(o)
  <2>1. JobTyped(o)
    BY <1>1 DEF JobSound, JobTyped
  <2>2. ASSUME NEW k \in 1 .. Len(j.pipes) PROVE PipeSound(j.kind, j.live, l, j.pipes[k])
    <3>1. PipeSound(j.kind, j.live, j.left, j.pipes[k]) /\ j.left \in BOOLEAN
      BY DEF JobSound, JobTyped, PipesSound
    <3>2. QED  BY <3>1, PipeLeft
  <2>3. QED  BY <2>1, <2>2 DEF PipesSound
<1>3. StreamSound(j)
  BY DEF JobSound
<1>4. l \/ ToldLast(j)
  BY <1>3 DEF StreamSound
<1>5. RoundGoesOn(o)
  BY <1>1, <1>3 DEF StreamSound, RoundGoesOn, AwaitsMore
<1>6. Attended(o)
  BY <1>1 DEF JobSound, Attended
<1>7. Settled(o)
  BY <1>1, <1>3, SentSettles
<1>8. StreamSound(o)
  BY <1>1, <1>3, <1>4, <1>5, <1>7 DEF StreamSound, ToldLast
<1>9. QED  BY <1>2, <1>6, <1>8 DEF JobSound

(* The handler writes a chunk.  What ends the stream is the last thing it    *)
(* writes.                                                                  *)
LEMMA ReceiveWritten ==
    ASSUME NEW j, JobSound(j), j.kind = "chat", j.relay = "send", j.handler = "reading",
           NEW e, e = Event(j.held),
           NEW o, Received(j, o, Append(j.sent, e), j.left,
                           IF e = "message.error" THEN "draining" ELSE "reading")
    PROVE  JobSound(o)
<1> PICK r : r = After(j.held, TRUE)
  OBVIOUS
<1> /\ DOMAIN o = DOMAIN j /\ o.relay = r /\ o.pipes = j.pipes /\ o.kind = j.kind
    /\ o.live = j.live /\ o.left = j.left /\ o.sent = Append(j.sent, e)
    /\ o.handler = IF e = "message.error" THEN "draining" ELSE "reading"
  BY DEF Received
<1>1. /\ r \in {"recv", "drain", "end"} /\ (r = "recv" => j.held.type = "delta")
      /\ (r = "drain" => j.held.type = "err") /\ (r = "end" => j.held.type \notin {"delta", "err"})
  BY AfterSend, Zenon
<1>2. /\ e \in Events /\ (j.held.type = "delta" <=> ~Terminal(e))
      /\ j.held.type = "err" => e = "message.error"
  BY EventOf
<1>3. j.sent \in Seq(Events) /\ Len(j.sent) \in Nat
  BY DEF JobSound, JobTyped
<1>4. /\ o.sent \in Seq(Events) /\ Len(o.sent) = Len(j.sent) + 1 /\ o.sent # <<>>
      /\ o.sent[Len(j.sent) + 1] = e
      /\ \A m \in 1 .. Len(j.sent) : o.sent[m] = j.sent[m]
  BY <1>2, <1>3
<1>5. JobTyped(o) /\ PipesSound(o)
  BY <1>1, <1>4, CallsKept DEF JobSound, JobTyped
<1>6. StreamSound(j)
  BY DEF JobSound
<1>7. RoundGoesOn(o)
  BY <1>1, <1>6 DEF StreamSound, RoundGoesOn, AwaitsMore
<1>8. \A n \in 1 .. Len(j.sent) : ~Terminal(j.sent[n])
  BY <1>6 DEF StreamSound
<1>9. \A n \in 1 .. Len(o.sent) : Terminal(o.sent[n]) => n = Len(o.sent) /\ Terminal(e)
  BY <1>3, <1>4, <1>8
<1>10. Terminal(e) => ToldLast(o)
  BY <1>4 DEF ToldLast
<1>11. e = "message.error" => Terminal(e)
  BY DEF Terminal
<1>12. Attended(o) /\ Settled(o)
  <2>1. Settled(o)
    BY <1>6, SentSettles
  <2>2. QED  BY <2>1 DEF JobSound, Attended
<1>13. StreamSound(o)
  <2>1. o.handler = "reading" /\ o.relay # "end" => ~Terminal(e)
    BY <1>1, <1>2
  <2>2. o.relay \in {"end", "drain"} \/ o.handler = "draining" => Terminal(e)
    BY <1>1, <1>2, <1>11
  <2>3. QED  BY <1>1, <1>6, <1>7, <1>9, <1>10, <1>12, <2>1, <2>2 DEF StreamSound
<1>14. QED  BY <1>5, <1>12, <1>13 DEF JobSound

(* o is j with its context cancelled. *)
Ended(j, o, handler, left) ==
    /\ DOMAIN o = DOMAIN j /\ o.relay = j.relay /\ o.pipes = j.pipes /\ o.kind = j.kind
    /\ o.live = FALSE /\ o.left = left /\ o.handler = handler /\ o.sent = j.sent

(* The handler returns, and with it the context ends; or the client leaves. *)
LEMMA ContextEnds ==
    ASSUME NEW j, JobSound(j), NEW h, NEW l \in BOOLEAN,
           \/ j.relay = "end" /\ h = "gone" /\ l = j.left
           \/ j.handler # "gone" /\ h = j.handler /\ l,
           NEW o, Ended(j, o, h, l)
    PROVE  JobSound(o)
<1> USE DEF Ended
<1>1. JobTyped(o)
  BY DEF JobSound, JobTyped
<1>2. PipesSound(o)
  <2> SUFFICES ASSUME NEW k \in 1 .. Len(j.pipes), NEW p, p = j.pipes[k]
               PROVE  PipeSound(j.kind, FALSE, l, p)
    BY DEF PipesSound
  <2>1. /\ PipeSound(j.kind, j.live, j.left, p) /\ j.left \in BOOLEAN /\ j.live \in BOOLEAN
        /\ j.kind \in {"chat"} \cup OneShot
    BY DEF JobSound, JobTyped, PipesSound
  <2>2. ~l => ~HasMore(p)
    <3>1. CASE j.kind = "chat"
      BY <3>1 DEF JobSound, StreamSound, Settled, GotAll
    <3>2. CASE j.kind \in OneShot
      BY <2>1, <3>2 DEF PipeSound, HasMore
    <3>3. QED  BY <2>1, <3>1, <3>2
  <2>3. QED  BY <2>1, <2>2 DEF PipeSound, RowSound, HasMore
<1>3. Attended(o)
  BY DEF JobSound, Attended
<1>4. ASSUME j.kind = "chat" PROVE StreamSound(o)
  <2>1. StreamSound(j) /\ j.left \in BOOLEAN
    BY <1>4 DEF JobSound, JobTyped
  <2>2. Settled(o)
    <3>1. GotAll(o) => GotAll(j) \/ l
      BY DEF GotAll
    <3>2. j.left => l
      BY <2>1
    <3>3. QED  BY <2>1, <3>1, <3>2 DEF StreamSound, Settled
  <2>3. QED  BY <2>1, <2>2 DEF JobSound, StreamSound, ToldLast, RoundGoesOn, AwaitsMore
<1>5. QED  BY <1>1, <1>2, <1>3, <1>4 DEF JobSound

(* A one-shot request moves on to its next call, or to its end. *)
LEMMA OneShotMoves ==
    ASSUME NEW j, JobSound(j), j.kind \in OneShot, j.relay # "end", NEW r \in {"open", "end"}, NEW m
    PROVE  /\ JobSound([j EXCEPT !.relay = r])
           /\ JobSound([j EXCEPT !.relay = r, !.messages = m])
<1>1. ASSUME NEW o, DOMAIN o = DOMAIN j, o.relay = r, o.pipes = j.pipes, o.kind = j.kind,
             o.live = j.live, o.left = j.left, o.handler = j.handler, o.sent = j.sent
      PROVE  JobSound(o)
  BY <1>1, CallsKept DEF JobSound, JobTyped, OneShot, Attended
<1>2. JobSound([j EXCEPT !.relay = r])
  <2>1. PICK o : o = [j EXCEPT !.relay = r]
    OBVIOUS
  <2>2. /\ DOMAIN o = DOMAIN j /\ o.relay = r /\ o.pipes = j.pipes /\ o.kind = j.kind
        /\ o.live = j.live /\ o.left = j.left /\ o.handler = j.handler /\ o.sent = j.sent
    BY <2>1 DEF JobSound, JobTyped
  <2>3. QED  BY <2>1, <2>2, <1>1
<1>3. JobSound([j EXCEPT !.relay = r, !.messages = m])
  <2>1. PICK o : o = [j EXCEPT !.relay = r, !.messages = m]
    OBVIOUS
  <2>2. /\ DOMAIN o = DOMAIN j /\ o.relay = r /\ o.pipes = j.pipes /\ o.kind = j.kind
        /\ o.live = j.live /\ o.left = j.left /\ o.handler = j.handler /\ o.sent = j.sent
    BY <2>1 DEF JobSound, JobTyped
  <2>3. QED  BY <2>1, <2>2, <1>1
<1>4. QED  BY <1>2, <1>3

(* A one-shot call is over; that it failed may be due to the cancelled      *)
(* context alone.                                                           *)
LEMMA CallOver ==
    ASSUME NEW j, JobSound(j), j.kind \in OneShot, j.relay = "recv",
           NEW pipe, pipe = j.pipes[Len(j.pipes)],
           NEW p, p = pipe \/ (~j.live /\ p = [pipe EXCEPT !.failed = TRUE]),
           NEW r, Recorded(j.live, p, r)
    PROVE  JobSound([j EXCEPT !.pipes = [@ EXCEPT ![Len(j.pipes)] = Over(p, r)]])
<1>1. Len(j.pipes) \in 1 .. Len(j.pipes)
  BY DEF JobSound, JobTyped
<1>2. /\ pipe \in Pipes /\ PipeSound(j.kind, j.live, j.left, pipe)
      /\ j.live \in BOOLEAN /\ j.left \in BOOLEAN
  BY <1>1 DEF JobSound, JobTyped, PipesSound
<1>3. /\ p \in Pipes /\ p.open = pipe.open /\ p.audit = pipe.audit /\ p.turn = pipe.turn
      /\ j.live => p.failed = pipe.failed
  BY <1>2 DEF Pipes
<1>4. ~j.live => j.left
  BY DEF JobSound, Attended
<1>5. ~p.open /\ p.audit # "send" /\ (j.live \/ ~j.left => (p.failed <=> p.turn.fails))
  BY <1>2, <1>3, <1>4 DEF PipeSound
<1>6. /\ Over(p, r) \in Pipes /\ PipeSound(j.kind, j.live, j.left, Over(p, r))
      /\ ~HasMore(Over(p, r))
  BY <1>2, <1>3, <1>5, OverSound
<1>7. j.kind # "chat"
  BY DEF OneShot
<1>8. QED  BY <1>1, <1>6, <1>7, PipePut

-----------------------------------------------------------------------------
(* The steps of one request s, with j for job[s]: each leads to a request    *)
(* that is sound, and touches no other.                                     *)

Becomes(s, o) == job' = [job EXCEPT ![s] = o]

LEMMA StreamingSteps ==
    ASSUME AssistantInv, NEW s \in Slots, JobSound(job[s]), Streaming(s)
    PROVE  \E o : JobSound(o) /\ Becomes(s, o)
<1> PICK j : j = job[s]
  OBVIOUS
<1>1. /\ JobSound(j) /\ j.kind = "chat" /\ DOMAIN job = Slots
  BY DEF Streaming, AssistantInv
<1>2. CASE OpenStream(s)
  <2>1. PICK t \in Turns :
           job' = [job EXCEPT ![s] = [j EXCEPT !.relay = "recv", !.pipes = Append(j.pipes, NewPipe(t))]]
    BY <1>1, <1>2 DEF OpenStream, JobSound, JobTyped
  <2>2. NewPipe(t) \in Pipes /\ NewPipe(t).open /\ PipeSound(j.kind, j.live, j.left, NewPipe(t))
    <3>1. t.fails \in BOOLEAN /\ <<>> \in Chunks
      BY AssistantAssumption DEF Chunks
    <3>2. PICK q : q = NewPipe(t)
      OBVIOUS
    <3>3. /\ q.turn = t /\ q.open = TRUE /\ q.audit = "recv"
          /\ q.counted = "none" /\ q.row = "none"
      BY <3>2 DEF NewPipe
    <3>4. q \in Pipes
      BY <3>1, <3>2 DEF NewPipe, Pipes, Outcomes
    <3>5. ~j.live => j.left
      BY <1>1, <1>2 DEF OpenStream, JobSound, Attended
    <3>6. QED  BY <1>1, <3>1, <3>2, <3>3, <3>4, <3>5 DEF PipeSound, RowSound, OneShot
  <2>3. QED  BY <1>1, <1>2, <2>1, <2>2, CallMade DEF OpenStream, Becomes
<1>3. CASE relayRound(s)
  <2> PICK c : c = Current(j).held
    OBVIOUS
  <2> PICK refused : refused = [type |-> "toomany"]
    OBVIOUS
  <2>1. j.relay = "recv" /\ Current(j).audit = "send"
    BY <1>3 DEF relayRound, Pipe, Round, Current
  <2>2. job' = [job EXCEPT ![s] = IF c.type = "done" /\ c.calls # <<>>
                                  THEN NextRound(TakeHeld(j), Len(j.pipes), c.calls)
                                  ELSE [TakeHeld(j) EXCEPT !.relay = "send", !.held = c]]
    BY <1>3 DEF relayRound, Pipe, Round, Current, TakeHeld
  <2>3. Passes(j, c) /\ (c.type = "done" => Passes(j, refused))
    BY DEF Passes
  <2>4. JobSound([TakeHeld(j) EXCEPT !.relay = "send", !.held = c])
    BY <1>1, <2>1, <2>3, PassedOn, Zenon
  <2>5. ASSUME c.type = "done" PROVE JobSound(NextRound(TakeHeld(j), Len(j.pipes), c.calls))
    <3>1. \A m : JobSound([TakeHeld(j) EXCEPT !.relay = "open", !.messages = m])
      BY <1>1, <2>1, <2>5, ToolsAsked, Zenon
    <3>2. JobSound([TakeHeld(j) EXCEPT !.relay = "send", !.held = refused])
      BY <1>1, <2>1, <2>3, <2>5, PassedOn, Zenon
    <3>3. QED  BY <3>1, <3>2 DEF NextRound
  <2>6. QED  BY <2>2, <2>4, <2>5 DEF Becomes
<1>4. CASE RoundClosed(s)
  BY <1>1, <1>4, RoundClosedKeeps DEF RoundClosed, Pipe, Round, Becomes
<1>5. CASE drain(s)
  BY <1>1, <1>5, DrainKeeps DEF drain, Pipe, Round, Current, TakeHeld, Becomes
<1>6. CASE SendCancelled(s)
  BY <1>1, <1>6, SendCancelledKeeps DEF SendCancelled, Becomes
<1>7. CASE Receive(s)
  <2> PICK e, r : e = Event(j.held) /\ r = After(j.held, TRUE)
    OBVIOUS
  <2> PICK written, broken :
           /\ written = [j EXCEPT !.sent = Append(j.sent, e),
                                  !.handler = IF e = "message.error" THEN "draining" ELSE j.handler]
           /\ broken = [j EXCEPT !.handler = "draining", !.left = TRUE]
    OBVIOUS
  <2>1. /\ j.relay = "send" /\ j.handler \in {"reading", "draining"}
        /\ \E k \in {written, broken} :
              job' = [job EXCEPT ![s] =
                  [(IF j.handler = "reading" THEN k ELSE j) EXCEPT !.relay = r, !.held = <<>>]]
    BY <1>7 DEF Receive
  <2>2. PICK k, o :
          /\ k \in {written, broken} /\ Becomes(s, o)
          /\ o = [(IF j.handler = "reading" THEN k ELSE j) EXCEPT !.relay = r, !.held = <<>>]
    BY <2>1 DEF Becomes
  <2>3. CASE j.handler = "reading" /\ o = [written EXCEPT !.relay = r, !.held = <<>>]
    <3>1. Received(j, o, Append(j.sent, e), j.left,
                   IF e = "message.error" THEN "draining" ELSE "reading")
      BY <1>1, <2>3 DEF JobSound, JobTyped, Received
    <3>2. JobSound(o)
      BY <1>1, <2>1, <2>3, <3>1, ReceiveWritten
    <3>3. QED  BY <2>2, <3>2
  <2>4. CASE j.handler = "reading" /\ o = [broken EXCEPT !.relay = r, !.held = <<>>]
    <3>1. Received(j, o, j.sent, TRUE, "draining")
      BY <1>1, <2>4 DEF JobSound, JobTyped, Received
    <3>2. JobSound(o)
      BY <1>1, <2>1, <3>1, ReceiveUnread
    <3>3. QED  BY <2>2, <3>2
  <2>5. CASE j.handler = "draining" /\ o = [j EXCEPT !.relay = r, !.held = <<>>]
    <3>1. Received(j, o, j.sent, j.left, "draining")
      BY <1>1, <2>5 DEF JobSound, JobTyped, Received
    <3>2. j.left \in BOOLEAN
      BY <1>1 DEF JobSound, JobTyped
    <3>3. JobSound(o)
      BY <1>1, <2>1, <2>5, <3>1, <3>2, ReceiveUnread
    <3>4. QED  BY <2>2, <3>3
  <2>6. QED  BY <2>1, <2>2, <2>3, <2>4, <2>5
<1>8. CASE \E k \in 1 .. Round(s) :
             forward(s, k) \/ ForwardCancelled(s, k) \/ AuditRecord(s, k) \/ AuditCancelled(s, k)
  <2>1. PICK k \in 1 .. Len(j.pipes) :
             forward(s, k) \/ ForwardCancelled(s, k) \/ AuditRecord(s, k) \/ AuditCancelled(s, k)
    BY <1>8 DEF Round
  <2> PICK p : p = j.pipes[k]
    OBVIOUS
  <2>2. CASE forward(s, k)
    <3>1. PICK c \in {Chunk(p.turn, p.at)} \cup CancelError(s) :
              /\ p.open /\ p.audit = "recv"
              /\ job' = [job EXCEPT ![s] = [j EXCEPT !.pipes = [@ EXCEPT ![k] =
                    [p EXCEPT !.at = @ + 1, !.open = (c.type = "delta"), !.audit = "send",
                              !.held = c, !.failed = (c.type = "err")]]]]
      BY <2>2 DEF forward, Update
    <3>2. c = Chunk(p.turn, p.at) \/ (~j.live /\ c = [type |-> "err"])
      BY <3>1 DEF CancelError
    <3>3. QED  BY <1>1, <3>1, <3>2, ForwardKeeps DEF Becomes
  <2>3. CASE ForwardCancelled(s, k)
    BY <1>1, <2>3, ForwardCancelledKeeps DEF ForwardCancelled, Update, Becomes
  <2>4. CASE AuditRecord(s, k)
    <3>1. PICK q \in record(s, p) :
             /\ p.audit = "recv" /\ ~p.open
             /\ job' = [job EXCEPT ![s] = [j EXCEPT !.pipes = [@ EXCEPT ![k] = q]]]
      BY <2>4 DEF AuditRecord, Update
    <3>2. PICK r : q = Over(p, r) /\ Recorded(j.live, p, r)
      BY <3>1, RecordIs
    <3>3. QED  BY <1>1, <3>1, <3>2, AuditRecordKeeps DEF Becomes
  <2>5. CASE AuditCancelled(s, k)
    BY <1>1, <2>5, AuditCancelledKeeps DEF AuditCancelled, Update, Becomes
  <2>6. QED  BY <2>1, <2>2, <2>3, <2>4, <2>5
<1>9. QED  BY <1>2, <1>3, <1>4, <1>5, <1>6, <1>7, <1>8 DEF Streaming

LEMMA CallingSteps ==
    ASSUME AssistantInv, NEW s \in Slots, JobSound(job[s]), Calling(s)
    PROVE  \E o : JobSound(o) /\ Becomes(s, o)
<1> PICK j : j = job[s]
  OBVIOUS
<1>1. /\ JobSound(j) /\ DOMAIN job = Slots
  BY DEF AssistantInv
<1>2. CASE CallProvider(s)
  <2>1. PICK t, q :
           /\ t \in Turns
           /\ q = [NewPipe(t) EXCEPT !.open = FALSE, !.failed = t.fails]
           /\ job' = [job EXCEPT ![s] = [j EXCEPT !.relay = "recv", !.pipes = Append(j.pipes, q)]]
    BY <1>1, <1>2 DEF CallProvider, JobSound, JobTyped
  <2>2. j.kind \in OneShot /\ j.kind # "chat" /\ j.relay = "open"
    BY <1>2 DEF CallProvider, OneShot
  <2>3. t \in Turns /\ t.fails \in BOOLEAN /\ <<>> \in Chunks
    BY <2>1, AssistantAssumption DEF Chunks
  <2>4. /\ q.turn = t /\ q.open = FALSE /\ q.audit = "recv" /\ q.counted = "none"
        /\ q.row = "none" /\ q.failed = t.fails
        /\ q = [turn |-> t, at |-> 1, open |-> FALSE, audit |-> "recv", held |-> <<>>,
                failed |-> t.fails, counted |-> "none", row |-> "none"]
    BY <2>1 DEF NewPipe
  <2>5. q \in Pipes
    BY <2>3, <2>4 DEF Pipes, Outcomes
  <2>6. PipeSound(j.kind, j.live, j.left, q)
    BY <2>2, <2>4 DEF PipeSound, RowSound
  <2>7. QED  BY <1>1, <2>1, <2>2, <2>5, <2>6, CallMade DEF Becomes
<1>3. CASE Completed(s)
  <2> PICK pipe : pipe = j.pipes[Len(j.pipes)]
    OBVIOUS
  <2>1. j.kind \in OneShot /\ j.relay = "recv"
    BY <1>3 DEF Completed
  <2>2. PICK p, q, i, o :
           /\ p \in {pipe} \cup {[pipe EXCEPT !.failed = TRUE] : e \in CancelError(s)}
           /\ q \in record(s, p)
           /\ i = [j EXCEPT !.pipes = [@ EXCEPT ![Len(j.pipes)] = q]]
           /\ o \in AfterCall(i, p)
           /\ Becomes(s, o)
    <3>1. PICK p \in {pipe} \cup {[pipe EXCEPT !.failed = TRUE] : e \in CancelError(s)} :
            \E q \in record(s, p) :
            \E o \in AfterCall([j EXCEPT !.pipes = [@ EXCEPT ![Len(j.pipes)] = q]], p) :
               Becomes(s, o)
      BY <1>3 DEF Completed, Pipe, Round, Becomes
    <3>2. PICK q \in record(s, p) :
            \E o \in AfterCall([j EXCEPT !.pipes = [@ EXCEPT ![Len(j.pipes)] = q]], p) :
               Becomes(s, o)
      BY <3>1
    <3>3. PICK o \in AfterCall([j EXCEPT !.pipes = [@ EXCEPT ![Len(j.pipes)] = q]], p) : Becomes(s, o)
      BY <3>2
    <3>4. QED  BY <3>1, <3>2, <3>3, Zenon
  <2>3. PICK r : q = Over(p, r) /\ Recorded(j.live, p, r)
    BY <2>2, RecordIs
  <2>3a. p = pipe \/ (~j.live /\ p = [pipe EXCEPT !.failed = TRUE])
    BY <2>2 DEF CancelError
  <2>4. JobSound(i) /\ i.kind = j.kind /\ i.relay = j.relay
    <3>1. JobSound(i)
      BY <1>1, <2>1, <2>2, <2>3, <2>3a, CallOver
    <3>2. QED  BY <1>1, <2>2, <3>1 DEF JobSound, JobTyped
  <2>5. /\ JobSound([i EXCEPT !.relay = "end"]) /\ JobSound([i EXCEPT !.relay = "open"])
        /\ \A m : JobSound([i EXCEPT !.relay = "open", !.messages = m])
    BY <2>1, <2>4, OneShotMoves
  <2>6. JobSound(o)
    <3>1. \/ o = [i EXCEPT !.relay = "end"] \/ o = [i EXCEPT !.relay = "open"]
          \/ \E m : o = [i EXCEPT !.relay = "open", !.messages = m]
      BY <2>2, Zenon DEF AfterCall
    <3>2. QED  BY <2>5, <3>1
  <2>7. QED  BY <2>2, <2>6
<1>4. CASE NormalizeFails(s)
  BY <1>1, <1>4, OneShotMoves DEF NormalizeFails, OneShot, Becomes
<1>5. QED  BY <1>2, <1>3, <1>4 DEF Calling, Transcribe, Complete

(* The handler of a finished stream returns, or the client leaves. *)
LEMMA EndingSteps ==
    ASSUME AssistantInv, NEW s \in Slots, JobSound(job[s]), HandlerReturns(s) \/ ClientLeaves(s)
    PROVE  \E o : JobSound(o) /\ Becomes(s, o)
<1> PICK j : j = job[s]
  OBVIOUS
<1>1. JobSound(j) /\ DOMAIN job = Slots /\ j.left \in BOOLEAN
  BY DEF AssistantInv, JobSound, JobTyped
<1>2. CASE HandlerReturns(s)
  <2>1. PICK o : o = [j EXCEPT !.handler = "gone", !.live = FALSE]
    OBVIOUS
  <2>2. j.relay = "end" /\ Becomes(s, o)
    BY <1>1, <1>2, <2>1 DEF HandlerReturns, JobSound, JobTyped, Becomes
  <2>3. Ended(j, o, "gone", j.left)
    BY <1>1, <2>1 DEF JobSound, JobTyped, Ended
  <2>4. QED  BY <1>1, <2>2, <2>3, ContextEnds
<1>3. CASE ClientLeaves(s)
  <2>1. PICK o : o = [j EXCEPT !.live = FALSE, !.left = TRUE]
    OBVIOUS
  <2>2. j.handler # "gone" /\ Becomes(s, o)
    BY <1>1, <1>3, <2>1 DEF ClientLeaves, JobSound, JobTyped, Becomes
  <2>3. Ended(j, o, j.handler, TRUE)
    BY <1>1, <2>1 DEF JobSound, JobTyped, Ended
  <2>4. QED  BY <1>1, <2>2, <2>3, ContextEnds
<1>4. QED  BY <1>2, <1>3

(* A request that was let in is sound. *)
LEMMA StartedSound ==
    ASSUME NEW kind \in {"chat"} \cup OneShot
    PROVE  JobSound(Started(kind))
<1>1. PICK j : j = Started(kind)
  OBVIOUS
<1>2. /\ DOMAIN j = {"kind", "live", "left", "relay", "held", "handler", "sent", "messages", "pipes"}
      /\ j.kind = kind /\ j.live = TRUE /\ j.left = FALSE /\ j.relay = "open" /\ j.handler = "reading"
      /\ j.sent = <<>> /\ j.pipes = <<>>
  BY <1>1 DEF Started
<1>3. j.sent \in Seq(Events) /\ j.pipes \in Seq(Pipes) /\ Len(j.sent) = 0 /\ Len(j.pipes) = 0
  BY <1>2
<1>4. JobTyped(j)
  BY <1>2, <1>3 DEF JobTyped
<1>5. PipesSound(j)
  BY <1>3 DEF PipesSound
<1>6. StreamSound(j) /\ Attended(j)
  BY <1>2, <1>3 DEF StreamSound, RoundGoesOn, AwaitsMore, Settled, Attended
<1>7. QED  BY <1>1, <1>4, <1>5, <1>6 DEF JobSound

(* Which repository keeps the rows, and whether it may fail, never changes. *)
LEMMA SoundStays ==
    ASSUME durable' = durable, world' = world, NEW j, JobSound(j)
    PROVE  JobSound(j)'
<1>1. JobTyped(j)' /\ Attended(j)' /\ (j.kind = "chat" => StreamSound(j)')
  BY DEF JobSound, JobTyped, Attended, StreamSound, ToldLast, RoundGoesOn, AwaitsMore, HasMore,
         Settled, GotAll
<1>2. PipesSound(j)'
  BY DEF JobSound, PipesSound, PipeSound, RowSound
<1>3. QED  BY <1>1, <1>2 DEF JobSound

LEMMA RequestSteps ==
    ASSUME AssistantInv, NEW s \in Slots, NEW kind \in {"chat"} \cup OneShot, Request(s, kind)
    PROVE  AssistantInv'
<1>1. job' = job \/ Becomes(s, Started(kind))
  BY DEF Request, Becomes
<1>2. PICK o : o = Started(kind)
  OBVIOUS
<1>3. JobSound(o)
  BY <1>2, StartedSound
<1>4. durable' = durable /\ world' = world
  BY DEF Request, AllowDurable, AllowLocal
<1>5. \A j : JobSound(j) => JobSound(j)'
  BY <1>4, SoundStays
<1>6. QED  BY <1>1, <1>2, <1>3, <1>5 DEF AssistantInv, Becomes

(* Every step of the assistant keeps every request sound. *)
LEMMA AssistantSteps ==
    ASSUME AssistantInv, [AssistantNext]_assistantVars
    PROVE  AssistantInv'
<1>0. ASSUME durable' = durable, world' = world
      PROVE  \A j : JobSound(j) => JobSound(j)'
  BY <1>0, SoundStays
<1>1. CASE job' = job /\ durable' = durable /\ world' = world
  BY <1>0, <1>1 DEF AssistantInv
<1>2. ASSUME NEW s \in Slots, NEW o, JobSound(o) \/ o = Idle, Becomes(s, o),
             durable' = durable, world' = world
      PROVE  AssistantInv'
  BY <1>0, <1>2 DEF AssistantInv, Becomes
<1>3. ASSUME NEW s \in Slots, chat(s) \/ Ask(s) \/ scan(s) \/ intelligent(s) \/ dictate(s)
      PROVE  AssistantInv'
  BY <1>3, RequestSteps DEF chat, Ask, scan, intelligent, dictate, OneShot
<1>4. ASSUME NEW s \in Slots, Step(s)
      PROVE  AssistantInv'
  <2>1. JobSound(job[s])
    BY <1>4 DEF Step, Busy, AssistantInv, Idle
  <2> durable' = durable /\ world' = world
    BY <1>4 DEF Step, limiterVars
  <2>2. CASE Finish(s)
    BY <1>2, <2>2 DEF Finish, Becomes
  <2>3. CASE Streaming(s) \/ Calling(s) \/ HandlerReturns(s)
    BY <1>2, <2>1, <2>3, StreamingSteps, CallingSteps, EndingSteps
  <2>4. QED  BY <1>4, <2>2, <2>3 DEF Step
<1>5. ASSUME NEW s \in Slots, Leave(s)
      PROVE  AssistantInv'
  <2>1. JobSound(job[s])
    BY <1>5 DEF Leave, ClientLeaves, Busy, AssistantInv, Idle
  <2>2. durable' = durable /\ world' = world
    BY <1>5 DEF Leave, limiterVars
  <2>3. QED  BY <1>2, <1>5, <2>1, <2>2, EndingSteps DEF Leave
<1>6. CASE TimePasses \/ MailAsked
  BY <1>1, <1>6 DEF TimePasses, MailAsked, Tick, CleanupExpired, AllowDurable, AllowLocal
<1>7. CASE UNCHANGED assistantVars
  BY <1>1, <1>7 DEF assistantVars, limiterVars
<1>8. QED  BY <1>3, <1>4, <1>5, <1>6, <1>7 DEF AssistantNext

LEMMA AssistantStart == AssistantInit => AssistantInv
  BY DEF AssistantInit, AssistantInv

LEMMA AssistantAlways == AssistantSpec => []AssistantInv
<1>1. AssistantInv /\ [AssistantNext]_assistantVars => AssistantInv'
  BY AssistantSteps
<1>2. QED  BY <1>1, AssistantStart, PTL DEF AssistantSpec

(* Every call of the provider that is over was counted with its true outcome *)
(* unless its client left, and has a row that says so unless the insert      *)
(* failed or the request had ended, however the goroutines of all rounds,   *)
(* the handler and the client interleave, for every set of turns, kinds of  *)
(* request and number of tool rounds (AuditedAIProvider, RecordRequest).    *)
THEOREM EveryCallAudited == AssistantSpec => []AuditTrue
<1>1. AssistantInv => AuditTrue
  <2> SUFFICES ASSUME AssistantInv, NEW s \in Slots, Busy(s), NEW k \in 1 .. Round(s),
                      NEW p, p = job[s].pipes[k], p.audit = "over"
               PROVE  /\ job[s].left \/ p.counted = IF p.turn.fails THEN "error" ELSE "success"
                      /\ p.row \in {"none", p.counted}
                      /\ ~durable \/ (job[s].live /\ ~world.refuses) => p.row = p.counted
    BY DEF AuditTrue
  <2>1. JobSound(job[s])
    BY DEF Busy, AssistantInv, Idle
  <2>2. PipeSound(job[s].kind, job[s].live, job[s].left, p)
    BY <2>1 DEF JobSound, PipesSound, Round
  <2>3. QED  BY <2>2 DEF PipeSound, RowSound
<1>2. QED  BY <1>1, AssistantAlways, PTL

(* A client that stays is told how its stream ended, once and last, whatever *)
(* order the goroutines run in and whatever the model streams (chat,         *)
(* streamRounds, relayRound).                                               *)
THEOREM StreamsEnd == AssistantSpec => []StreamEnds
<1>1. AssistantInv => StreamEnds
  <2> SUFFICES ASSUME AssistantInv, NEW s \in Slots, job[s].kind = "chat"
               PROVE  /\ \A n \in DOMAIN job[s].sent : Terminal(job[s].sent[n]) => n = Len(job[s].sent)
                      /\ job[s].handler = "gone" /\ ~job[s].left =>
                            job[s].sent # <<>> /\ Terminal(Last(job[s].sent))
    BY DEF StreamEnds
  <2>1. JobSound(job[s])
    BY DEF AssistantInv, Idle
  <2>2. /\ StreamSound(job[s]) /\ DOMAIN job[s].sent = 1 .. Len(job[s].sent)
        /\ job[s].handler = "gone" => job[s].relay = "end"
    BY <2>1 DEF JobSound, JobTyped, Attended
  <2>3. QED  BY <2>2 DEF StreamSound, ToldLast, Last
<1>2. QED  BY <1>1, AssistantAlways, PTL

(* Seen through its limiters the assistant is a user of them beside e-mail:  *)
(* each request asks once, its goroutines and its client do not touch them. *)
THEOREM AssistantIsLimited == AssistantSpec => LimiterSpec
<1>1. AssistantInit => LimiterInit
  BY DEF AssistantInit
<1>2. [AssistantNext]_assistantVars => [LimiterNext]_limiterVars
  <2> SUFFICES ASSUME [AssistantNext]_assistantVars PROVE [LimiterNext]_limiterVars
    OBVIOUS
  <2>1. \A kind : Key(kind) \in Keys
    BY AssistantAssumption DEF Key
  <2>2. ASSUME NEW s \in Slots, chat(s) \/ Ask(s) \/ scan(s) \/ intelligent(s) \/ dictate(s)
        PROVE  LimiterNext
    BY <2>1, <2>2 DEF chat, Ask, scan, intelligent, dictate, Request, LimiterNext
  <2>3. ASSUME NEW s \in Slots, Step(s) \/ Leave(s)
        PROVE  UNCHANGED limiterVars
    BY <2>3 DEF Step, Leave
  <2>4. CASE TimePasses \/ MailAsked
    BY <2>4, AssistantAssumption DEF TimePasses, MailAsked, LimiterNext
  <2>5. CASE UNCHANGED assistantVars
    BY <2>5 DEF assistantVars
  <2>6. QED  BY <2>2, <2>3, <2>4, <2>5 DEF AssistantNext
<1>3. QED  BY <1>1, <1>2, PTL DEF AssistantSpec, LimiterSpec

(* So no user gets more answers or drafts than a window allows, and no more  *)
(* e-mails are sent than the quota's windows and their deleted rows allow,  *)
(* however requests, e-mails, the clean-up and the clock interleave (chat,  *)
(* Ask, intake, limitedSender).                                             *)
THEOREM AssistantKeepsLimits == AssistantSpec => []LimitKept
  BY AssistantIsLimited, LimitsHold, PTL
-----------------------------------------------------------------------------
(* E-mail delivery, for every number of deliveries, workers, attempts,      *)
(* quota and faults, while workers keep their leases (~SlowBatches).        *)

Jobs == [d : Deliveries, attempts : 1 .. MaxAttempts, outcome : {"sent", "failed", "quota"}]

QueueTyped ==
    /\ row \in [Deliveries -> [status : Status, attempts : 0 .. MaxAttempts,
                               due : BOOLEAN, lease : BOOLEAN, payload : BOOLEAN]]
    /\ accepted \in [Deliveries -> Nat] /\ ownFailures \in [Deliveries -> Nat]
    /\ todo \in [Workers -> SUBSET (Deliveries \X (1 .. MaxAttempts))]
    /\ doing \in [Workers -> Jobs \cup {Nobody}]
    /\ faults \in Nat

(* A worker is handling d, with one of these outcomes. *)
Handling(w, d) == doing[w] # Nobody /\ doing[w].d = d
Delivering(d, outcomes) == \E w \in Workers : Handling(w, d) /\ doing[w].outcome \in outcomes

(* A claim is one worker's, is still leased to it, and carries the number    *)
(* of attempts of the row.                                                  *)
Leased ==
    \A w \in Workers, d \in Deliveries :
        /\ Holds(w, d) => /\ row[d].status = "processing" /\ row[d].lease
                          /\ \A v \in Workers : Holds(v, d) => v = w
        /\ \A n \in 1 .. MaxAttempts : <<d, n>> \in todo[w] =>
              n = row[d].attempts /\ ~Handling(w, d)
        /\ Handling(w, d) => doing[w].attempts = row[d].attempts

(* The one e-mail that no fault explains is the one recorded, or about to be *)
(* recorded, as sent.                                                       *)
AcceptedOnce ==
    \A d \in Deliveries :
        /\ accepted[d] <= 1 + faults
        /\ accepted[d] <= faults \/ row[d].status = "sent" \/ Delivering(d, {"sent"})

FailuresTrue ==
    \A d \in Deliveries :
        row[d].status = "failed" \/ Delivering(d, {"failed"}) => ownFailures[d] > 0

(* A claim pays for one try: until it is used, what was tried is less than   *)
(* what the row counts; a delivery that is pending with all its attempts     *)
(* counted was refused for the quota.                                       *)
Budget ==
    \A d \in Deliveries :
        /\ accepted[d] + ownFailures[d] <= row[d].attempts + faults
        /\ \/ accepted[d] + ownFailures[d] + 1 <= row[d].attempts + faults
           \/ row[d].status \in {"sent", "failed"}
           \/ row[d].status \in {"queued", "pending"} /\ row[d].attempts < MaxAttempts
           \/ Delivering(d, {"sent", "failed"})

DeliveryInv == QueueTyped /\ Leased /\ AcceptedOnce /\ FailuresTrue /\ Budget
-----------------------------------------------------------------------------
LEMMA Bounds == MaxAttempts \in Nat /\ MaxAttempts > 0
BY NotificationsAssumption

LEMMA DeliveryInit == Init => DeliveryInv
<1> SUFFICES ASSUME Init PROVE DeliveryInv OBVIOUS
<1> USE DEF Init
<1>1. QueueTyped
    BY Bounds DEF QueueTyped, Status
<1>2. \A w \in Workers, d \in Deliveries : ~Handling(w, d) /\ ~Holds(w, d) /\ todo[w] = {}
    BY DEF Handling, Holds
<1>3. Leased /\ FailuresTrue
    BY <1>2 DEF Leased, FailuresTrue, Delivering
<1>4. \A d \in Deliveries : accepted[d] = 0 /\ ownFailures[d] = 0 /\ row[d].status = "queued" /\ row[d].attempts = 0
    OBVIOUS
<1>5. AcceptedOnce /\ Budget
    BY <1>4, Bounds DEF AcceptedOnce, Budget
<1> QED BY <1>1, <1>3, <1>5 DEF DeliveryInv

(* The delivery a worker turns to next: it was in its hands and in nobody    *)
(* else's.                                                                  *)
LEMMA HandleTakes ==
    ASSUME DeliveryInv, NEW w \in Workers, doing[w] = Nobody,
           NEW outcome \in {"sent", "failed", "quota"}, Handle(w, outcome)
    PROVE  \E d \in Deliveries, n \in 1 .. MaxAttempts :
              /\ <<d, n>> \in todo[w] /\ n = row[d].attempts /\ row[d].status = "processing" /\ row[d].lease
              /\ todo' \in [Workers -> SUBSET (Deliveries \X (1 .. MaxAttempts))]
              /\ doing' \in [Workers -> Jobs \cup {Nobody}]
              /\ todo'[w] = todo[w] \ {<<d, n>>}
              /\ doing'[w] # Nobody /\ doing'[w].d = d /\ doing'[w].attempts = n /\ doing'[w].outcome = outcome
              /\ \A v \in Workers : v # w => todo'[v] = todo[v] /\ doing'[v] = doing[v] /\ ~Holds(v, d)
<1> USE DEF DeliveryInv
<1>1. PICK t \in todo[w] :
        /\ todo' = [todo EXCEPT ![w] = @ \ {t}]
        /\ doing' = [doing EXCEPT ![w] = [d |-> t[1], attempts |-> t[2], outcome |-> outcome]]
    BY DEF Handle
<1>2. PICK d \in Deliveries, n \in 1 .. MaxAttempts : t = <<d, n>>
    BY DEF QueueTyped
<1> DEFINE task == [d |-> d, attempts |-> n, outcome |-> outcome]
<1>3. task \in Jobs /\ task # Nobody /\ task.d = d /\ task.attempts = n /\ task.outcome = outcome
    BY DEF Jobs, Nobody
<1>4. doing' = [doing EXCEPT ![w] = task]
    BY <1>1, <1>2
<1> HIDE DEF task
<1>5. /\ doing' \in [Workers -> Jobs \cup {Nobody}] /\ doing'[w] = task
      /\ \A v \in Workers : v # w => doing'[v] = doing[v]
    BY <1>3, <1>4 DEF QueueTyped
<1>6. /\ todo' \in [Workers -> SUBSET (Deliveries \X (1 .. MaxAttempts))] /\ todo'[w] = todo[w] \ {<<d, n>>}
      /\ \A v \in Workers : v # w => todo'[v] = todo[v]
    BY <1>1, <1>2 DEF QueueTyped
<1>7. Holds(w, d) /\ <<d, n>> \in todo[w]
    BY <1>2 DEF Holds
<1>8. n = row[d].attempts /\ row[d].status = "processing" /\ row[d].lease /\ \A v \in Workers : v # w => ~Holds(v, d)
    BY <1>7 DEF Leased
<1> QED BY <1>3, <1>5, <1>6, <1>7, <1>8

(* Handling one delivery, with any outcome. *)
LEMMA HandleKeeps ==
    ASSUME DeliveryInv, NEW w \in Workers, doing[w] = Nobody,
           NEW outcome \in {"sent", "failed", "quota"}, Handle(w, outcome), row' = row,
           NEW a \in {0, 1}, NEW o \in {0, 1}, NEW x \in {0, 1},
           accepted' = [accepted EXCEPT ![doing'[w].d] = @ + a],
           ownFailures' = [ownFailures EXCEPT ![doing'[w].d] = @ + o],
           faults' = faults + x,
           \/ outcome = "sent" /\ o = 0 /\ x = 0
           \/ outcome = "failed" /\ o = 1 /\ a = x
           \/ outcome = "quota" /\ a = 0 /\ o = 0 /\ x = 0
    PROVE  DeliveryInv'
<1> USE DEF DeliveryInv
<1>1. PICK d \in Deliveries, n \in 1 .. MaxAttempts :
        /\ <<d, n>> \in todo[w] /\ n = row[d].attempts /\ row[d].status = "processing" /\ row[d].lease
        /\ todo' \in [Workers -> SUBSET (Deliveries \X (1 .. MaxAttempts))]
        /\ doing' \in [Workers -> Jobs \cup {Nobody}]
        /\ todo'[w] = todo[w] \ {<<d, n>>}
        /\ doing'[w] # Nobody /\ doing'[w].d = d /\ doing'[w].attempts = n /\ doing'[w].outcome = outcome
        /\ \A v \in Workers : v # w => todo'[v] = todo[v] /\ doing'[v] = doing[v] /\ ~Holds(v, d)
    BY HandleTakes
<1>2. /\ accepted' \in [Deliveries -> Nat] /\ accepted'[d] = accepted[d] + a
      /\ ownFailures' \in [Deliveries -> Nat] /\ ownFailures'[d] = ownFailures[d] + o
      /\ \A c \in Deliveries : c # d => accepted'[c] = accepted[c] /\ ownFailures'[c] = ownFailures[c]
    BY <1>1 DEF QueueTyped
<1>3. faults \in Nat /\ faults' \in Nat /\ faults <= faults' /\ \A c \in Deliveries :
         accepted[c] \in Nat /\ ownFailures[c] \in Nat /\ row[c].attempts \in Nat
    BY Bounds DEF QueueTyped
<1>4. QueueTyped'
    BY <1>1, <1>2, <1>3 DEF QueueTyped
<1>5. \A v \in Workers, c \in Deliveries :
        /\ c # d => (Handling(v, c)' <=> Handling(v, c))
        /\ Handling(v, d)' <=> v = w
        /\ ~Handling(v, d)
  <2>1. \A v \in Workers : v # w => ~Handling(v, d)
      BY <1>1 DEF Holds, Handling
  <2> QED BY <1>1, <2>1 DEF Handling
<1>6. \A v \in Workers, c \in Deliveries : Holds(v, c)' => Holds(v, c)
  <2> SUFFICES ASSUME NEW v \in Workers, NEW c \in Deliveries, Holds(v, c)' PROVE Holds(v, c)
      OBVIOUS
  <2>1. CASE v # w
      BY <1>1, <2>1 DEF Holds
  <2>2. CASE v = w /\ c = d
      BY <1>1, <2>2 DEF Holds
  <2>3. CASE v = w /\ c # d
      BY <1>1, <2>3 DEF Holds
  <2> QED BY <2>1, <2>2, <2>3
<1>7. Leased'
  <2> SUFFICES ASSUME NEW v \in Workers, NEW c \in Deliveries
               PROVE  /\ Holds(v, c)' => /\ row[c].status = "processing" /\ row[c].lease
                                         /\ \A u \in Workers : Holds(u, c)' => u = v
                      /\ \A m \in 1 .. MaxAttempts : <<c, m>> \in todo'[v] =>
                            m = row[c].attempts /\ ~Handling(v, c)'
                      /\ Handling(v, c)' => doing'[v].attempts = row[c].attempts
      BY DEF Leased
  <2>1. Holds(v, c)' => /\ row[c].status = "processing" /\ row[c].lease
                        /\ \A u \in Workers : Holds(u, c)' => u = v
      BY <1>6 DEF Leased
  <2>2. ASSUME NEW m \in 1 .. MaxAttempts, <<c, m>> \in todo'[v]
        PROVE  m = row[c].attempts /\ ~Handling(v, c)'
    <3>1. <<c, m>> \in todo[v]
        BY <1>1, <2>2
    <3>2. m = row[c].attempts /\ ~Handling(v, c)
        BY <3>1 DEF Leased
    <3>3. ~(c = d /\ v = w)
        BY <1>1, <2>2, <3>2
    <3> QED BY <1>5, <3>2, <3>3
  <2>3. Handling(v, c)' => doing'[v].attempts = row[c].attempts
      BY <1>1, <1>5 DEF Leased, Handling
  <2> QED BY <2>1, <2>2, <2>3
<1>8. \A S : \A c \in Deliveries : c # d => (Delivering(c, S)' <=> Delivering(c, S))
    BY <1>1, <1>5 DEF Delivering, Handling
<1>9. \A S : ~Delivering(d, S) /\ (Delivering(d, S)' <=> outcome \in S)
    BY <1>1, <1>5 DEF Delivering
<1>10. /\ accepted[d] <= faults /\ accepted[d] + ownFailures[d] + 1 <= row[d].attempts + faults
    BY <1>1, <1>9 DEF AcceptedOnce, Budget
<1>11. AcceptedOnce'
  <2>1. accepted'[d] <= 1 + faults' /\ (accepted'[d] <= faults' \/ outcome = "sent")
      BY <1>2, <1>3, <1>10
  <2>2. \A c \in Deliveries : c # d =>
          /\ accepted'[c] <= 1 + faults'
          /\ accepted'[c] <= faults' \/ row[c].status = "sent" \/ Delivering(c, {"sent"})'
      BY <1>2, <1>3, <1>8 DEF AcceptedOnce
  <2> QED BY <1>9, <2>1, <2>2 DEF AcceptedOnce
<1>12. FailuresTrue'
  <2>1. outcome = "failed" => ownFailures'[d] > 0
      BY <1>2, <1>3
  <2> QED BY <1>1, <1>2, <1>8, <1>9, <2>1 DEF FailuresTrue
<1>13. Budget'
  <2>1. /\ accepted'[d] + ownFailures'[d] <= row[d].attempts + faults'
        /\ accepted'[d] + ownFailures'[d] + 1 <= row[d].attempts + faults' \/ outcome \in {"sent", "failed"}
      BY <1>2, <1>3, <1>10
  <2>2. ASSUME NEW c \in Deliveries, c # d
        PROVE  /\ accepted'[c] + ownFailures'[c] <= row[c].attempts + faults'
               /\ \/ accepted'[c] + ownFailures'[c] + 1 <= row[c].attempts + faults'
                  \/ row[c].status \in {"sent", "failed"}
                  \/ row[c].status \in {"queued", "pending"} /\ row[c].attempts < MaxAttempts
                  \/ Delivering(c, {"sent", "failed"})'
      BY <1>2, <1>3, <1>8, <2>2 DEF Budget
  <2> QED BY <1>9, <2>1, <2>2 DEF Budget
<1> QED BY <1>4, <1>7, <1>11, <1>12, <1>13

(* What recording an outcome does to the row. *)
LEMMA MarkRow ==
    ASSUME DeliveryInv, NEW w \in Workers, doing[w] # Nobody, Mark(w)
    PROVE  LET d == doing[w].d IN
           /\ row' \in [Deliveries -> [status : Status, attempts : 0 .. MaxAttempts,
                                       due : BOOLEAN, lease : BOOLEAN, payload : BOOLEAN]]
           /\ \A c \in Deliveries : c # d => row'[c] = row[c]
           /\ row'[d].attempts = row[d].attempts
           /\ \/ doing[w].outcome = "sent" /\ row'[d].status = "sent"
              \/ doing[w].outcome = "failed" /\ row'[d].status = "failed"
              \/ /\ row'[d].status = "pending"
                 /\ \/ doing[w].outcome = "quota"
                    \/ doing[w].outcome = "failed" /\ doing[w].attempts < MaxAttempts
<1> DEFINE d == doing[w].d
           Row == [status : Status, attempts : 0 .. MaxAttempts, due : BOOLEAN, lease : BOOLEAN, payload : BOOLEAN]
<1>1. doing[w] \in Jobs
    BY DEF DeliveryInv, QueueTyped
<1>2. d \in Deliveries /\ doing[w].attempts \in 1 .. MaxAttempts /\ doing[w].outcome \in {"sent", "failed", "quota"}
    BY <1>1 DEF Jobs
<1>3. row \in [Deliveries -> Row] /\ row[d] \in Row
    BY <1>2 DEF DeliveryInv, QueueTyped
<1>4. \/ doing[w].outcome = "sent" /\ row' = MarkNotificationSent(d)
      \/ doing[w].outcome = "failed" /\ row' = MarkNotificationDeadLettered(d)
      \/ /\ row' = MarkNotificationRetry(d)
         /\ \/ doing[w].outcome = "quota"
            \/ doing[w].outcome = "failed" /\ doing[w].attempts < MaxAttempts
  <2>1. CASE doing[w].outcome = "sent"
      BY <2>1 DEF Mark
  <2>2. CASE doing[w].outcome = "quota"
      BY <2>2 DEF Mark
  <2>3. CASE doing[w].outcome = "failed"
    <3>1. Exhausted(doing[w].attempts) \/ doing[w].attempts < MaxAttempts
        BY <1>2, Bounds DEF Exhausted
    <3>2. doing[w].attempts < MaxAttempts => ~Exhausted(doing[w].attempts)
        BY <1>2, Bounds DEF Exhausted
    <3> QED BY <2>3, <3>1, <3>2 DEF Mark
  <2> QED BY <1>2, <2>1, <2>2, <2>3
<1> DEFINE s == [row[d] EXCEPT !.status = "sent", !.payload = FALSE]
           r == [row[d] EXCEPT !.status = "pending", !.due = FALSE, !.lease = FALSE]
           l == [row[d] EXCEPT !.status = "failed", !.payload = FALSE]
<1>5. MarkNotificationSent(d) = [row EXCEPT ![d] = s] /\ MarkNotificationRetry(d) = [row EXCEPT ![d] = r]
      /\ MarkNotificationDeadLettered(d) = [row EXCEPT ![d] = l]
    BY <1>2, <1>3 DEF MarkNotificationSent, MarkNotificationRetry, MarkNotificationDeadLettered
<1>6. /\ s \in Row /\ s.status = "sent" /\ s.attempts = row[d].attempts
      /\ r \in Row /\ r.status = "pending" /\ r.attempts = row[d].attempts
      /\ l \in Row /\ l.status = "failed" /\ l.attempts = row[d].attempts
    BY <1>3 DEF Status
<1> HIDE DEF s, r, l, d, Row
<1>7. \A y \in Row : [row EXCEPT ![d] = y] \in [Deliveries -> Row] /\ [row EXCEPT ![d] = y][d] = y
         /\ \A c \in Deliveries : c # d => [row EXCEPT ![d] = y][c] = row[c]
    BY <1>2, <1>3
<1>8. /\ row' \in [Deliveries -> Row]
      /\ \A c \in Deliveries : c # d => row'[c] = row[c]
      /\ row'[d].attempts = row[d].attempts
      /\ \/ doing[w].outcome = "sent" /\ row'[d].status = "sent"
         \/ doing[w].outcome = "failed" /\ row'[d].status = "failed"
         \/ /\ row'[d].status = "pending"
            /\ \/ doing[w].outcome = "quota"
               \/ doing[w].outcome = "failed" /\ doing[w].attempts < MaxAttempts
    BY <1>4, <1>5, <1>6, <1>7
<1> QED BY <1>8 DEF d, Row

LEMMA ResolveKeeps ==
    ASSUME DeliveryInv, NEW w \in Workers, Resolve(w)
    PROVE  DeliveryInv'
<1> USE DEF DeliveryInv
<1>1. /\ doing[w] # Nobody /\ Mark(w) /\ doing' = [doing EXCEPT ![w] = Nobody]
      /\ UNCHANGED <<accepted, ownFailures, todo, faults>>
    BY DEF Resolve
<1>2. doing[w] \in Jobs
    BY <1>1 DEF QueueTyped
<1>3. PICK d \in Deliveries : d = doing[w].d
    BY <1>2 DEF Jobs
<1>4. /\ row' \in [Deliveries -> [status : Status, attempts : 0 .. MaxAttempts,
                                  due : BOOLEAN, lease : BOOLEAN, payload : BOOLEAN]]
      /\ \A c \in Deliveries : c # d => row'[c] = row[c]
      /\ row'[d].attempts = row[d].attempts
      /\ \/ doing[w].outcome = "sent" /\ row'[d].status = "sent"
         \/ doing[w].outcome = "failed" /\ row'[d].status = "failed"
         \/ /\ row'[d].status = "pending"
            /\ \/ doing[w].outcome = "quota"
               \/ doing[w].outcome = "failed" /\ doing[w].attempts < MaxAttempts
    BY <1>1, <1>3, MarkRow
<1>5. Handling(w, d) /\ Holds(w, d)
    BY <1>1, <1>3 DEF Handling, Holds
<1>6. /\ doing[w].attempts = row[d].attempts /\ row[d].status = "processing"
      /\ \A v \in Workers : v # w => ~Holds(v, d)
      /\ \A n \in 1 .. MaxAttempts : <<d, n>> \notin todo[w]
    BY <1>3, <1>5 DEF Leased
<1>7. doing' \in [Workers -> Jobs \cup {Nobody}] /\ doing'[w] = Nobody /\ \A v \in Workers : v # w => doing'[v] = doing[v]
    BY <1>1 DEF QueueTyped
<1>8. QueueTyped'
    BY <1>1, <1>4, <1>7 DEF QueueTyped
<1>9. \A v \in Workers, c \in Deliveries :
        /\ c # d => (Handling(v, c)' <=> Handling(v, c)) /\ (Holds(v, c)' <=> Holds(v, c))
        /\ ~Handling(v, d)' /\ ~Holds(v, d)'
  <2>1. ASSUME NEW v \in Workers, v # w
        PROVE  /\ \A c : (Handling(v, c)' <=> Handling(v, c)) /\ (Holds(v, c)' <=> Holds(v, c))
               /\ ~Handling(v, d) /\ ~Holds(v, d)
      BY <1>1, <1>6, <1>7, <2>1 DEF Handling, Holds
  <2>2. \A c : ~Handling(w, c)' /\ (c # d => ~Handling(w, c))
      BY <1>3, <1>7 DEF Handling
  <2>3. \A c \in Deliveries : (c # d => (Holds(w, c)' <=> Holds(w, c))) /\ ~Holds(w, d)'
      BY <1>1, <1>3, <1>6, <1>7 DEF Holds
  <2> QED BY <2>1, <2>2, <2>3
<1>10. \A v \in Workers, n \in 1 .. MaxAttempts : <<d, n>> \notin todo[v]
    BY <1>6 DEF Holds
<1>11. Leased'
    BY <1>1, <1>3, <1>4, <1>7, <1>9, <1>10 DEF Leased, Handling
<1>12. \A S : \A c \in Deliveries : c # d => (Delivering(c, S)' <=> Delivering(c, S))
    BY <1>5, <1>7, <1>9 DEF Delivering, Handling
<1>13. \A S : Delivering(d, S) <=> doing[w].outcome \in S
    BY <1>3, <1>5, <1>6 DEF Delivering, Handling, Holds
<1>14. AcceptedOnce'
  <2>1. accepted[d] <= faults \/ row'[d].status = "sent"
      BY <1>3, <1>4, <1>6, <1>13 DEF AcceptedOnce
  <2> QED BY <1>1, <1>4, <1>12, <2>1 DEF AcceptedOnce
<1>15. FailuresTrue'
  <2>1. row'[d].status = "failed" => ownFailures[d] > 0
      BY <1>3, <1>4, <1>13 DEF FailuresTrue
  <2>2. ~Delivering(d, {"failed"})'
      BY <1>3, <1>9 DEF Delivering
  <2> QED BY <1>1, <1>4, <1>12, <2>1, <2>2 DEF FailuresTrue
<1>16. Budget'
  <2>1. /\ accepted[d] + ownFailures[d] <= row'[d].attempts + faults
        /\ \/ accepted[d] + ownFailures[d] + 1 <= row'[d].attempts + faults
           \/ row'[d].status \in {"sent", "failed"}
           \/ row'[d].status \in {"queued", "pending"} /\ row'[d].attempts < MaxAttempts
    <3>1. accepted[d] + ownFailures[d] <= row[d].attempts + faults
        BY <1>3 DEF Budget
    <3>2. doing[w].outcome = "quota" => accepted[d] + ownFailures[d] + 1 <= row[d].attempts + faults
        BY <1>3, <1>6, <1>13 DEF Budget
    <3> QED BY <1>4, <1>6, <3>1, <3>2
  <2> QED BY <1>1, <1>4, <1>12, <2>1 DEF Budget
<1> QED BY <1>8, <1>11, <1>14, <1>15, <1>16

LEMMA PassEndsKeeps ==
    ASSUME DeliveryInv, NEW w \in Workers, PassEnds(w)
    PROVE  DeliveryInv'
<1> USE DEF DeliveryInv
<1>1. /\ faults' = faults + 1 /\ todo' = [todo EXCEPT ![w] = {}] /\ doing' = [doing EXCEPT ![w] = Nobody]
      /\ UNCHANGED <<row, accepted, ownFailures>>
    BY DEF PassEnds
<1>2. /\ todo' \in [Workers -> SUBSET (Deliveries \X (1 .. MaxAttempts))] /\ todo'[w] = {}
      /\ doing' \in [Workers -> Jobs \cup {Nobody}] /\ doing'[w] = Nobody
      /\ \A v \in Workers : v # w => todo'[v] = todo[v] /\ doing'[v] = doing[v]
    BY <1>1 DEF QueueTyped
<1>3. QueueTyped'
    BY <1>1, <1>2 DEF QueueTyped
<1>4. \A v \in Workers, c \in Deliveries :
        /\ v # w => (Handling(v, c)' <=> Handling(v, c)) /\ (Holds(v, c)' <=> Holds(v, c))
        /\ ~Handling(w, c)' /\ ~Holds(w, c)'
    BY <1>2 DEF Handling, Holds
<1>5. Leased'
    BY <1>1, <1>2, <1>4 DEF Leased
<1>6. \A c \in Deliveries : faults \in Nat /\ accepted[c] \in Nat /\ ownFailures[c] \in Nat /\ row[c].attempts \in Nat
    BY Bounds DEF QueueTyped
<1>7. AcceptedOnce'
    BY <1>1, <1>6 DEF AcceptedOnce
<1>8. FailuresTrue'
  <2>1. \A S : \A c \in Deliveries : Delivering(c, S)' => Delivering(c, S)
      BY <1>2, <1>4 DEF Delivering
  <2> QED BY <1>1, <2>1 DEF FailuresTrue
<1>9. Budget'
    BY <1>1, <1>6 DEF Budget
<1> QED BY <1>3, <1>5, <1>7, <1>8, <1>9

(* What the passage of time and the producers do: rows nobody holds change,  *)
(* and none of them gains or loses an attempt.                              *)
LEMMA RowKeeps ==
    ASSUME DeliveryInv, UNCHANGED <<accepted, ownFailures, todo, doing, faults>>,
           row' \in [Deliveries -> [status : Status, attempts : 0 .. MaxAttempts,
                                    due : BOOLEAN, lease : BOOLEAN, payload : BOOLEAN]],
           \A c \in Deliveries :
              /\ row'[c].attempts = row[c].attempts
              /\ \/ row'[c].status = row[c].status
                 \/ row[c].status = "queued" /\ row'[c].status = "pending"
              /\ \/ row'[c].lease = row[c].lease
                 \/ \A w \in Workers : ~Holds(w, c)
    PROVE  DeliveryInv'
<1> USE DEF DeliveryInv
<1>1. \A w, c : (Handling(w, c)' <=> Handling(w, c)) /\ (Holds(w, c)' <=> Holds(w, c))
    BY DEF Handling, Holds
<1>2. \A c, S : Delivering(c, S)' <=> Delivering(c, S)
    BY <1>1 DEF Delivering
<1>3. QueueTyped'
    BY DEF QueueTyped
<1>4. Leased'
  <2>1. \A w \in Workers, d \in Deliveries : Holds(w, d) => row'[d].status = "processing" /\ row'[d].lease
      BY DEF Leased
  <2> QED BY <1>1, <2>1 DEF Leased
<1>5. AcceptedOnce' /\ FailuresTrue'
    BY <1>2 DEF AcceptedOnce, FailuresTrue
<1>6. Budget'
  <2> SUFFICES ASSUME NEW d \in Deliveries
               PROVE  /\ accepted[d] + ownFailures[d] <= row[d].attempts + faults
                      /\ \/ accepted[d] + ownFailures[d] + 1 <= row[d].attempts + faults
                         \/ row'[d].status \in {"sent", "failed"}
                         \/ row'[d].status \in {"queued", "pending"} /\ row[d].attempts < MaxAttempts
                         \/ Delivering(d, {"sent", "failed"})
      BY <1>2 DEF Budget
  <2>1. row[d].status = "queued" => row[d].attempts < MaxAttempts \/ accepted[d] + ownFailures[d] + 1 <= row[d].attempts + faults
                                    \/ Delivering(d, {"sent", "failed"})
      BY DEF Budget
  <2> QED BY <2>1 DEF Budget
<1> QED BY <1>3, <1>4, <1>5, <1>6

LEMMA TimeKeeps ==
    ASSUME DeliveryInv, ~SlowBatches, NEW d \in Deliveries,
           QueueNotification(d) \/ LeaseExpires(d) \/ BackoffElapses(d)
    PROVE  DeliveryInv'
<1> DEFINE Row == [status : Status, attempts : 0 .. MaxAttempts, due : BOOLEAN, lease : BOOLEAN, payload : BOOLEAN]
<1>1. row \in [Deliveries -> Row] /\ row[d] \in Row
    BY DEF DeliveryInv, QueueTyped
<1>2. UNCHANGED <<accepted, ownFailures, todo, doing, faults>>
    BY DEF QueueNotification, LeaseExpires, BackoffElapses, work
<1>3. PICK y \in Row :
        /\ row' = [row EXCEPT ![d] = y] /\ y.attempts = row[d].attempts
        /\ y.status = row[d].status \/ (row[d].status = "queued" /\ y.status = "pending")
        /\ y.lease = row[d].lease \/ \A w \in Workers : ~Holds(w, d)
  <2>1. CASE QueueNotification(d)
    <3> DEFINE q == [row[d] EXCEPT !.status = "pending", !.due = TRUE]
    <3>1. q \in Row /\ q.attempts = row[d].attempts /\ q.status = "pending" /\ q.lease = row[d].lease
        BY <1>1 DEF Status
    <3>2. row' = [row EXCEPT ![d] = q] /\ row[d].status = "queued"
        BY <1>1, <2>1 DEF QueueNotification
    <3> HIDE DEF q, Row
    <3> QED BY <3>1, <3>2
  <2>2. CASE LeaseExpires(d)
    <3> DEFINE q == [row[d] EXCEPT !.lease = FALSE]
    <3>1. q \in Row /\ q.attempts = row[d].attempts /\ q.status = row[d].status
        BY <1>1
    <3>2. row' = [row EXCEPT ![d] = q] /\ \A w \in Workers : ~Holds(w, d)
        BY <1>1, <2>2 DEF LeaseExpires
    <3> HIDE DEF q, Row
    <3> QED BY <3>1, <3>2
  <2>3. CASE BackoffElapses(d)
    <3> DEFINE q == [row[d] EXCEPT !.due = TRUE]
    <3>1. q \in Row /\ q.attempts = row[d].attempts /\ q.status = row[d].status /\ q.lease = row[d].lease
        BY <1>1
    <3>2. row' = [row EXCEPT ![d] = q]
        BY <1>1, <2>3 DEF BackoffElapses
    <3> HIDE DEF q, Row
    <3> QED BY <3>1, <3>2
  <2> QED BY <2>1, <2>2, <2>3
<1>4. /\ row' \in [Deliveries -> Row] /\ row'[d] = y
      /\ \A c \in Deliveries : c # d => row'[c] = row[c]
  <2> HIDE DEF Row
  <2> QED BY <1>1, <1>3
<1>5. \A c \in Deliveries :
        /\ row'[c].attempts = row[c].attempts
        /\ row'[c].status = row[c].status \/ (row[c].status = "queued" /\ row'[c].status = "pending")
        /\ row'[c].lease = row[c].lease \/ \A w \in Workers : ~Holds(w, c)
  <2> HIDE DEF Row
  <2> QED BY <1>3, <1>4
<1> QED BY <1>2, <1>4, <1>5, RowKeeps

(* Claiming: the rows taken are in nobody's hands, and each gains the        *)
(* attempt it may use.                                                      *)
LEMMA ClaimKeeps ==
    ASSUME DeliveryInv, NEW w \in Workers, DeliverPending(w)
    PROVE  DeliveryInv'
<1> USE DEF DeliveryInv
<1> DEFINE claimed == {d \in Deliveries : Claimable(d)}
           Row == [status : Status, attempts : 0 .. MaxAttempts, due : BOOLEAN, lease : BOOLEAN, payload : BOOLEAN]
<1>1. /\ todo[w] = {} /\ doing[w] = Nobody
      /\ row' = [d \in Deliveries |-> IF d \in claimed
                  THEN [row[d] EXCEPT !.status = "processing", !.lease = TRUE, !.attempts = Attempt(@)]
                  ELSE row[d]]
      /\ todo' = [todo EXCEPT ![w] = {<<d, Returned(d)>> : d \in claimed}]
      /\ UNCHANGED <<accepted, ownFailures, doing, faults>>
    BY DEF DeliverPending
<1>2. \A d \in claimed : d \in Deliveries /\ row[d].status \in {"pending", "processing"}
                         /\ \A v \in Workers : ~Holds(v, d)
    BY DEF Claimable, Leased
<1>3. \A d \in Deliveries : row[d] \in Row /\ row[d].attempts \in 0 .. MaxAttempts
    BY DEF QueueTyped
<1>4. \A n \in 0 .. MaxAttempts : Attempt(n) \in 1 .. MaxAttempts /\ n <= Attempt(n) /\ (n < MaxAttempts => Attempt(n) = n + 1)
    BY Bounds DEF Attempt
<1>5. ASSUME NEW d \in claimed
      PROVE  /\ row'[d] \in Row /\ row'[d].status = "processing" /\ row'[d].lease
             /\ row'[d].attempts = Attempt(row[d].attempts)
  <2>1. row'[d] = [row[d] EXCEPT !.status = "processing", !.lease = TRUE, !.attempts = Attempt(row[d].attempts)]
      BY <1>1, <1>2, <1>3, <1>5
  <2>2. row[d] \in Row /\ Attempt(row[d].attempts) \in 0 .. MaxAttempts
      BY <1>2, <1>3, <1>4, Bounds
  <2> QED BY <2>1, <2>2 DEF Status
<1>6. ASSUME NEW d \in Deliveries, d \notin claimed PROVE row'[d] = row[d]
    BY <1>1, <1>6
<1> HIDE DEF Row, claimed
<1>7. row' \in [Deliveries -> Row]
  <2>1. row' = [d \in Deliveries |-> row'[d]]
      BY <1>1
  <2>2. \A d \in Deliveries : row'[d] \in Row
      BY <1>3, <1>5, <1>6
  <2> QED BY <2>1, <2>2
<1>8. /\ \A d, n : <<d, n>> \in todo'[w] <=> d \in claimed /\ n = Attempt(row[d].attempts)
      /\ \A v \in Workers : v # w => todo'[v] = todo[v]
  <2>1. todo'[w] = {<<d, Returned(d)>> : d \in claimed}
      BY <1>1 DEF QueueTyped
  <2>2. \A d, n : <<d, n>> \in todo'[w] <=> d \in claimed /\ n = Attempt(row[d].attempts)
      BY <2>1 DEF Returned
  <2> QED BY <1>1, <2>2 DEF QueueTyped
<1>9. todo' \in [Workers -> SUBSET (Deliveries \X (1 .. MaxAttempts))]
  <2>1. {<<d, Returned(d)>> : d \in claimed} \in SUBSET (Deliveries \X (1 .. MaxAttempts))
      BY <1>2, <1>3, <1>4 DEF Returned
  <2> QED BY <1>1, <2>1 DEF QueueTyped
<1>10. QueueTyped'
    BY <1>1, <1>7, <1>9 DEF QueueTyped, Row
<1>11. \A v, c : Handling(v, c)' <=> Handling(v, c)
    BY <1>1 DEF Handling
<1>12. \A c, S : Delivering(c, S)' <=> Delivering(c, S)
    BY <1>1, <1>11 DEF Delivering
<1>13. \A v \in Workers, c \in Deliveries : Holds(v, c)' <=> Holds(v, c) \/ (v = w /\ c \in claimed)
  <2> SUFFICES ASSUME NEW v \in Workers, NEW c \in Deliveries
               PROVE  Holds(v, c)' <=> Holds(v, c) \/ (v = w /\ c \in claimed)
      OBVIOUS
  <2>1. CASE v # w
      BY <1>1, <1>8, <2>1 DEF Holds
  <2>2. CASE v = w
      BY <1>1, <1>2, <1>3, <1>4, <1>8, <2>2 DEF Holds
  <2> QED BY <2>1, <2>2
<1>14. Leased'
  <2> SUFFICES ASSUME NEW v \in Workers, NEW c \in Deliveries
               PROVE  /\ Holds(v, c)' => /\ row'[c].status = "processing" /\ row'[c].lease
                                         /\ \A u \in Workers : Holds(u, c)' => u = v
                      /\ \A m \in 1 .. MaxAttempts : <<c, m>> \in todo'[v] =>
                            m = row'[c].attempts /\ ~Handling(v, c)'
                      /\ Handling(v, c)' => doing'[v].attempts = row'[c].attempts
      BY DEF Leased
  <2>1. CASE c \in claimed
    <3>1. ~Handling(v, c) /\ \A u \in Workers : Holds(u, c)' <=> u = w
        BY <1>2, <1>13, <2>1 DEF Handling, Holds
    <3>2. \A m \in 1 .. MaxAttempts : <<c, m>> \in todo'[v] => m = row'[c].attempts
        BY <1>2, <1>5, <1>8, <2>1 DEF Holds
    <3> QED BY <1>5, <1>11, <2>1, <3>1, <3>2
  <2>2. CASE c \notin claimed
    <3>1. row'[c] = row[c] /\ \A u \in Workers : Holds(u, c)' <=> Holds(u, c)
        BY <1>6, <1>13, <2>2
    <3>2. \A m : <<c, m>> \in todo'[v] => <<c, m>> \in todo[v]
        BY <1>8, <2>2
    <3>3. Holds(v, c) => row[c].status = "processing" /\ row[c].lease /\ \A u \in Workers : Holds(u, c) => u = v
        BY DEF Leased
    <3>4. \A m \in 1 .. MaxAttempts : <<c, m>> \in todo[v] => m = row[c].attempts /\ ~Handling(v, c)
        BY DEF Leased
    <3>5. Handling(v, c) => doing[v].attempts = row[c].attempts
        BY DEF Leased
    <3> QED BY <1>1, <1>11, <3>1, <3>2, <3>3, <3>4, <3>5
  <2> QED BY <2>1, <2>2
<1>15. \A S : \A d \in claimed : ~Delivering(d, S)
    BY <1>2 DEF Delivering, Handling, Holds
<1>16. AcceptedOnce'
    BY <1>1, <1>2, <1>6, <1>12, <1>15 DEF AcceptedOnce
<1>17. FailuresTrue'
    BY <1>1, <1>5, <1>6, <1>12, <1>15 DEF FailuresTrue
<1>18. Budget'
  <2>1. \A d \in claimed : accepted[d] + ownFailures[d] + 1 <= row'[d].attempts + faults
    <3> SUFFICES ASSUME NEW d \in claimed PROVE accepted[d] + ownFailures[d] + 1 <= row'[d].attempts + faults
        OBVIOUS
    <3>1. /\ accepted[d] \in Nat /\ ownFailures[d] \in Nat /\ faults \in Nat /\ row[d].attempts \in 0 .. MaxAttempts
          /\ accepted[d] + ownFailures[d] <= row[d].attempts + faults
          /\ \/ accepted[d] + ownFailures[d] + 1 <= row[d].attempts + faults
             \/ row[d].attempts < MaxAttempts
        BY <1>2, <1>3, <1>15 DEF Budget, QueueTyped
    <3>2. row'[d].attempts = Attempt(row[d].attempts)
        BY <1>5
    <3> QED BY <1>4, <3>1, <3>2, Bounds
  <2>2. \A d \in claimed : accepted[d] + ownFailures[d] <= row'[d].attempts + faults
    <3> SUFFICES ASSUME NEW d \in claimed PROVE accepted[d] + ownFailures[d] <= row'[d].attempts + faults
        OBVIOUS
    <3>1. accepted[d] \in Nat /\ ownFailures[d] \in Nat /\ faults \in Nat /\ row'[d].attempts \in Nat
        BY <1>2, <1>3, <1>4, <1>5, Bounds DEF QueueTyped
    <3> QED BY <2>1, <3>1
  <2> QED BY <1>1, <1>6, <1>12, <2>1, <2>2 DEF Budget
<1> QED BY <1>10, <1>14, <1>16, <1>17, <1>18

LEMMA Untouched ==
    ASSUME DeliveryInv, NEW w \in Workers, doing[w] = Nobody,
           NEW outcome \in {"sent", "failed", "quota"}, Handle(w, outcome)
    PROVE  /\ accepted = [accepted EXCEPT ![doing'[w].d] = @ + 0]
           /\ ownFailures = [ownFailures EXCEPT ![doing'[w].d] = @ + 0]
           /\ faults = faults + 0
<1>1. PICK d \in Deliveries : doing'[w].d = d
  <2>1. PICK t \in todo[w] : doing' = [doing EXCEPT ![w] = [d |-> t[1], attempts |-> t[2], outcome |-> outcome]]
      BY DEF Handle
  <2>2. t[1] \in Deliveries /\ doing'[w].d = t[1]
      BY <2>1 DEF DeliveryInv, QueueTyped
  <2> QED BY <2>2
<1>2. accepted \in [Deliveries -> Nat] /\ ownFailures \in [Deliveries -> Nat] /\ faults \in Nat
    BY DEF DeliveryInv, QueueTyped
<1>3. \A n \in Nat : n + 0 = n
    OBVIOUS
<1>4. ASSUME NEW f \in [Deliveries -> Nat] PROVE f = [f EXCEPT ![d] = f[d] + 0]
    BY <1>3
<1> QED BY <1>1, <1>2, <1>3, <1>4

(* deliverOne, up to the outcome. *)
LEMMA OutcomeKeeps ==
    ASSUME DeliveryInv, NEW w \in Workers,
           \/ OptedOut(w) \/ ResolveFails(w) \/ Send(w) \/ AnswerLost(w)
           \/ QuotaRefuses(w) \/ SkipForQuota(w)
    PROVE  DeliveryInv'
<1> USE DEF Ready
<1>1. CASE OptedOut(w) \/ SkipForQuota(w) \/ QuotaRefuses(w)
  <2>1. PICK outcome \in {"sent", "quota"} : Handle(w, outcome)
      BY <1>1 DEF OptedOut, SkipForQuota, QuotaRefuses
  <2>2. doing[w] = Nobody /\ row' = row /\ accepted' = accepted /\ ownFailures' = ownFailures /\ faults' = faults
      BY <1>1 DEF OptedOut, SkipForQuota, QuotaRefuses
  <2>3. /\ accepted' = [accepted EXCEPT ![doing'[w].d] = @ + 0]
        /\ ownFailures' = [ownFailures EXCEPT ![doing'[w].d] = @ + 0]
        /\ faults' = faults + 0
      BY <2>1, <2>2, Untouched
  <2> QED BY <2>1, <2>2, <2>3, HandleKeeps
<1>2. CASE ResolveFails(w) \/ (Send(w) /\ ownFailures' # ownFailures)
  <2>1. /\ Handle(w, "failed") /\ ownFailures' = [ownFailures EXCEPT ![doing'[w].d] = @ + 1]
        /\ doing[w] = Nobody /\ row' = row /\ accepted' = accepted /\ faults' = faults
      BY <1>2 DEF ResolveFails, Send
  <2>2. accepted' = [accepted EXCEPT ![doing'[w].d] = @ + 0] /\ faults' = faults + 0
      BY <2>1, Untouched
  <2> QED BY <2>1, <2>2, HandleKeeps
<1>3. CASE Send(w) /\ ownFailures' = ownFailures
  <2>1. CASE Handle(w, "sent") /\ accepted' = [accepted EXCEPT ![doing'[w].d] = @ + 1]
    <3>1. doing[w] = Nobody /\ row' = row /\ faults' = faults
        BY <1>3 DEF Send
    <3>2. ownFailures' = [ownFailures EXCEPT ![doing'[w].d] = @ + 0] /\ faults' = faults + 0
        BY <1>3, <2>1, <3>1, Untouched
    <3> QED BY <2>1, <3>1, <3>2, HandleKeeps
  <2>2. CASE Handle(w, "failed") /\ ownFailures' = [ownFailures EXCEPT ![doing'[w].d] = @ + 1] /\ accepted' = accepted
    <3>1. doing[w] = Nobody /\ row' = row /\ faults' = faults
        BY <1>3 DEF Send
    <3>2. accepted' = [accepted EXCEPT ![doing'[w].d] = @ + 0] /\ faults' = faults + 0
        BY <2>2, <3>1, Untouched
    <3> QED BY <2>2, <3>1, <3>2, HandleKeeps
  <2> QED BY <1>3, <2>1, <2>2 DEF Send
<1>4. CASE AnswerLost(w)
  <2>1. /\ Handle(w, "failed") /\ ownFailures' = [ownFailures EXCEPT ![doing'[w].d] = @ + 1]
        /\ accepted' = [accepted EXCEPT ![doing'[w].d] = @ + 1] /\ faults' = faults + 1
        /\ doing[w] = Nobody /\ row' = row
      BY <1>4 DEF AnswerLost
  <2> QED BY <2>1, HandleKeeps
<1> QED BY <1>1, <1>2, <1>3, <1>4

LEMMA DeliveryNext ==
    ASSUME ~SlowBatches
    PROVE  DeliveryInv /\ [Next]_vars => DeliveryInv'
<1> SUFFICES ASSUME DeliveryInv, [Next]_vars PROVE DeliveryInv'
    OBVIOUS
<1>1. ASSUME NEW d \in Deliveries, QueueNotification(d) \/ LeaseExpires(d) \/ BackoffElapses(d)
      PROVE  DeliveryInv'
    BY <1>1, TimeKeeps
<1>2. CASE WindowRolls \/ UNCHANGED vars
  <2>1. UNCHANGED <<row, accepted, ownFailures, todo, doing, faults>>
      BY <1>2 DEF WindowRolls, vars, work
  <2> QED BY <2>1, RowKeeps DEF DeliveryInv, QueueTyped
<1>3. ASSUME NEW w \in Workers, DeliverPending(w) PROVE DeliveryInv'
    BY <1>3, ClaimKeeps
<1>4. ASSUME NEW w \in Workers, DeliverOne(w) \/ AnswerLost(w) PROVE DeliveryInv'
    BY <1>4, OutcomeKeeps, ResolveKeeps DEF DeliverOne
<1>5. ASSUME NEW w \in Workers, PassEnds(w) PROVE DeliveryInv'
    BY <1>5, PassEndsKeeps
<1> QED BY <1>1, <1>2, <1>3, <1>4, <1>5 DEF Next

LEMMA DeliveryAlways ==
    ASSUME ~SlowBatches
    PROVE  Spec => []DeliveryInv
<1>1. DeliveryInv /\ [Next]_vars => DeliveryInv'
    BY DeliveryNext
<1> QED BY DeliveryInit, <1>1, PTL DEF Spec
-----------------------------------------------------------------------------
(* While no worker outlives its lease, the provider accepts an e-mail at     *)
(* most once, and once more for every crash, failed statement or lost answer *)
(* (ClaimNotifications, deliverOne).                                        *)
THEOREM NobodyMailedTwice ==
    ASSUME ~SlowBatches
    PROVE  Spec => []NoDuplicates
<1>1. DeliveryInv => NoDuplicates
    BY DEF DeliveryInv, AcceptedOnce, NoDuplicates
<1>2. Spec => []DeliveryInv
    BY DeliveryAlways
<1> QED BY <1>1, <1>2, PTL

(* While no worker outlives its lease, a delivery given up on really failed  *)
(* and was not sent unless a fault hid that, and it is tried at most         *)
(* MaxAttempts times, and once more for every fault (deliverOne).           *)
THEOREM AttemptsCounted ==
    ASSUME ~SlowBatches
    PROVE  Spec => []AttemptsTrue
<1>1. DeliveryInv => TriesBounded
  <2> SUFFICES ASSUME DeliveryInv, NEW d \in Deliveries
               PROVE  accepted[d] + ownFailures[d] <= MaxAttempts + faults
      BY DEF TriesBounded
  <2>1. /\ accepted[d] \in Nat /\ ownFailures[d] \in Nat /\ faults \in Nat /\ row[d].attempts \in 0 .. MaxAttempts
        /\ accepted[d] + ownFailures[d] <= row[d].attempts + faults
      BY DEF DeliveryInv, QueueTyped, Budget
  <2> QED BY <2>1, Bounds
<1>2. DeliveryInv => OutcomeTrue
  <2> SUFFICES ASSUME DeliveryInv, NEW d \in Deliveries, row[d].status = "failed"
               PROVE  ownFailures[d] > 0 /\ accepted[d] <= faults
      BY DEF OutcomeTrue
  <2>1. \A w \in Workers : ~Holds(w, d)
      BY DEF DeliveryInv, Leased
  <2>2. ~Delivering(d, {"sent"})
      BY <2>1 DEF Delivering, Handling, Holds
  <2> QED BY <2>2 DEF DeliveryInv, FailuresTrue, AcceptedOnce
<1>3. Spec => []DeliveryInv
    BY DeliveryAlways
<1> QED BY <1>1, <1>2, <1>3, PTL DEF AttemptsTrue

(* While no worker outlives its lease, no step puts a delivery recorded as   *)
(* sent or failed back on the queue or counts another attempt on it, though  *)
(* the marks compare nothing but the id (MarkNotificationSent, -Retry,       *)
(* -DeadLettered).                                                          *)
THEOREM ResolvedStays ==
    ASSUME ~SlowBatches
    PROVE  Spec => ResolvedIsFinal
<1> DEFINE Stays == \A d \in Deliveries : row[d].status \in {"sent", "failed"} =>
                       /\ row'[d].status = row[d].status
                       /\ row'[d].attempts = row[d].attempts
<1>1. DeliveryInv /\ [Next]_vars => [Stays]_vars
  <2> SUFFICES ASSUME DeliveryInv, Next, NEW d \in Deliveries, row[d].status \in {"sent", "failed"}
               PROVE  row'[d].status = row[d].status /\ row'[d].attempts = row[d].attempts
      OBVIOUS
  <2>1. /\ row \in [Deliveries -> [status : Status, attempts : 0 .. MaxAttempts,
                                   due : BOOLEAN, lease : BOOLEAN, payload : BOOLEAN]]
        /\ \A w \in Workers : ~Holds(w, d)
      BY DEF DeliveryInv, QueueTyped, Leased
  <2>2. ASSUME NEW c \in Deliveries, QueueNotification(c) \/ LeaseExpires(c) \/ BackoffElapses(c)
        PROVE  row'[d].status = row[d].status /\ row'[d].attempts = row[d].attempts
      BY <2>1, <2>2 DEF QueueNotification, LeaseExpires, BackoffElapses
  <2>3. ASSUME NEW w \in Workers, DeliverPending(w) PROVE row'[d] = row[d]
      BY <2>3 DEF DeliverPending, Claimable
  <2>4. ASSUME NEW w \in Workers, Resolve(w) PROVE row'[d] = row[d]
    <3>1. doing[w] # Nobody /\ Mark(w) /\ doing[w].d # d
        BY <2>1, <2>4 DEF Resolve, Holds
    <3> QED BY <3>1, MarkRow
  <2>5. ASSUME row' = row PROVE row'[d] = row[d]
      BY <2>5
  <2>6. \/ \E c \in Deliveries : QueueNotification(c) \/ LeaseExpires(c) \/ BackoffElapses(c)
        \/ \E w \in Workers : DeliverPending(w) \/ Resolve(w)
        \/ row' = row
      BY DEF Next, DeliverOne, WindowRolls, OptedOut, ResolveFails, Send, AnswerLost,
             QuotaRefuses, SkipForQuota, PassEnds
  <2> QED BY <2>2, <2>3, <2>4, <2>5, <2>6
<1>2. Spec => []DeliveryInv
    BY DeliveryAlways
<1> QED BY <1>1, <1>2, PTL DEF Spec, ResolvedIsFinal
=============================================================================
