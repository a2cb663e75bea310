------------------------------ MODULE RateLimit ------------------------------
(***************************************************************************)
(* The fixed-window limiters behind the e-mail quota and the AI limits.     *)
(* newLimiter picks one of two implementations for the whole process: the   *)
(* durable one all replicas share (ratelimit.windows, with a job that       *)
(* deletes old windows) or, without a database, a map under a mutex.        *)
(*                                                                         *)
(* Every limiter has its own keys ("email-send", "assistant:<user>",        *)
(* "intake:<user>"), so its limit and interval are functions of the key.    *)
(* Allow and CleanupExpired are single statements or critical sections and  *)
(* so single steps; which replica runs them does not matter.                *)
(***************************************************************************)
EXTENDS Integers

CONSTANTS
    Keys,
    Limit,          \* [Keys -> Nat \ {0}]: operations per window
    Interval,       \* [Keys -> Nat \ {0}]: length of a window
    Retain,         \* how long cleanupRateLimitWindows keeps a window
    MaxTime,        \* bound on the clock
    MaxCalls        \* bound on the calls of Allow for one key

ASSUME RateLimitAssumption ==
    /\ Limit \in [Keys -> Nat \ {0}]
    /\ Interval \in [Keys -> Nat \ {0}]
    /\ Retain \in Nat /\ MaxTime \in Nat /\ MaxCalls \in Nat

Time   == 0 .. MaxTime
NoTime == MaxTime + 1   \* before a key's first operation

VARIABLES
    durable,        \* whether there is a database
    now,            \* the clock
    windows,        \* ratelimit.windows: [Keys -> [Time -> count]], 0: no row
    started, count, \* the map of FixedWindow; started NoTime: no entry
    calls,          \* calls of Allow so far, per key
    opened,         \* history: when the key's last window began
    granted,        \* history: operations allowed in the window begun then
    purged          \* history: how often an open window's row was deleted

limiterVars == <<durable, now, windows, started, count, calls, opened, granted, purged>>

LimiterTypeOK ==
    /\ durable \in BOOLEAN
    /\ now \in Time
    /\ windows \in [Keys -> [Time -> Nat]]
    /\ started \in [Keys -> Time \cup {NoTime}]
    /\ count \in [Keys -> Nat]
    /\ calls \in [Keys -> 0 .. MaxCalls]
    /\ opened \in [Keys -> Time \cup {NoTime}]
    /\ granted \in [Keys -> [Time -> Nat]]
    /\ purged \in [Keys -> [Time -> Nat]]

LimiterInit ==
    /\ durable \in BOOLEAN
    /\ now = 0
    /\ windows = [k \in Keys |-> [t \in Time |-> 0]]
    /\ started = [k \in Keys |-> NoTime]
    /\ count = [k \in Keys |-> 0]
    /\ calls = [k \in Keys |-> 0]
    /\ opened = [k \in Keys |-> NoTime]
    /\ granted = [k \in Keys |-> [t \in Time |-> 0]]
    /\ purged = [k \in Keys |-> [t \in Time |-> 0]]

Called(k) == calls[k] < MaxCalls /\ calls' = [calls EXCEPT ![k] = @ + 1]

(* History: an operation is allowed in the window begun at w. *)
Grant(k, w) == /\ opened' = [opened EXCEPT ![k] = w]
               /\ granted' = [granted EXCEPT ![k][w] = @ + 1]
-----------------------------------------------------------------------------
(* The durable limiter. *)

(* Windows are aligned with the epoch. *)
WindowStart(k, t) == (t \div Interval[k]) * Interval[k]

\* Mutated form of Within: off by one.
WithinInclusive(k, n) == n <= Limit[k] + 1

Within(k, n) == n <= Limit[k]

(* insert ... on conflict do update set count = count + 1 returning count:  *)
(* a refused operation counts too.                                          *)
AllowDurable(k) ==
    LET w == WindowStart(k, now) IN
    /\ durable
    /\ Called(k)
    /\ windows' = [windows EXCEPT ![k][w] = @ + 1]
    /\ IF Within(k, windows[k][w] + 1) THEN Grant(k, w) ELSE UNCHANGED <<opened, granted>>
    /\ UNCHANGED <<durable, now, started, count, purged>>

(* Deleted is what began more than Retain ago: whose interval a window      *)
(* belongs to is not recorded, so a longer one goes while it is open.       *)
Expired(t) == t + Retain < now

CleanupExpired ==
    /\ durable
    /\ windows' = [k \in Keys |-> [t \in Time |-> IF Expired(t) THEN 0 ELSE windows[k][t]]]
    /\ purged' = [k \in Keys |-> [t \in Time |->
                     IF Expired(t) /\ windows[k][t] > 0 /\ now < t + Interval[k]
                     THEN purged[k][t] + 1 ELSE purged[k][t]]]
    /\ UNCHANGED <<durable, now, started, count, calls, opened, granted>>
-----------------------------------------------------------------------------
(* The process-local limiter.  A window begins with a key's first operation.*)
Open(k, t) == t # NoTime /\ now < t + Interval[k]

\* Mutated form of Evict: every entry goes.
EvictAll == [k \in Keys |-> NoTime]

Evict == [k \in Keys |-> IF Open(k, started[k]) THEN started[k] ELSE NoTime]

(* Every thousandth call first sweeps the closed windows; here any call may *)
(* be such a call.                                                          *)
AllowLocal(k) ==
    \E entries \in {started, Evict} :
        /\ ~durable
        /\ Called(k)
        /\ IF Open(k, entries[k])
           THEN /\ started' = entries
                /\ IF count[k] >= Limit[k]
                   THEN UNCHANGED <<count, opened, granted>>
                   ELSE /\ count' = [count EXCEPT ![k] = @ + 1]
                        /\ Grant(k, opened[k])
           ELSE /\ started' = [entries EXCEPT ![k] = now]
                /\ count' = [count EXCEPT ![k] = 1]
                /\ Grant(k, IF Open(k, opened[k]) THEN opened[k] ELSE now)
        /\ UNCHANGED <<durable, now, windows, purged>>

Tick ==
    /\ now < MaxTime
    /\ now' = now + 1
    /\ UNCHANGED <<durable, windows, started, count, calls, opened, granted, purged>>

LimiterNext == (\E k \in Keys : AllowDurable(k) \/ AllowLocal(k)) \/ CleanupExpired \/ Tick

LimiterSpec == LimiterInit /\ [][LimiterNext]_limiterVars
-----------------------------------------------------------------------------
(* A window grants its limit, and once more for each time the clean-up       *)
(* deleted its row while it was open, which never happens to an interval    *)
(* the retention covers: however calls, the clean-up and the clock          *)
(* interleave (Allow, CleanupExpired), and although the local limiter       *)
(* evicts, which "only ever forgets keys with nothing left to track".       *)
LimitKept ==
    \A k \in Keys, w \in Time :
        /\ granted[k][w] <= Limit[k] * (1 + purged[k][w])
        /\ Interval[k] <= Retain => purged[k][w] = 0
=============================================================================
