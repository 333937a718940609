----------------------------- MODULE RateLimit -----------------------------
(***************************************************************************)
(* The counters of _check_rate_limit (auth/router.py) in Redis: one per    *)
(* endpoint and client address, with a time to live.  Redis outlives the   *)
(* service.                                                                *)
(***************************************************************************)
EXTENDS Integers

CONSTANTS
    Keys,         \* lm:rate:{endpoint}:{ip_hash}
    MaxAttempts,  \* max_attempts
    Window        \* window_seconds, in ticks

ASSUME LimitAssumption == MaxAttempts \in Nat \ {0} /\ Window \in Nat \ {0}

VARIABLES
    count,     \* value of the key, 0 if there is none
    ttl,       \* ticks it has left, 0 if it does not expire
    admitted   \* history: requests let through in each of the last Window ticks

limitVars == <<count, ttl, admitted>>

LimitTypeOK ==
    /\ count \in [Keys -> 0..(MaxAttempts + 1)]
    /\ ttl \in [Keys -> 0..Window]
    /\ \A k \in Keys : count[k] = 0 => ttl[k] = 0
    /\ admitted \in [Keys -> [1..Window -> Nat]]

LimitInit ==
    /\ count = [k \in Keys |-> 0]
    /\ ttl = [k \in Keys |-> 0]
    /\ admitted = [k \in Keys |-> [t \in 1..Window |-> 0]]

\* Mutant: as many as the limit are too many, and one more is not.
Exceeds_OneLate(n) == n > MaxAttempts + 1

Exceeds(n) == n > MaxAttempts

\* Mutant: the second request sets the time to live.
IsFirst_Second(n) == n = 2

IsFirst(n) == n = 1

\* INCR.  Values above the limit are not told apart.
Plus(n, by) == IF n + by > MaxAttempts THEN MaxAttempts + 1 ELSE n + by

Incr(k, by) ==
    LET n == Plus(count[k], by)
    IN /\ count' = [count EXCEPT ![k] = n]
       /\ admitted' = IF Exceeds(n) THEN admitted
                      ELSE [admitted EXCEPT ![k][1] = @ + 1]
       /\ UNCHANGED ttl

\* EXPIRE does nothing if the key is gone.
Expire(k) ==
    /\ ttl' = IF count[k] > 0 THEN [ttl EXCEPT ![k] = Window] ELSE ttl
    /\ UNCHANGED <<count, admitted>>

Elapse ==
    /\ count' = [k \in Keys |-> IF ttl[k] = 1 THEN 0 ELSE count[k]]
    /\ ttl' = [k \in Keys |-> IF ttl[k] > 0 THEN ttl[k] - 1 ELSE 0]
    /\ admitted' = [k \in Keys |-> [t \in 1..Window |-> IF t = 1 THEN 0 ELSE admitted[k][t - 1]]]
=============================================================================
