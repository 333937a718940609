--------------------------- MODULE ConnectionPool ---------------------------
(***************************************************************************)
(* The pool of database connections (shared/db_utils/connection.py), which *)
(* is asyncpg's: a contract of what the service relies on.                 *)
(***************************************************************************)
EXTENDS FiniteSets, Integers

CONSTANTS
    Clients,   \* coroutines that borrow a connection
    PoolSize   \* max_size

ASSUME PoolAssumption == PoolSize \in Nat \ {0} /\ IsFiniteSet(Clients)

VARIABLES
    pool,      \* "none", "open", "closing" once close() is called, "closed"
    waiting,   \* clients in acquire()
    holders    \* clients that hold a connection

poolVars == <<pool, waiting, holders>>

\* Nobody waits for a connection while holding one.
PoolTypeOK ==
    /\ pool \in {"none", "open", "closing", "closed"}
    /\ waiting \subseteq Clients /\ holders \subseteq Clients
    /\ waiting \cap holders = {}
    /\ Cardinality(holders) <= PoolSize

PoolInit == pool = "none" /\ waiting = {} /\ holders = {}

OpenPool == pool = "none" /\ pool' = "open" /\ UNCHANGED <<waiting, holders>>

\* acquire() has no timeout of its own; it raises if the pool is being closed.
Ask(c) ==
    /\ pool = "open"
    /\ waiting' = waiting \cup {c}
    /\ UNCHANGED <<pool, holders>>

Grant(c) ==
    /\ c \in waiting
    /\ pool \in {"open", "closing"}
    /\ Cardinality(holders) < PoolSize
    /\ waiting' = waiting \ {c}
    /\ holders' = holders \cup {c}
    /\ UNCHANGED pool

\* Leaving `async with pool.acquire()', in whatever way.
Release(c) ==
    /\ waiting' = waiting \ {c}
    /\ holders' = holders \ {c}
    /\ UNCHANGED pool

BeginClose == pool = "open" /\ pool' = "closing" /\ UNCHANGED <<waiting, holders>>

\* close() waits for every connection to be released.
EndClose == pool = "closing" /\ holders = {} /\ pool' = "closed" /\ UNCHANGED <<waiting, holders>>

DropPool == pool' = "none" /\ waiting' = {} /\ holders' = {}
=============================================================================
