----------------------------- MODULE RateLimit -----------------------------
(***************************************************************************)
(* The two backends of app/rate_limit.py.  The memory backend keeps the    *)
(* times of the attempts of each key and forgets those that left the       *)
(* window; the Redis backend keeps one counter for each key, which Redis   *)
(* removes a window after the first attempt.  The module has no            *)
(* specification of its own: Access composes its actions with the requests *)
(* that are limited.                                                       *)
(***************************************************************************)
EXTENDS Integers, FiniteSets

CONSTANTS
  Users,                        \* user names, in the spelling of the database
  LoginMax, LoginWindow,        \* LOGIN_MAX_ATTEMPTS, LOGIN_WINDOW_SECONDS
  ResetMax, ResetWindow,        \* RESET_MAX_ATTEMPTS, RESET_WINDOW_SECONDS
  MaxTime, MaxRestarts          \* bounds: the clock stops there, processes after the first

ASSUME RateAssumption ==
  /\ {LoginMax, LoginWindow, ResetMax, ResetWindow} \subseteq Nat \ {0}
  /\ {MaxTime, MaxRestarts} \subseteq Nat

VARIABLES
  now,        \* the clock
  backend,    \* LCCA_RATE_LIMIT_BACKEND, read when the process starts
  attempts,   \* MemoryRateLimiter._attempts: the hits remembered for each key
  count,      \* the counters in Redis
  expires,    \* when Redis removes a counter
  process,    \* history: the number of the present process
  admitted,   \* history: the hits let through since the key was cleared, by any process
  cut         \* history: the keys whose counter was never given an expiry

rateVars == <<now, backend, attempts, count, expires, process, admitted, cut>>

\* The keys of attempts from one address; addresses do not share any.
Keys == {"login", "reset"} \X Users

Limit(k)  == IF k[1] = "login" THEN LoginMax ELSE ResetMax
Window(k) == IF k[1] = "login" THEN LoginWindow ELSE ResetWindow

NoExpiry == -1

\* A hit is its time, its number among those let through, and who let it through.
HitNow(k) == [at |-> now, nr |-> Cardinality(admitted[k]) + 1, by |-> process]

Within(k, hits) == {h \in hits : now - h.at < Window(k)}

FaultyRecent(k) == {h \in attempts[k] : now - h.at < Window(k) - 1}

\* The attempts of the key that are still in its window.
Recent(k) == Within(k, attempts[k])

\* The counter of the key, absent once it has expired.
Standing(k) == IF expires[k] # NoExpiry /\ expires[k] <= now THEN 0 ELSE count[k]

\* The next hit on the key does not raise RateLimitExceeded.
Admits(k) == IF backend = "memory" THEN Cardinality(Recent(k)) < Limit(k) ELSE Standing(k) < Limit(k)

RateInit ==
  /\ now = 0
  /\ backend \in {"memory", "redis"}
  /\ attempts = [k \in Keys |-> {}]
  /\ count = [k \in Keys |-> 0]
  /\ expires = [k \in Keys |-> NoExpiry]
  /\ process = 0
  /\ admitted = [k \in Keys |-> {}]
  /\ cut = {}
------------------------------------------------------------------------------
Note(k) == admitted' = [admitted EXCEPT ![k] = IF Admits(k) THEN @ \cup {HitNow(k)} ELSE @]

MemoryHit(k) ==
  /\ backend = "memory"
  /\ attempts' = [attempts EXCEPT ![k] = IF Admits(k) THEN Recent(k) \cup {HitNow(k)} ELSE Recent(k)]
  /\ UNCHANGED <<count, expires, cut>>

\* INCR.  Further refused hits would only make the counter larger: the guard
\* is the bound on it.
Increment(k) ==
  /\ backend = "redis" /\ Standing(k) <= Limit(k)
  /\ count' = [count EXCEPT ![k] = Standing(k) + 1]
  /\ UNCHANGED attempts

FaultyRedisHit(k) ==
  /\ Increment(k)
  /\ expires' = [expires EXCEPT ![k] = IF Standing(k) = 1 THEN now + Window(k) ELSE @]
  /\ UNCHANGED cut

\* INCR, and EXPIRE if the counter is new.
RedisHit(k) ==
  /\ Increment(k)
  /\ expires' = [expires EXCEPT ![k] = IF Standing(k) = 0 THEN now + Window(k) ELSE @]
  /\ UNCHANGED cut

\* The process ends between INCR and EXPIRE of a new counter.
CutHit(k) ==
  /\ Increment(k) /\ Note(k)
  /\ Standing(k) = 0
  /\ expires' = [expires EXCEPT ![k] = NoExpiry]
  /\ cut' = cut \cup {k}
  /\ UNCHANGED <<now, backend, process>>

Hit(k) == (MemoryHit(k) \/ RedisHit(k)) /\ Note(k) /\ UNCHANGED <<now, backend, process>>

\* clear: the key is forgotten by either backend.
Clear(k) ==
  /\ attempts' = [attempts EXCEPT ![k] = {}]
  /\ count' = [count EXCEPT ![k] = 0]
  /\ expires' = [expires EXCEPT ![k] = NoExpiry]
  /\ admitted' = [admitted EXCEPT ![k] = {}]
  /\ cut' = cut \ {k}
  /\ UNCHANGED <<now, backend, process>>

\* build_rate_limiter in a new process: the memory backend starts empty, whatever
\* the processes before have let through; the counters of Redis are still there.
Rebuild ==
  /\ process < MaxRestarts
  /\ process' = process + 1
  /\ attempts' = [k \in Keys |-> {}]
  /\ UNCHANGED <<now, backend, count, expires, admitted, cut>>

Tick == now < MaxTime /\ now' = now + 1
------------------------------------------------------------------------------
HitRow == [at : 0..MaxTime, nr : Nat, by : 0..MaxRestarts]

RateTypeOK ==
  /\ now \in 0..MaxTime
  /\ backend \in {"memory", "redis"}
  /\ attempts \in [Keys -> SUBSET HitRow]
  /\ count \in [Keys -> Nat]
  /\ expires \in [Keys -> Nat \cup {NoExpiry}]
  /\ process \in 0..MaxRestarts
  /\ admitted \in [Keys -> SUBSET HitRow]
  /\ cut \subseteq Keys

\* The attempts let through in the window that ends now.
InWindow(k) == Cardinality(Within(k, admitted[k]))

\* Those of one process among them.
InWindowBy(k, p) == Cardinality({h \in Within(k, admitted[k]) : h.by = p})

\* The window slides with the memory backend, so one process never lets through
\* more than the limit in any window.  The next process knows nothing of it: a
\* window that n processes have a part in holds up to n times the limit.  Redis
\* counts for all processes, but from the first attempt on: two of its windows
\* can meet inside one, which then holds one less than twice the limit.
WindowHolds ==
  \A k \in Keys :
    IF backend = "memory" THEN \A p \in 0..process : InWindowBy(k, p) <= Limit(k)
                          ELSE InWindow(k) <= 2 * Limit(k) - 1

\* A key that is refused was let through as often as the limit says within the
\* window that ends now, so a block passes by waiting for a window; only a
\* counter that never got its expiry blocks without end.
BlocksPass == \A k \in Keys \ cut : ~Admits(k) => InWindow(k) >= Limit(k)
=============================================================================
