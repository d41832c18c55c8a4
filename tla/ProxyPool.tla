----------------------------- MODULE ProxyPool -----------------------------
(***************************************************************************)
(* The pool of Russian upstream proxies of the checker service             *)
(* (utils/checker/proxy_pool.py): its list, its cursor, the proxies in     *)
(* cooldown, the health cache, and refresh(), which runs under a lock.     *)
(*                                                                         *)
(* A step is what a coroutine does between two awaits.  Time is a choice:  *)
(* a cooldown or a cache entry may end at any moment, and the age of the   *)
(* last refresh is known as far as the code tells ages apart.  A proxy     *)
(* that is cached as unhealthy is always in cooldown as well (20 seconds   *)
(* against 120, written together), so the cache is the set of the healthy. *)
(* Which country a proxy exits in is part of the answer of a probe.        *)
(***************************************************************************)
EXTENDS Integers, Sequences, FiniteSets

CONSTANTS
  Proxies,   \* what the sources may list
  Checks,    \* requests to the service
  Tasks,     \* refreshes that requests have started
  MaxPool,   \* MAX_POOL_SIZE
  Nobody     \* holds the lock when it is free

Loop == "loop"   \* refresh_proxy_pool_loop
Forcers == Tasks \cup {Loop}

ASSUME ProxyPoolAssumption ==
  /\ IsFiniteSet(Proxies) /\ Tasks # {}
  /\ MaxPool \in Nat \ {0}
  /\ Nobody \notin Checks \cup Forcers
  /\ Checks \cap Forcers = {}

VARIABLES
  proxies,  \* the pool
  cursor,   \* _cursor, modulo the length of the pool
  bad,      \* the proxies whose _bad_until lies ahead
  health,   \* the proxies cached as healthy
  age,      \* since the last refresh: "due" from 300 s on
  holder,   \* who holds the refresh lock
  asked     \* the refreshes of Tasks that have not got the lock yet

poolVars == <<proxies, cursor, bad, health, age, holder, asked>>

EmptyPool ==
  /\ proxies = <<>> /\ cursor = 0 /\ bad = {} /\ health = {}
  /\ age = "due" /\ holder = Nobody /\ asked = {}

LosePool ==
  /\ proxies' = <<>> /\ cursor' = 0 /\ bad' = {} /\ health' = {}
  /\ age' = "due" /\ holder' = Nobody /\ asked' = {}

InPool(pool) == {pool[i] : i \in 1..Len(pool)}
-----------------------------------------------------------------------------
(* _pick_candidate: the first proxy from the cursor on, all around the     *)
(* list, that is not marked.                                               *)
Slot(pool, from, k) == pool[((from + k) % Len(pool)) + 1]

\* Mutant: the scan stops at the end of the list.
OpenStepsNoWrap(pool, from, marked) ==
  {k \in 0..(Len(pool) - 1) : from + k < Len(pool) /\ Slot(pool, from, k) \notin marked}

OpenSteps(pool, from, marked) ==
  {k \in 0..(Len(pool) - 1) : Slot(pool, from, k) \notin marked}

FirstStep(pool, from, marked) ==
  CHOOSE k \in OpenSteps(pool, from, marked) :
    \A j \in OpenSteps(pool, from, marked) : k <= j

\* Mutant: the cursor runs past the end.
AfterPast(pool, from, marked) == from + FirstStep(pool, from, marked) + 1

Picked(pool, from, marked) == Slot(pool, from, FirstStep(pool, from, marked))
After(pool, from, marked) == (from + FirstStep(pool, from, marked) + 1) % Len(pool)
-----------------------------------------------------------------------------
(* refresh() *)

\* A refresh with force=True: of the service's loop, when it wakes up, or of a
\* task.  It may have waited for the lock.
Begin(r) ==
  /\ r = Loop \/ r \in asked
  /\ holder = Nobody
  /\ holder' = r /\ asked' = asked \ {r}
  /\ UNCHANGED <<proxies, cursor, bad, health, age>>

\* What may come of downloading, parsing and validating the proxies: any of them
\* may be missing from the sources or fail the probes.
Validated == SUBSET Proxies

\* The pools that a refresh makes of the proxies it has validated: shuffled
\* and cut.
Shuffles(valid) ==
  LET n == IF Cardinality(valid) < MaxPool THEN Cardinality(valid) ELSE MaxPool
  IN  {s \in [1..n -> valid] : \A i, j \in 1..n : s[i] = s[j] => i = j}

\* Nothing was downloaded or nothing validated: the previous pool is kept.
Renewed(pool) ==
  IF pool = <<>> THEN [proxies |-> proxies, cursor |-> cursor, health |-> health]
  ELSE [proxies |-> pool, cursor |-> 0, health |-> {}]

End(r) ==
  /\ holder = r /\ r \in Forcers
  /\ \E valid \in Validated : \E pool \in Shuffles(valid) :
       LET new == Renewed(pool)
       IN  proxies' = new.proxies /\ cursor' = new.cursor /\ health' = new.health
  /\ holder' = Nobody /\ age' = "recent"
  /\ UNCHANGED <<bad, asked>>
-----------------------------------------------------------------------------
(* mark_bad and the passing of time *)
Marked(p) == bad \cup {p}
Unwell(p) == health \ {p}

CooldownEnds(p) ==
  /\ p \in bad /\ bad' = bad \ {p}
  /\ UNCHANGED <<proxies, cursor, health, age, holder, asked>>

HealthExpires(p) ==
  /\ p \in health /\ health' = health \ {p}
  /\ UNCHANGED <<proxies, cursor, bad, age, holder, asked>>

Ages ==
  /\ age = "recent" /\ age' = "due"
  /\ UNCHANGED <<proxies, cursor, bad, health, holder, asked>>

PoolStep ==
  \/ Ages
  \/ \E r \in Forcers : Begin(r) \/ End(r)
  \/ \E p \in Proxies : CooldownEnds(p) \/ HealthExpires(p)
-----------------------------------------------------------------------------
PoolTypeOK ==
  /\ proxies \in Seq(Proxies)
  /\ cursor \in Nat /\ (proxies = <<>> => cursor = 0) /\ (proxies # <<>> => cursor < Len(proxies))
  /\ Len(proxies) <= MaxPool
  /\ bad \subseteq Proxies /\ health \subseteq Proxies
  /\ age \in {"recent", "due"}
  /\ holder \in Forcers \cup Checks \cup {Nobody}
  /\ asked \subseteq Tasks
=============================================================================
