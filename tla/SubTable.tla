------------------------------ MODULE SubTable ------------------------------
(***************************************************************************)
(* The rows of the `subscriptions` table and the statements that rewrite   *)
(* them.  A table is a function from the ids of its live rows to rows; a   *)
(* statement of database/repo/subs.py is an operator from tables to        *)
(* tables, and SubPool.tla says which process runs which statement when.   *)
(*                                                                         *)
(* Kept of a row: its key, region and speed, the active flag, the death    *)
(* counter and the stability streak.  Latency, AI and ads flags and the    *)
(* ru_* columns follow the same writes and decide nothing here.            *)
(***************************************************************************)
EXTENDS Integers, FiniteSets, Functions

CONSTANTS
  Keys,             \* vless_key texts
  ServerOf,         \* the server of a key: the host _SERVER_ADDR_RE finds, in
                    \* lower case ...
  HostOf,           \* ... and the host as the key spells it
  NoServer,         \* both, for a key without an address
  Regions,          \* region names
  Unknown,          \* those that match '%unk%' or are empty
  MaxSpeed,         \* speeds are levels 0..MaxSpeed, _MIN_ACTIVE_SPEED_MBPS is 1
  MaxPerRegion,     \* config.MAX_CONFIGS_PER_REGION
  DeactivateDeaths, \* _DEACTIVATE_DEATH_COUNT
  PurgeDeaths       \* the max_deaths every caller passes to cleanup_dead_subs

ASSUME SubTableAssumption ==
  /\ ServerOf = [k \in Keys |-> ServerOf[k]]
  /\ HostOf = [k \in Keys |-> HostOf[k]]
  /\ \A k, l \in Keys : HostOf[l] = ServerOf[k] => ServerOf[l] = ServerOf[k]
  /\ Unknown \subseteq Regions
  /\ MaxSpeed \in Nat \ {0}
  /\ MaxPerRegion \in Nat \ {0}
  /\ DeactivateDeaths \in Nat \ {0}
  /\ PurgeDeaths \in Nat
  /\ DeactivateDeaths <= PurgeDeaths

Ids == Nat \ {0}
Speeds == 0..MaxSpeed

Row == [key: Keys, region: Regions, speed: Speeds,
        active: BOOLEAN, death: Nat, streak: Nat]

IsTable(t) == /\ DOMAIN t \subseteq Ids
              /\ t \in [DOMAIN t -> Row]

NewRow(k, r, s) == [key |-> k, region |-> r, speed |-> s,
                    active |-> TRUE, death |-> 0, streak |-> 0]

KeysOf(t) == {t[i].key : i \in DOMAIN t}
InRegion(t, r) == {i \in DOMAIN t : t[i].region = r}
Without(t, S) == Restrict(t, DOMAIN t \ S)
AddRow(t, i, row) == [j \in DOMAIN t \cup {i} |-> IF j = i THEN row ELSE t[j]]
-----------------------------------------------------------------------------
(* Verdicts of a check, as the update dictionaries carry them. *)
Verdicts == [status: {"alive"}, speed: Speeds \ {0}]
              \cup [status: {"dead", "sys_err"}, speed: {0}]

Revived(row, v) == [row EXCEPT !.active = TRUE, !.speed = v.speed, !.death = 0]
Struck(row) == [row EXCEPT !.active = TRUE, !.death = @ + 1]
Hidden(row) == [row EXCEPT !.active = FALSE, !.speed = 0, !.death = @ + 1]

\* Mutant: a row is hidden one dead verdict too late.
JudgedLate(row, v) ==
  IF v.status = "alive" THEN Revived(row, v)
  ELSE IF v.status = "sys_err" THEN row
  ELSE IF row.death + 1 > DeactivateDeaths THEN Hidden(row) ELSE Struck(row)

\* An alive verdict makes the row visible with a clean counter.  A dead one
\* counts; at the threshold it hides the row and takes its speed, and below
\* the threshold it sets the flag.  A system error says nothing.
Judged(row, v) ==
  IF v.status = "alive" THEN Revived(row, v)
  ELSE IF v.status = "sys_err" THEN row
  ELSE IF row.death + 1 >= DeactivateDeaths THEN Hidden(row) ELSE Struck(row)

\* One UPDATE over all the ids of the batch; ids without a row match nothing.
ApplyStatus(t, out) ==
  [i \in DOMAIN t |-> IF i \in DOMAIN out THEN Judged(t[i], out[i]) ELSE t[i]]

ApplyRegions(t, found) ==
  [i \in DOMAIN t |->
     IF i \in DOMAIN found THEN [t[i] EXCEPT !.region = found[i]] ELSE t[i]]

\* The stability task only passes its alive rows, so the "ELSE 0" arm of the
\* statement is never built.
ApplyStreak(t, S) ==
  [i \in DOMAIN t |-> IF i \in S THEN [t[i] EXCEPT !.streak = @ + 1] ELSE t[i]]

SetActive(t, i, b) ==
  [j \in DOMAIN t |-> IF j = i THEN [t[j] EXCEPT !.active = b] ELSE t[j]]

CleanupDead(t) == Without(t, {i \in DOMAIN t : t[i].death >= PurgeDeaths})
-----------------------------------------------------------------------------
(* Ranking inside a region. *)

\* Mutant: the ranking forgets the flag.
WorseThanBlind(a, b) ==
  \/ a.death > b.death
  \/ a.death = b.death /\ a.speed < b.speed

\* ORDER BY is_active, death_count DESC, speed_mbps: a goes before b when a
\* replacement is looked for, and after it in the ranking of enforce_limits.
WorseThan(a, b) ==
  \/ ~a.active /\ b.active
  \/ /\ a.active = b.active
     /\ \/ a.death > b.death
        \/ a.death = b.death /\ a.speed < b.speed

WorstIn(t, r) ==
  {i \in InRegion(t, r) : \A j \in InRegion(t, r) : ~WorseThan(t[j], t[i])}

\* What ROW_NUMBER() may leave of a region: MaxPerRegion rows (all of them if
\* there are no more), none of them worse than a row it drops.
Survivors(t, r) ==
  LET all  == InRegion(t, r)
      over == Cardinality(all) > MaxPerRegion
  IN  {S \in SUBSET all :
         /\ IF over THEN Cardinality(S) = MaxPerRegion ELSE S = all
         /\ \A i \in S, j \in all \ S : ~WorseThan(t[i], t[j])}

\* The tables enforce_limits may leave; rows of unknown regions are not capped.
Trimmed(t) ==
  {Restrict(t, K) : K \in
     {K \in SUBSET DOMAIN t :
        /\ \A i \in DOMAIN t : t[i].region \in Unknown => i \in K
        /\ \A r \in Regions \ Unknown : K \cap InRegion(t, r) \in Survivors(t, r)}}
=============================================================================
