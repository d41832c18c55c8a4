---------------------------- MODULE PoolPromise ----------------------------
(***************************************************************************)
(* What everybody who keeps an id of the `subscriptions` table relies on:  *)
(* an id names one key for ever, a key has one row at a time, and a new    *)
(* key costs the pool at most one old one.                                 *)
(***************************************************************************)
EXTENDS Naturals

CONSTANT Keys

VARIABLES
  held,  \* held[i]: the key of the row with id i
  last   \* the last id that was given out

Init ==
  /\ last \in Nat
  /\ held \in [1..last -> Keys]
  /\ \A i, j \in 1..last : held[i] = held[j] => i = j

Stay(S) == [i \in S |-> held[i]]

Enter(k, stay) ==
  /\ \A i, j \in DOMAIN held \ stay : i = j
  /\ k \notin {held[i] : i \in stay}
  /\ last' = last + 1
  /\ held' = [i \in stay \cup {last + 1} |-> IF i = last + 1 THEN k ELSE held[i]]

\* An id may be spent on a key that does not get in.
Refuse == last' = last + 1 /\ UNCHANGED held

Leave(stay) == held' = Stay(stay) /\ UNCHANGED last

Next == \/ \E stay \in SUBSET DOMAIN held : Leave(stay) \/ \E k \in Keys : Enter(k, stay)
        \/ Refuse

Spec == Init /\ [][Next]_<<held, last>>
=============================================================================
