------------------------------ MODULE AddTurns ------------------------------
(***************************************************************************)
(* smart_add_subscription looks its server up, counts its region and then  *)
(* inserts, each in a statement that sees what is committed by then, and   *)
(* no constraint of the tables stands behind the two look-ups.  This       *)
(* module adds to SubPool the history of what can make them stale, and     *)
(* says that nothing else does.                                            *)
(***************************************************************************)
EXTENDS SubPool

VARIABLES
  rivals,  \* history: two adds of keys on one server were under way together
  packed   \* history: so were two adds into one known region, or a row was
           \* given another region

turnVars == <<vars, rivals, packed>>

UnderWay == {a \in Adders : adder[a].pc # "idle"}
Rivals == \E a, b \in UnderWay : a # b /\ LikeServer(adder[a].key, adder[b].key)
Packed == \E a, b \in UnderWay :
            a # b /\ adder[a].region = adder[b].region /\ adder[a].region \notin Unknown
Moved == \E i \in DOMAIN subs \cap DOMAIN subs' : subs'[i].region # subs[i].region

Remember == /\ rivals' = (rivals \/ Rivals')
            /\ packed' = (packed \/ Packed' \/ Moved)

\* The pool is in order when the processes start.
TurnsInit == Init /\ ServerUnique /\ RegionCap /\ rivals = FALSE /\ packed = FALSE
TurnsNext == Next /\ Remember
TurnsSpec == TurnsInit /\ [][TurnsNext]_turnVars
-----------------------------------------------------------------------------
\* No row repeats the server of an older one, which is what the LIKE look-up is
\* for, unless two adds of one server have overlapped.
ServerOnce == ~rivals => ServerUnique

\* No known region outgrows MAX_CONFIGS_PER_REGION, though it is counted long
\* before the insert and the row to replace may be gone by then, unless two
\* adds into one region have overlapped or rows have been moved into it.
CapKept == ~packed => RegionCap
=============================================================================
