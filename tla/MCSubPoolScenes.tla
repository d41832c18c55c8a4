--------------------------- MODULE MCSubPoolScenes ---------------------------
(* Instances of SubPool that ask two questions of the table in one run.  A   *)
(* scene, chosen at the start, says which processes move; nothing is shared  *)
(* between the scenes of a run.                                              *)
EXTENDS MCSubPool, AddTurns

CONSTANTS a1, a2, c1, c2, s1, Scenes

VARIABLE scene

SceneInit == TurnsInit /\ scene \in Scenes

\* crowd: adders and a crawl, of keys on different servers.
\* serial: one import, of all keys.
OnlyKeys(S) ==
  /\ crawl'.links \subseteq S
  /\ \A a \in Adders : adder'[a].pc # "idle" => adder'[a].key \in S
Bans == MoveRead \/ MoveWrite \/ DeskFail \/ ClearBlacklist
Crowd == scene = "crowd"
         /\ ((\E a \in Adders : Add(a)) \/ Crawl \/ Bans \/ UnknownRead \/ UnknownWrite)
         /\ OnlyKeys({k1, k3})
Serial == scene = "serial" /\ (Add(a2) \/ Bans \/ DeleteRows)

\* verdicts: three runs judge a row that only the toggle button touches.
\* churn: one recheck, while rows come and go.
Verdictives == (\E c \in Rechecks : Recheck(c)) \/ (\E c \in Stabs : Stability(c))
Verdict == scene = "verdicts" /\ (Verdictives \/ ToggleRead \/ ToggleWrite \/ DeskFail)
Churn == scene = "churn" /\ ((\E a \in Adders : Add(a)) \/ Crawl \/ Recheck(c1) \/ Desk)
         /\ OnlyKeys({k1, k3}) /\ runs' <= 2

SceneNext == (Crowd \/ Serial \/ Verdict \/ Churn) /\ Remember /\ UNCHANGED scene

SceneSpec == SceneInit /\ [][SceneNext]_<<turnVars, scene>>
=============================================================================
