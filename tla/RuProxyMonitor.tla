--------------------------- MODULE RuProxyMonitor ---------------------------
(***************************************************************************)
(* utils/ru_proxy_monitor.py: a process that looks every 30 seconds        *)
(* whether the Russian proxy answers, keeps CHECKER_USE_RU_PROXY_CHAIN in  *)
(* .env in step with it, and restarts the checker, which reads .env when   *)
(* it starts.  It acts when what it sees changes, and its writes and       *)
(* restarts swallow their errors.                                          *)
(***************************************************************************)
EXTENDS Naturals

CONSTANTS MaxFaults  \* bound: failed writes and restarts, restarts of the monitor

ASSUME RuProxyMonitorAssumption == MaxFaults \in Nat

VARIABLES
  up,      \* the proxy answers its greeting
  known,   \* proxy_was_alive: "none" until the first look
  env,     \* the flag in .env
  chained, \* the checker runs its checks through the proxy
  doing,   \* the monitor: "sleep", or what it does next about an edge
  faults,
  missed   \* history: the flag and the checker may be behind what is known

monitorVars == <<up, known, env, chained, doing, faults, missed>>

MonitorInit ==
  /\ up \in BOOLEAN /\ env \in BOOLEAN /\ chained = env
  /\ known = "none" /\ doing = "sleep"
  /\ faults = 0 /\ missed = FALSE

Seen(b) == IF b THEN "up" ELSE "down"

\* The phone connects or leaves; the checker is restarted by others.
Flip ==
  /\ up' = ~up
  /\ UNCHANGED <<known, env, chained, doing, faults, missed>>

CheckerRestart ==
  /\ chained' = env
  /\ UNCHANGED <<up, known, env, doing, faults, missed>>

\* The first look only ever switches the flag off: a proxy that is up while
\* the flag is down stays unused until it has gone and come back.
FirstLook ==
  /\ doing = "sleep" /\ known = "none"
  /\ known' = Seen(up)
  /\ doing' = IF ~up /\ env THEN "write" ELSE "sleep"
  /\ missed' = (up # env \/ chained # env)
  /\ UNCHANGED <<up, env, chained, faults>>

\* Later looks act on edges.
LookAgain ==
  /\ doing = "sleep" /\ known \notin {"none", Seen(up)}
  /\ known' = Seen(up)
  /\ doing' = IF env # up THEN "write" ELSE "sleep"
  /\ missed' = (missed \/ env # up)
  /\ UNCHANGED <<up, env, chained, faults>>

\* set_env_flag
WriteFlag ==
  /\ doing = "write"
  /\ doing' = "restart"
  /\ \/ env' = (known = "up") /\ UNCHANGED faults
     \/ faults < MaxFaults /\ faults' = faults + 1 /\ UNCHANGED env
  /\ UNCHANGED <<up, known, chained, missed>>

\* Mutant: the flag is written and the checker keeps the one it has read.
RestartNot ==
  /\ doing = "restart"
  /\ doing' = "sleep"
  /\ missed' = (env # (known = "up"))
  /\ UNCHANGED <<up, known, env, chained, faults>>

\* restart_checker
Restart ==
  /\ doing = "restart"
  /\ doing' = "sleep"
  /\ \/ chained' = env /\ missed' = (env # (known = "up")) /\ UNCHANGED faults
     \/ faults < MaxFaults /\ faults' = faults + 1 /\ UNCHANGED <<chained, missed>>
  /\ UNCHANGED <<up, known, env>>

\* The monitor is killed and started again by its process manager.
Reborn ==
  /\ faults < MaxFaults /\ faults' = faults + 1
  /\ known' = "none" /\ doing' = "sleep" /\ missed' = TRUE
  /\ UNCHANGED <<up, env, chained>>

MonitorNext == Flip \/ CheckerRestart \/ FirstLook \/ LookAgain \/ WriteFlag \/ Restart \/ Reborn

\* The monitor's loop runs on.
MonitorFair == WF_monitorVars(FirstLook \/ LookAgain \/ WriteFlag \/ Restart)

MonitorSpec == MonitorInit /\ [][MonitorNext]_monitorVars /\ MonitorFair
-----------------------------------------------------------------------------
MonitorTypeOK ==
  /\ up \in BOOLEAN /\ env \in BOOLEAN /\ chained \in BOOLEAN /\ missed \in BOOLEAN
  /\ known \in {"none", "up", "down"}
  /\ doing \in {"sleep", "write", "restart"}
  /\ faults \in 0..MaxFaults

\* Once the proxy stays as it is, the checker comes to use it or to leave it
\* alone, unless a write or a restart failed at the last edge, the monitor was
\* killed between the two, or it was started with the proxy up and the flag
\* down.
Follows == \A b \in BOOLEAN : <>[](up = b /\ ~missed) => <>[](chained = b)
=============================================================================
