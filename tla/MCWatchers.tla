----------------------------- MODULE MCWatchers -----------------------------
(* The two loops outside Celery, which share no state, in one run: one moves *)
(* and the other rests where fairness asks nothing of it.  The names of the  *)
(* rows are interchangeable but for the garbled one, 4: it is not there, may *)
(* come anywhere in the line, or stands behind another row and may leave.    *)
EXTENDS RuProxyMonitor, RuCheck

CONSTANTS Parts

VARIABLE part

WatchersInit ==
  /\ part \in Parts
  /\ IF part = "monitor" THEN MonitorInit
     ELSE /\ up = TRUE /\ env = TRUE /\ chained = TRUE
          /\ known = "up" /\ doing = "sleep" /\ faults = 0 /\ missed = FALSE
  /\ RuInit /\ line \in {<<1, 2, 3>>, <<1, 2, 4>>}

WatchersNext ==
  /\ UNCHANGED part
  /\ \/ part = "monitor" /\ MonitorNext /\ UNCHANGED ruVars
     \/ part = "phones" /\ RuNext /\ UNCHANGED monitorVars

WatchersSpec ==
  WatchersInit /\ [][WatchersNext]_<<part, monitorVars, ruVars>> /\ MonitorFair /\ RuFair
=============================================================================
