----------------------------- MODULE MCTaskLock -----------------------------
EXTENDS TaskLock
CONSTANTS r1, r2, r3, r4
TwoEach == [r \in Runs |-> IF r \in {r1, r2} THEN "stability" ELSE "tg_proxy"]
AllCollector == [r \in Runs |-> "collector"]
Mixed == [r \in Runs |-> IF r = r3 THEN "stability" ELSE "collector"]
\* The collector's runs print the same request.
Printed == [r \in Runs |-> IF r = r3 THEN r3 ELSE r1]
Unique == [r \in Runs |-> r]
\* Ticks of 300 seconds: 1200, 7200 and 3900; 1800 and 3600.
TtlTicks == [t \in Tasks |-> CASE t = "tg_proxy" -> 4 [] t = "user_probe" -> 24 [] OTHER -> 13]
LimitTicks == [t \in Tasks |-> IF t = "tg_proxy" THEN 6 ELSE 12]
\* Ticks of 600 seconds, the time to live of 3900 rounded up.
TtlCoarse == [t \in Tasks |-> IF t = "tg_proxy" THEN 2 ELSE 7]
LimitCoarse == [t \in Tasks |-> IF t = "tg_proxy" THEN 3 ELSE 6]
\* The same order with fewer ticks.
TtlShort == [t \in Tasks |-> 3]
LimitShort == [t \in Tasks |-> 2]

\* Two tasks in one instance, one at a time: neither looks at the other's key.
OneTask == \A r, s \in Runs : Live(r) /\ Live(s) => TaskOf[r] = TaskOf[s]
TurnsSpec == Init /\ [][Next /\ OneTask']_vars /\ Fairness
=============================================================================
