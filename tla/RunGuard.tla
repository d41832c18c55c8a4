------------------------------ MODULE RunGuard ------------------------------
(***************************************************************************)
(* What the Redis locks of tasks/ are for: a periodic task has at most one *)
(* run at a time, whoever delivers it and however its runs end.            *)
(***************************************************************************)
CONSTANTS Tasks, Runs, Nobody

VARIABLE holder   \* holder[t]: the run of task t, or Nobody

Init == holder = [t \in Tasks |-> Nobody]

Begin(t, r) == holder[t] = Nobody /\ holder' = [holder EXCEPT ![t] = r]
End(t) == holder[t] # Nobody /\ holder' = [holder EXCEPT ![t] = Nobody]

Next == \E t \in Tasks : End(t) \/ \E r \in Runs : Begin(t, r)

Spec == Init /\ [][Next]_holder
=============================================================================
