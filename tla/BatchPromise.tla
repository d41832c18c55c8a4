---------------------------- MODULE BatchPromise ----------------------------
(***************************************************************************)
(* What a caller of a batch processor relies on: each item asked for has   *)
(* one outcome and keeps it, and process() returns when all have one, or   *)
(* late, with items left out.                                              *)
(***************************************************************************)
CONSTANT Items

VARIABLES
  outcome,  \* outcome[i]: "unasked", "none" so far, "ok", "bad" or "lost"
  late,     \* the batch has run out of time
  over      \* process() has returned

Init ==
  /\ outcome \in [Items -> {"unasked", "none"}]
  /\ late = FALSE /\ over = FALSE

Settle(i) ==
  /\ ~over /\ outcome[i] = "none"
  /\ \E how \in {"ok", "bad", "lost"} :
       /\ how = "lost" => late
       /\ outcome' = [outcome EXCEPT ![i] = how]
  /\ UNCHANGED <<late, over>>

Expire == ~over /\ late' = TRUE /\ UNCHANGED <<outcome, over>>

Return ==
  /\ late \/ \A i \in Items : outcome[i] # "none"
  /\ over' = TRUE
  /\ UNCHANGED <<outcome, late>>

Next == Expire \/ Return \/ \E i \in Items : Settle(i)

Spec == Init /\ [][Next]_<<outcome, late, over>>
=============================================================================
