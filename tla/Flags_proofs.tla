---------------------------- MODULE Flags_proofs ----------------------------
(***************************************************************************)
(* Proofs about the two flags that outlive the process that raised them.   *)
(* The maintenance flag, for any number of administrators, tasks and       *)
(* worker processes: it always has somebody to lower it, and a recheck     *)
(* that nothing has interfered with keeps it up.  The flag in .env that    *)
(* puts the checker behind the Russian proxy, for any number of failures:  *)
(* at rest and with nothing missed, it and the checker say what the        *)
(* monitor saw last.                                                       *)
(***************************************************************************)
EXTENDS RecheckControl, RuProxyMonitor, TLAPS

LEMMA InitType == ControlInit => ControlTypeOK
BY DEF ControlInit, ControlTypeOK

LEMMA NextType == ControlTypeOK /\ [ControlNext]_controlVars => ControlTypeOK'
<1> SUFFICES ASSUME ControlTypeOK, [ControlNext]_controlVars PROVE ControlTypeOK'
  OBVIOUS
<1> USE DEF ControlTypeOK
<1>1. ASSUME NEW a \in Admins,
             NEW pc \in {"idle", "look", "reset", "raise", "send", "answer", "undo", "lower"}
      PROVE  [press EXCEPT ![a] = pc] \in
               [Admins -> {"idle", "look", "reset", "raise", "send", "answer", "undo", "lower"}]
  OBVIOUS
<1>2. ASSUME NEW j \in Jobs, NEW pc \in {"new", "queued", "running", "closing", "gone"}
      PROVE  [job EXCEPT ![j] = pc] \in [Jobs -> {"new", "queued", "running", "closing", "gone"}]
  OBVIOUS
<1>3. ASSUME NEW a \in Admins, Press(a) PROVE ControlTypeOK'
  BY <1>3, <1>1 DEF Press, Step, Slip, If
<1>4. ASSUME NEW a \in Admins, Look(a) PROVE ControlTypeOK'
  BY <1>4, <1>1 DEF Look, Step, Slip, If
<1>5. ASSUME NEW a \in Admins, Reset(a) \/ Raise(a) \/ Answer(a) \/ Undo(a) \/ StopLower(a)
      PROVE  ControlTypeOK'
  BY <1>5, <1>1 DEF Reset, Raise, Answer, Undo, StopLower, Step, Slip, Lower, NotLowered
<1>6. ASSUME NEW a \in Admins, Send(a) PROVE ControlTypeOK'
  BY <1>6, <1>1, <1>2 DEF Send, Step, Move
<1>7. ASSUME NEW a \in Admins, StopLook(a) PROVE ControlTypeOK'
  BY <1>7, <1>1 DEF StopLook, Step, Slip, If, Unfinished, Waiting, Working
<1>8. CASE BotCrash BY <1>8 DEF BotCrash
<1>9. ASSUME NEW j \in Jobs, Begin(j) \/ Discard(j) \/ Finish(j) \/ Close(j) \/ Kill(j)
      PROVE  ControlTypeOK'
  <2>1. job' \in [Jobs -> {"new", "queued", "running", "closing", "gone"}]
    BY <1>9, <1>2 DEF Begin, Discard, Finish, Close, Kill, Gone, Move
  <2>2. flag' \in BOOLEAN /\ orphaned' \in BOOLEAN
    BY <1>9 DEF Begin, Discard, Finish, Close, Kill, Lower, NotLowered
  <2>3. TaskFrame
    BY <1>9 DEF Begin, Discard, Finish, Close, Kill
  <2> QED BY <2>1, <2>2, <2>3 DEF TaskFrame
<1>10. CASE UNCHANGED controlVars BY <1>10 DEF controlVars
<1> QED BY <1>3, <1>4, <1>5, <1>6, <1>7, <1>8, <1>9, <1>10 DEF ControlNext

\* Flag, handlers, tasks and revocations keep the shape the code gives them.
THEOREM TypeCorrect == ControlSpec => []ControlTypeOK
<1> QED BY InitType, NextType, PTL DEF ControlSpec
-----------------------------------------------------------------------------
(* Who will lower the flag.  A task counts only while it has not been told  *)
(* to stop before it began: a worker drops such a task without a finally.   *)

Owns(j) == job[j] \in {"running", "closing"} \/ (job[j] = "queued" /\ j \notin revoked)

OwnerInv ==
  /\ \A j \in revoked : job[j] # "new"
  /\ flag => \/ orphaned
             \/ \E j \in Jobs : Owns(j)
             \/ \E a \in Admins : press[a] \in {"send", "undo", "lower"}

LEMMA OwnerImplies == OwnerInv => RaisedHasOwner
BY DEF OwnerInv, Owns, RaisedHasOwner, Unfinished, Waiting, Working

LEMMA OwnerInit == ControlInit => OwnerInv
BY DEF ControlInit, OwnerInv

LEMMA OwnerNext == ControlTypeOK /\ OwnerInv /\ [ControlNext]_controlVars => OwnerInv'
<1> SUFFICES ASSUME ControlTypeOK, OwnerInv, [ControlNext]_controlVars PROVE OwnerInv'
  OBVIOUS
<1> USE DEF OwnerInv, ControlTypeOK, Owns
<1>1. ASSUME NEW a \in Admins, Press(a) \/ Look(a) PROVE OwnerInv'
  BY <1>1 DEF Press, Look, Step
<1>2. ASSUME NEW a \in Admins, Reset(a) PROVE OwnerInv'
  BY <1>2 DEF Reset, Step, Lower, NotLowered
<1>3. ASSUME NEW a \in Admins, Raise(a) PROVE OwnerInv'
  BY <1>3 DEF Raise, Step
<1>4. ASSUME NEW a \in Admins, Send(a) PROVE OwnerInv'
  <2>1. CASE \E j \in Jobs : job[j] = "new" /\ Move(j, "queued") /\ Step(a, "answer")
    <3>1. PICK j \in Jobs : job[j] = "new" /\ Move(j, "queued") BY <2>1
    <3>2. Owns(j)' BY <1>4, <3>1 DEF Send, Move
    <3>3. (\A i \in revoked : job[i] # "new")' BY <1>4, <3>1 DEF Send, Move
    <3> QED BY <3>2, <3>3
  <2>2. CASE Step(a, "undo") /\ UNCHANGED job BY <1>4, <2>2 DEF Send, Step
  <2> QED BY <1>4, <2>1, <2>2 DEF Send
<1>5. ASSUME NEW a \in Admins, Answer(a) PROVE OwnerInv'
  BY <1>5 DEF Answer, Step
<1>6. ASSUME NEW a \in Admins, Undo(a) \/ StopLower(a) PROVE OwnerInv'
  BY <1>6 DEF Undo, StopLower, Step, Lower, NotLowered
<1>7. ASSUME NEW a \in Admins, StopLook(a) PROVE OwnerInv'
  <2>1. press'[a] = "lower" BY <1>7 DEF StopLook, Step
  <2>2. (\A i \in revoked : job[i] # "new")'
    BY <1>7 DEF StopLook, Unfinished, Waiting, Working
  <2> QED BY <2>1, <2>2
<1>8. CASE BotCrash BY <1>8 DEF BotCrash
<1>9. ASSUME NEW j \in Jobs, Begin(j) \/ Discard(j) PROVE OwnerInv'
  BY <1>9 DEF Begin, Discard, Gone, Move, TaskFrame
<1>10. ASSUME NEW j \in Jobs, Finish(j) PROVE OwnerInv'
  BY <1>10 DEF Finish, Move, TaskFrame, Lower
<1>11. ASSUME NEW j \in Jobs, Close(j) \/ Kill(j) PROVE OwnerInv'
  BY <1>11 DEF Close, Kill, Gone, Move, TaskFrame, Lower, NotLowered, Working
<1>12. CASE UNCHANGED controlVars BY <1>12 DEF controlVars
<1> QED BY <1>1, <1>2, <1>3, <1>4, <1>5, <1>6, <1>7, <1>8, <1>9, <1>10, <1>11, <1>12
        DEF ControlNext

\* While the flag is up somebody has still to lower it, unless one who should
\* have is gone: however many administrators press and however tasks die.
THEOREM FlagHasOwner == ControlSpec => []RaisedHasOwner
<1>1. ControlSpec => []OwnerInv
  BY OwnerInit, OwnerNext, TypeCorrect, PTL DEF ControlSpec
<1> QED BY <1>1, OwnerImplies, PTL
-----------------------------------------------------------------------------
(* A recheck that nothing has interfered with.  Then one handler is at work  *)
(* at a time and one task is unfinished at a time: a handler that raises the *)
(* flag, or lowers it, knows that no task needs it.                          *)

QuietInv ==
  slips = {} =>
    /\ \A a, b \in Admins : press[a] # "idle" /\ press[b] # "idle" => a = b
    /\ \A i, j \in Unfinished : i = j
    /\ \A a \in Admins :
         /\ press[a] \in {"reset", "raise", "send", "undo"} => Unfinished = {}
         /\ press[a] = "send" => flag
         /\ press[a] = "lower" => Unfinished \subseteq revoked
    /\ \A j \in Jobs : job[j] \in {"queued", "running"} => flag \/ j \in revoked

LEMMA QuietImplies == QuietInv => RecheckKeepsFlag
BY DEF QuietInv, RecheckKeepsFlag

LEMMA QuietInit == ControlInit => QuietInv
BY DEF ControlInit, QuietInv, Unfinished, Waiting, Working

LEMMA QuietNext == ControlTypeOK /\ QuietInv /\ [ControlNext]_controlVars => QuietInv'
<1> SUFFICES ASSUME ControlTypeOK, QuietInv, [ControlNext]_controlVars, slips' = {}
             PROVE  QuietInv'
  BY DEF QuietInv
<1> USE DEF QuietInv, ControlTypeOK, Unfinished, Waiting, Working
<1>0. slips = {}
  <2>1. slips \subseteq slips'
    BY DEF ControlNext, controlVars, Press, Look, Reset, Raise, Send, Answer, Undo, StopLook,
           StopLower, BotCrash, Begin, Discard, Finish, Close, Kill, TaskFrame, Slip
  <2> QED BY <2>1
<1>1. ASSUME NEW a \in Admins, Press(a) PROVE QuietInv'
  <2>1. ~Others(a) /\ (~flag => Unfinished = {})
    BY <1>1 DEF Press, Slip, If
  <2> QED BY <1>0, <1>1, <2>1 DEF Press, Step, Others
<1>2. ASSUME NEW a \in Admins, Look(a) PROVE QuietInv'
  <2>1. PICK seen \in SUBSET Unfinished :
          /\ Step(a, IF seen = {} THEN "reset" ELSE "idle")
          /\ Slip(If(seen # Unfinished, "inspect"))
    BY <1>2 DEF Look
  <2>2. seen = Unfinished BY <2>1 DEF Slip, If
  <2> QED BY <1>0, <1>2, <2>1, <2>2 DEF Look, Step
<1>3. ASSUME NEW a \in Admins, Reset(a) \/ Raise(a) PROVE QuietInv'
  BY <1>0, <1>3 DEF Reset, Raise, Step, Lower, NotLowered
<1>4. ASSUME NEW a \in Admins, Send(a) PROVE QuietInv'
  <2>0. press[a] = "send" /\ flag /\ Unfinished = {} BY <1>0, <1>4 DEF Send
  <2>1. CASE \E j \in Jobs : job[j] = "new" /\ Move(j, "queued") /\ Step(a, "answer")
    <3>1. PICK j \in Jobs : Move(j, "queued") /\ Step(a, "answer") BY <2>1
    <3>2. Unfinished' = {j} BY <2>0, <3>1 DEF Move
    <3>3. flag' BY <1>4, <2>0 DEF Send
    <3> QED BY <1>0, <2>0, <3>1, <3>2, <3>3 DEF Step
  <2>2. CASE Step(a, "undo") /\ UNCHANGED job
    BY <1>0, <1>4, <2>0, <2>2 DEF Send, Step
  <2> QED BY <1>4, <2>1, <2>2 DEF Send
<1>5. ASSUME NEW a \in Admins, Answer(a) PROVE QuietInv'
  BY <1>0, <1>5 DEF Answer, Step, Slip
<1>6. ASSUME NEW a \in Admins, Undo(a) \/ StopLower(a) PROVE QuietInv'
  BY <1>0, <1>6 DEF Undo, StopLower, Step, Lower, NotLowered
<1>7. ASSUME NEW a \in Admins, StopLook(a) PROVE QuietInv'
  <2>1. PICK seen \in SUBSET Unfinished : \E told \in SUBSET seen :
          /\ revoked' = revoked \cup told
          /\ Slip(If(seen # Unfinished, "inspect") \cup If(told # seen, "revoke")
                  \cup If(Others(a), "overlap"))
    BY <1>7 DEF StopLook
  <2>2. revoked' = revoked \cup Unfinished /\ ~Others(a) BY <2>1 DEF Slip, If
  <2> QED BY <1>0, <1>7, <2>1, <2>2 DEF StopLook, Step, Others
<1>8. CASE BotCrash BY <1>0, <1>8 DEF BotCrash
<1>9. ASSUME NEW j \in Jobs, Begin(j) PROVE QuietInv'
  BY <1>0, <1>9 DEF Begin, Move, TaskFrame
<1>10. ASSUME NEW j \in Jobs, Discard(j) \/ Kill(j) PROVE QuietInv'
  BY <1>0, <1>10 DEF Discard, Kill, Gone, Move, TaskFrame
<1>11. ASSUME NEW j \in Jobs, Finish(j) \/ Close(j) PROVE QuietInv'
  <2>1. j \in Unfinished /\ Unfinished' \subseteq Unfinished
    BY <1>11 DEF Finish, Close, Gone, Move
  <2>2. \A i \in Jobs : job'[i] \notin {"queued", "running"}
    BY <1>0, <1>11, <2>1 DEF Finish, Close, Gone, Move
  <2>3. \A a \in Admins : press[a] # "send" BY <1>0, <2>1
  <2> QED BY <1>0, <1>11, <2>1, <2>2, <2>3 DEF Finish, Close, TaskFrame
<1>12. CASE UNCHANGED controlVars BY <1>0, <1>12 DEF controlVars
<1> QED BY <1>1, <1>2, <1>3, <1>4, <1>5, <1>6, <1>7, <1>8, <1>9, <1>10, <1>11, <1>12
        DEF ControlNext

\* The flag is up as long as a recheck runs that was not revoked, where presses
\* did not overlap and no answer of a worker was lost.
THEOREM RecheckIsCovered == ControlSpec => []RecheckKeepsFlag
<1>1. ControlSpec => []QuietInv
  BY QuietInit, QuietNext, TypeCorrect, PTL DEF ControlSpec
<1> QED BY <1>1, QuietImplies, PTL
-----------------------------------------------------------------------------
(* The monitor of the Russian proxy. *)

\* Whatever fails, the monitor's record keeps its shape.
THEOREM MonitorTypeCorrect == MonitorSpec => []MonitorTypeOK
<1>1. MonitorInit => MonitorTypeOK
  <2>1. 0 \in 0..MaxFaults
    BY RuProxyMonitorAssumption
  <2> QED BY <2>1, Zenon DEF MonitorInit, MonitorTypeOK
<1>2. MonitorTypeOK /\ [MonitorNext]_monitorVars => MonitorTypeOK'
  <2> SUFFICES ASSUME MonitorTypeOK, [MonitorNext]_monitorVars PROVE MonitorTypeOK'
    OBVIOUS
  <2> USE RuProxyMonitorAssumption DEF MonitorTypeOK
  <2>1. CASE Flip \/ CheckerRestart
    BY <2>1 DEF Flip, CheckerRestart
  <2>2. CASE FirstLook \/ LookAgain
    BY <2>2 DEF FirstLook, LookAgain, Seen
  <2>3. CASE WriteFlag \/ Restart \/ Reborn
    <3>1. faults' \in 0..MaxFaults
      BY <2>3 DEF WriteFlag, Restart, Reborn
    <3>2. env' \in BOOLEAN /\ missed' \in BOOLEAN
      BY <2>3, Zenon DEF WriteFlag, Restart, Reborn
    <3>3. up' \in BOOLEAN /\ chained' \in BOOLEAN
      BY <2>3 DEF WriteFlag, Restart, Reborn
    <3>4. known' \in {"none", "up", "down"} /\ doing' \in {"sleep", "write", "restart"}
      BY <2>3 DEF WriteFlag, Restart, Reborn
    <3> QED BY <3>1, <3>2, <3>3, <3>4
  <2>4. CASE UNCHANGED monitorVars
    BY <2>4 DEF monitorVars
  <2> QED BY <2>1, <2>2, <2>3, <2>4 DEF MonitorNext
<1> QED BY <1>1, <1>2, PTL DEF MonitorSpec

\* Nothing has been missed since the last edge.
InStep ==
  ~missed => /\ doing = "sleep"
             /\ known # "none" => env = (known = "up") /\ chained = env

\* The monitor acts on edges and swallows its errors.  Even so, unless a write
\* or a restart failed or the monitor was killed at the last edge, the flag
\* and the checker agree with the proxy as the monitor saw it last.
THEOREM MonitorInStep == MonitorSpec => []InStep
<1>1. MonitorInit => InStep
  BY DEF MonitorInit, InStep
<1>2. MonitorTypeOK /\ InStep /\ [MonitorNext]_monitorVars => InStep'
  <2> SUFFICES ASSUME MonitorTypeOK, InStep, [MonitorNext]_monitorVars PROVE InStep'
    OBVIOUS
  <2> USE DEF MonitorTypeOK, InStep
  <2>1. CASE Flip \/ CheckerRestart
    BY <2>1 DEF Flip, CheckerRestart
  <2>2. CASE FirstLook
    BY <2>2 DEF FirstLook, Seen
  <2>3. CASE LookAgain
    BY <2>3 DEF LookAgain, Seen
  <2>4. CASE WriteFlag \/ Restart \/ Reborn
    BY <2>4 DEF WriteFlag, Restart, Reborn
  <2>5. CASE UNCHANGED monitorVars
    BY <2>5 DEF monitorVars
  <2> QED BY <2>1, <2>2, <2>3, <2>4, <2>5 DEF MonitorNext
<1> QED BY <1>1, <1>2, MonitorTypeCorrect, PTL DEF MonitorSpec
=============================================================================
