--------------------------- MODULE TaskLock_proofs ---------------------------
(***************************************************************************)
(* Proofs about the task locks, for every number of runs and every time to *)
(* live and time limit: a task whose key outlives its runs has one run at  *)
(* a time, and implements RunGuard; the collector and the stability check  *)
(* overlap only where a run could not look or was robbed; and a run whose  *)
(* token is its own gives back no key but its own.                         *)
(***************************************************************************)
EXTENDS TaskLock, TLAPS

USE DEF Tasks

RunStates == [pc: Phases, age: Nat, waited: Nat, seen: Tokens,
              exposed: BOOLEAN, late: BOOLEAN]

LEMMA IdleType == Idle \in RunStates
<1>1. Tokens # {}
  <2>1. PICK r \in Runs : TRUE BY TaskLockAssumption
  <2>2. TokenOf[r] \in Tokens BY <2>1 DEF Tokens
  <2> QED BY <2>2
<1>2. Idle.seen \in Tokens BY <1>1 DEF Idle
<1> QED BY <1>2 DEF Idle, RunStates, Phases

LEMMA NoKeyType == NoKey \in Keys /\ NoKey.left = 0
<1> DEFINE r0 == CHOOSE r \in Runs : TRUE
<1>1. r0 \in Runs BY TaskLockAssumption
<1>2. TokenOf[r0] \in Tokens BY <1>1 DEF Tokens
<1> QED BY <1>1, <1>2 DEF NoKey, Keys

\* What a step of run r may do to its own record: any state of the right type.
LEMMA StepType ==
  ASSUME TypeOK, NEW r \in Runs, Taking(r) \/ Working(r)
  PROVE  TypeOK'
<1> USE TaskLockAssumption DEF RunStates
<1>0. /\ TaskOf[r] \in Tasks
      /\ TokenOf[r] \in Tokens
      /\ lock[TaskOf[r]] \in Keys
      /\ run[r] \in RunStates
      /\ \A t \in Tasks : Ttl[t] \in Nat
  BY DEF TypeOK, Tokens
<1>1. ASSUME NEW pc \in Phases PROVE [run EXCEPT ![r].pc = pc] \in [Runs -> RunStates]
  BY <1>0 DEF TypeOK
<1>2. [run EXCEPT ![r] = Idle] \in [Runs -> RunStates]
  BY IdleType DEF TypeOK
<1>3. [lock EXCEPT ![TaskOf[r]] =
         [token |-> TokenOf[r], by |-> r, left |-> Ttl[TaskOf[r]]]] \in [Tasks -> Keys]
  BY <1>0 DEF TypeOK, Keys
<1>4. ASSUME NEW t \in Tasks PROVE [lock EXCEPT ![t].left = 0] \in [Tasks -> Keys]
  BY DEF TypeOK, Keys
<1>5. ASSUME NEW refused \in {"idle", "inspect"}, TrySet(r, refused) PROVE TypeOK'
  <2>1. CASE Free(TaskOf[r])
    BY <1>5, <2>1, <1>1, <1>3 DEF TrySet, Put, Go, TypeOK, Phases
  <2>2. CASE ~Free(TaskOf[r])
    <3>1. UNCHANGED lock /\ (Leave(r) \/ Go(r, "inspect"))
      BY <1>5, <2>2 DEF TrySet
    <3> QED BY <3>1, <1>1, <1>2 DEF Leave, Go, TypeOK, Phases
  <2> QED BY <2>1, <2>2
<1>6. CASE Start(r) BY <1>6, <1>1 DEF Start, Go, TypeOK, Phases
<1>7. CASE Acquire(r) BY <1>7, <1>5 DEF Acquire
<1>8. CASE AcquireUnanswered(r)
  BY <1>8, <1>2, <1>3 DEF AcquireUnanswered, Put, Leave, TypeOK
<1>9. CASE Inspect(r)
  <2>1. UNCHANGED lock /\ (Leave(r) \/ Go(r, "read")) BY <1>9 DEF Inspect
  <2> QED BY <2>1, <1>1, <1>2 DEF Go, Leave, TypeOK, Phases
<1>10. CASE ReadToken(r)
  <2>1. lock["collector"].token \in Tokens BY DEF TypeOK, Keys
  <2>2. [run EXCEPT ![r].pc = "delete", ![r].seen = lock["collector"].token]
          \in [Runs -> RunStates]
    BY <2>1, <1>0 DEF TypeOK, Phases
  <2> QED BY <1>10, <1>2, <2>2 DEF ReadToken, Leave, TypeOK
<1>11. ASSUME NEW t \in Tasks, NEW next \in RunStates, TakeAway(t, r, next) PROVE TypeOK'
  <2> DEFINE Next1(s) ==
               IF s = r THEN next
               ELSE IF s = lock[t].by /\ Inside(s) THEN [run[s] EXCEPT !.exposed = TRUE]
               ELSE run[s]
  <2>1. \A s \in Runs : run[s] \in RunStates /\ [run[s] EXCEPT !.exposed = TRUE] \in RunStates
    BY DEF TypeOK
  <2>2. \A s \in Runs : Next1(s) \in RunStates BY <2>1
  <2>3. run' = [s \in Runs |-> Next1(s)] BY <1>11 DEF TakeAway
  <2>4. lock' \in [Tasks -> Keys] BY <1>11, <1>4 DEF TakeAway, Drop
  <2> HIDE DEF Next1
  <2> QED BY <2>2, <2>3, <2>4 DEF TypeOK
<1>20. CASE DeleteStale(r)
  <2>1. CASE TakeAway("collector", r, [run[r] EXCEPT !.pc = "retry"])
    <3>1. [run[r] EXCEPT !.pc = "retry"] \in RunStates BY <1>0 DEF Phases
    <3> QED BY <2>1, <3>1, <1>11
  <2>2. CASE UNCHANGED lock /\ Leave(r) BY <2>2, <1>2 DEF Leave, TypeOK
  <2> QED BY <1>20, <2>1, <2>2 DEF DeleteStale
<1>12. CASE Retry(r) BY <1>12, <1>5 DEF Retry
<1>13. CASE AcquireFail(r) BY <1>13, <1>2 DEF AcquireFail, Leave, TypeOK
<1>14. CASE Look(r) BY <1>14, <1>1 DEF Look, Go, TypeOK, Phases
<1>15. CASE Poll(r)
  <2>1. [run EXCEPT ![r].pc = "working", ![r].late = ~Free("collector")]
          \in [Runs -> RunStates]
    BY <1>0 DEF TypeOK, Phases, Free
  <2> QED BY <1>15, <2>1, <1>1 DEF Poll, Go, TypeOK, Phases
<1>16. CASE LookBlind(r)
  <2>1. [run EXCEPT ![r].pc = "working", ![r].exposed = TRUE] \in [Runs -> RunStates]
    BY <1>0 DEF TypeOK, Phases
  <2> QED BY <1>16, <2>1 DEF LookBlind, TypeOK
<1>17. CASE Finish(r) BY <1>17, <1>1 DEF Finish, Go, TypeOK, Phases
<1>18. CASE Release(r)
  <2>1. CASE TakeAway(TaskOf[r], r, Idle)
    <3>1. Idle \in RunStates BY IdleType
    <3> QED BY <2>1, <3>1, <1>0, <1>11
  <2>2. CASE UNCHANGED lock /\ Leave(r) BY <2>2, <1>2 DEF Leave, TypeOK
  <2> QED BY <1>18, <2>1, <2>2 DEF Release
<1>19. CASE Kill(r) BY <1>19, <1>2 DEF Kill, Leave, TypeOK
<1> QED
  BY <1>6, <1>7, <1>8, <1>9, <1>10, <1>12, <1>13, <1>14, <1>15, <1>16, <1>17,
     <1>18, <1>19, <1>20 DEF Taking, Working

LEMMA TickType == TypeOK /\ Tick => TypeOK'
<1> SUFFICES ASSUME TypeOK, Tick PROVE TypeOK' OBVIOUS
<1>1. lock' \in [Tasks -> Keys]
  <2>1. \A t \in Tasks :
          [lock[t] EXCEPT !.left = IF @ > 0 THEN @ - 1 ELSE 0] \in Keys
    BY DEF TypeOK, Keys
  <2> QED BY <2>1 DEF Tick
<1>2. run' \in [Runs -> RunStates]
  <2>1. \A r \in Runs :
          [run[r] EXCEPT !.age = IF Live(r) THEN @ + 1 ELSE 0,
             !.waited = IF run[r].pc = "waiting" /\ @ < WaitMax THEN @ + 1 ELSE @]
            \in RunStates
    <3> SUFFICES ASSUME NEW r \in Runs
                 PROVE  [run[r] EXCEPT !.age = IF Live(r) THEN @ + 1 ELSE 0,
             !.waited = IF run[r].pc = "waiting" /\ @ < WaitMax THEN @ + 1 ELSE @]
                          \in RunStates
      OBVIOUS
    <3>1. run[r] \in RunStates BY DEF TypeOK, RunStates
    <3>2. (IF Live(r) THEN run[r].age + 1 ELSE 0) \in Nat BY <3>1 DEF RunStates
    <3>3. (IF run[r].pc = "waiting" /\ run[r].waited < WaitMax
           THEN run[r].waited + 1 ELSE run[r].waited) \in Nat
      BY <3>1 DEF RunStates
    <3> HIDE DEF Live
    <3> QED BY <3>1, <3>2, <3>3 DEF RunStates
  <2> QED BY <2>1 DEF Tick
<1> QED BY <1>1, <1>2 DEF TypeOK, RunStates

LEMMA InitType == Init => TypeOK
BY IdleType, NoKeyType DEF Init, TypeOK, RunStates

LEMMA NextType == TypeOK /\ [Next]_vars => TypeOK'
<1>1. TypeOK /\ UNCHANGED vars => TypeOK' BY DEF TypeOK, vars
<1> QED BY <1>1, StepType, TickType DEF Next

\* The keys and the runs keep their shape (the type invariant of the module).
THEOREM TypeCorrect == Spec => []TypeOK
BY InitType, NextType, PTL DEF Spec
-----------------------------------------------------------------------------
(* A run inside its task has set the key itself, and the key outlives it:  *)
(* what is left of the key, with the age of the run, is more than the time *)
(* a run is allowed.  So as long as there is such a run the key is there,  *)
(* and no other run gets past the SET.                                     *)

HasKey(r) ==
  /\ lock[TaskOf[r]].by = r
  /\ lock[TaskOf[r]].left + run[r].age > Limit[TaskOf[r]]

KeysHeld ==
  \A r \in Runs :
    /\ run[r].age <= Limit[TaskOf[r]]
    /\ Guarded(TaskOf[r]) /\ Inside(r) => HasKey(r)

GuardInv == TypeOK /\ KeysHeld

LEMMA InsideNotFree ==
  ASSUME GuardInv, NEW r \in Runs, Guarded(TaskOf[r]), Inside(r)
  PROVE  ~Free(TaskOf[r]) /\ lock[TaskOf[r]].by = r
<1>1. /\ run[r].age \in Nat /\ TaskOf[r] \in Tasks
      /\ lock[TaskOf[r]].left \in Nat /\ Limit[TaskOf[r]] \in Nat
  BY TaskLockAssumption DEF GuardInv, TypeOK, Keys
<1>2. HasKey(r) /\ run[r].age <= Limit[TaskOf[r]] BY DEF GuardInv, KeysHeld
<1> QED BY <1>1, <1>2 DEF HasKey, Free

\* What a step of run r may be to the key of a guarded task.
Stays(r) == lock'[TaskOf[r]] = lock[TaskOf[r]] /\ (Inside(r)' => Inside(r))
Enters(r) == /\ Free(TaskOf[r]) /\ lock'[TaskOf[r]].by = r
             /\ lock'[TaskOf[r]].left = Ttl[TaskOf[r]]
Leaves(r) == Inside(r) /\ ~Inside(r)'

LEMMA StepEffect ==
  ASSUME GuardInv, NEW r \in Runs, Taking(r) \/ Working(r)
  PROVE  /\ run'[r].age = run[r].age \/ (run'[r].age = 0 /\ ~Inside(r)')
         /\ \A s \in Runs \ {r} : run'[s].pc = run[s].pc /\ run'[s].age = run[s].age
         /\ \A t \in Tasks \ {TaskOf[r]} : Guarded(t) => lock'[t] = lock[t]
         /\ Guarded(TaskOf[r]) => Stays(r) \/ Enters(r) \/ Leaves(r)
<1> USE TaskLockAssumption DEF GuardInv
<1> DEFINE Effect == /\ run'[r].age = run[r].age \/ (run'[r].age = 0 /\ ~Inside(r)')
                     /\ \A s \in Runs \ {r} :
                          run'[s].pc = run[s].pc /\ run'[s].age = run[s].age
                     /\ \A t \in Tasks \ {TaskOf[r]} : Guarded(t) => lock'[t] = lock[t]
                     /\ Guarded(TaskOf[r]) => Stays(r) \/ Enters(r) \/ Leaves(r)
<1>0. /\ TaskOf[r] \in Tasks
      /\ DOMAIN run = Runs /\ DOMAIN lock = Tasks
      /\ DOMAIN run[r] = {"pc", "age", "waited", "seen", "exposed", "late"}
  BY DEF TypeOK
<1>1. ASSUME UNCHANGED lock, Leave(r) PROVE Effect
  BY <1>1, <1>0 DEF Leave, Idle, Stays, Inside
<1>2. ASSUME UNCHANGED lock, NEW pc, Go(r, pc), Inside(r) \/ ~Inside(r)' PROVE Effect
  <2>1. run'[r].age = run[r].age BY <1>2, <1>0 DEF Go
  <2>2. \A s \in Runs \ {r} : run'[s].pc = run[s].pc /\ run'[s].age = run[s].age
    BY <1>2, <1>0 DEF Go
  <2> QED BY <1>2, <2>1, <2>2 DEF Stays
<1>3. ASSUME NEW refused \in {"idle", "inspect"}, TrySet(r, refused) PROVE Effect
  <2>1. CASE Free(TaskOf[r])
    <3>1. /\ run' = [run EXCEPT ![r].pc = "held"]
          /\ lock' = [lock EXCEPT ![TaskOf[r]] =
                [token |-> TokenOf[r], by |-> r, left |-> Ttl[TaskOf[r]]]]
      BY <1>3, <2>1 DEF TrySet, Put, Go
    <3>2. run'[r].age = run[r].age BY <3>1, <1>0
    <3>3. \A s \in Runs \ {r} : run'[s].pc = run[s].pc /\ run'[s].age = run[s].age
      BY <3>1, <1>0
    <3> QED BY <2>1, <3>1, <3>2, <3>3, <1>0 DEF Enters
  <2>2. CASE ~Free(TaskOf[r]) /\ Leave(r)
    BY <1>3, <2>2, <1>1 DEF TrySet
  <2>3. CASE ~Free(TaskOf[r]) /\ Go(r, "inspect")
    <3>1. ~Inside(r)' BY <2>3, <1>0 DEF Go, Inside
    <3> QED BY <1>3, <2>3, <3>1, <1>2 DEF TrySet
  <2> QED BY <1>3, <2>1, <2>2, <2>3 DEF TrySet
<1>4. CASE Start(r)
  <2>1. ~Inside(r)' BY <1>4, <1>0 DEF Start, Go, Inside
  <2> QED BY <1>4, <2>1, <1>2 DEF Start
<1>5. CASE Acquire(r) BY <1>5, <1>3 DEF Acquire
<1>6. CASE AcquireUnanswered(r)
  BY <1>6, <1>0 DEF AcquireUnanswered, Put, Leave, Idle, Enters, Inside
<1>7. CASE Inspect(r)
  <2>1. UNCHANGED lock /\ (Leave(r) \/ Go(r, "read")) BY <1>7 DEF Inspect
  <2>2. Go(r, "read") => ~Inside(r)' BY <1>0 DEF Go, Inside
  <2> QED BY <2>1, <2>2, <1>1, <1>2
<1>8. CASE ReadToken(r)
  <2>1. UNCHANGED lock BY <1>8 DEF ReadToken
  <2>2. CASE Leave(r) BY <2>1, <2>2, <1>1
  <2>3. CASE run' = [run EXCEPT ![r].pc = "delete", ![r].seen = lock["collector"].token]
    BY <2>1, <2>3, <1>0 DEF Stays, Inside
  <2> QED BY <1>8, <2>2, <2>3 DEF ReadToken
<1>19. ASSUME NEW t \in Tasks, NEW next \in RunStates, TakeAway(t, r, next)
       PROVE  /\ lock' = [lock EXCEPT ![t].left = 0]
              /\ run'[r] = next
              /\ \A s \in Runs \ {r} : run'[s].pc = run[s].pc /\ run'[s].age = run[s].age
  <2>1. \A s \in Runs : run'[s] = IF s = r THEN next
          ELSE IF s = lock[t].by /\ Inside(s) THEN [run[s] EXCEPT !.exposed = TRUE]
          ELSE run[s]
    BY <1>19 DEF TakeAway
  <2>2. \A s \in Runs : run[s] \in RunStates BY DEF TypeOK, RunStates
  <2> QED BY <1>19, <2>1, <2>2 DEF TakeAway, Drop, RunStates
<1>9. CASE DeleteStale(r)
  <2>1. CASE TakeAway("collector", r, [run[r] EXCEPT !.pc = "retry"])
    <3>1. /\ [run[r] EXCEPT !.pc = "retry"] \in RunStates
          /\ [run[r] EXCEPT !.pc = "retry"].pc = "retry"
          /\ [run[r] EXCEPT !.pc = "retry"].age = run[r].age
      BY DEF TypeOK, RunStates, Phases
    <3>2. /\ lock' = [lock EXCEPT !["collector"].left = 0]
          /\ run'[r].pc = "retry" /\ run'[r].age = run[r].age
          /\ \A s \in Runs \ {r} : run'[s].pc = run[s].pc /\ run'[s].age = run[s].age
      BY <2>1, <3>1, <1>19
    <3>3. ~Guarded("collector") BY DEF Guarded
    <3>4. ~Inside(r)' BY <3>2 DEF Inside
    <3> QED BY <3>2, <3>3, <3>4, <1>0 DEF Stays
  <2>2. CASE UNCHANGED lock /\ Leave(r) BY <2>2, <1>1
  <2> QED BY <1>9, <2>1, <2>2 DEF DeleteStale
<1>10. CASE Retry(r) BY <1>10, <1>3 DEF Retry
<1>11. CASE AcquireFail(r) BY <1>11, <1>1 DEF AcquireFail
<1>12. CASE Look(r) BY <1>12, <1>2 DEF Look, Inside
<1>13. CASE Poll(r)
  <2>1. UNCHANGED lock /\ Inside(r) BY <1>13 DEF Poll, Inside
  <2>2. CASE Go(r, "working") BY <2>1, <2>2, <1>2
  <2>3. CASE run' = [run EXCEPT ![r].pc = "working", ![r].late = ~Free("collector")]
    <3>1. run'[r].age = run[r].age BY <2>3, <1>0
    <3>2. \A s \in Runs \ {r} : run'[s].pc = run[s].pc /\ run'[s].age = run[s].age
      BY <2>3, <1>0
    <3> QED BY <2>1, <3>1, <3>2 DEF Stays
  <2> QED BY <1>13, <2>2, <2>3 DEF Poll
<1>14. CASE LookBlind(r)
  <2>1. UNCHANGED lock /\ Inside(r) BY <1>14 DEF LookBlind, Inside
  <2>2. run'[r].age = run[r].age BY <1>14, <1>0 DEF LookBlind
  <2>3. \A s \in Runs \ {r} : run'[s].pc = run[s].pc /\ run'[s].age = run[s].age
    BY <1>14, <1>0 DEF LookBlind
  <2> QED BY <2>1, <2>2, <2>3 DEF Stays
<1>15. CASE Finish(r) BY <1>15, <1>2 DEF Finish, Inside
<1>16. CASE Release(r)
  <2>1. CASE TakeAway(TaskOf[r], r, Idle)
    <3>1. /\ lock' = [lock EXCEPT ![TaskOf[r]].left = 0]
          /\ run'[r] = Idle
          /\ \A s \in Runs \ {r} : run'[s].pc = run[s].pc /\ run'[s].age = run[s].age
      <4>1. Idle \in RunStates BY IdleType
      <4> QED BY <2>1, <4>1, <1>0, <1>19
    <3>2. run'[r].age = 0 /\ Leaves(r)
      BY <1>16, <3>1 DEF Release, Leaves, Inside, Idle
    <3> QED BY <3>1, <3>2, <1>0 DEF Leaves
  <2>2. CASE UNCHANGED lock /\ Leave(r) BY <2>2, <1>1
  <2> QED BY <1>16, <2>1, <2>2 DEF Release
<1>17. CASE Kill(r) BY <1>17, <1>1 DEF Kill
<1>18. Effect
  BY <1>4, <1>5, <1>6, <1>7, <1>8, <1>9, <1>10, <1>11, <1>12, <1>13, <1>14, <1>15,
     <1>16, <1>17 DEF Taking, Working
<1> QED BY <1>18

LEMMA StepHeld ==
  ASSUME GuardInv, NEW r \in Runs, Taking(r) \/ Working(r)
  PROVE  KeysHeld'
<1> USE TaskLockAssumption
<1> SUFFICES ASSUME NEW s \in Runs
             PROVE  /\ run'[s].age <= Limit[TaskOf[s]]
                    /\ Guarded(TaskOf[s]) /\ Inside(s)' => HasKey(s)'
  BY DEF KeysHeld
<1> DEFINE t == TaskOf[s]
<1>0. /\ t \in Tasks /\ TaskOf[r] \in Tasks
      /\ Ttl[t] \in Nat /\ Limit[t] \in Nat
      /\ run[s].age \in Nat /\ run'[s].age \in Nat
  <2>1. TypeOK' BY StepType DEF GuardInv
  <2> QED BY <2>1 DEF GuardInv, TypeOK
<1>1. run[s].age <= Limit[t] /\ (Guarded(t) /\ Inside(s) => HasKey(s))
  BY DEF GuardInv, KeysHeld
<1>2. CASE s = r
  <2>1. run'[s].age <= Limit[t] BY <1>0, <1>1, <1>2, StepEffect
  <2>2. ASSUME Guarded(t), Inside(s)' PROVE HasKey(s)'
    <3>1. run'[s].age = run[s].age BY <1>2, <2>2, StepEffect
    <3>2. CASE Stays(r) BY <1>1, <1>2, <2>2, <3>1, <3>2 DEF Stays, HasKey
    <3>3. CASE Enters(r)
      BY <1>0, <1>2, <2>2, <3>3 DEF Enters, HasKey, Guarded
    <3> QED BY <1>2, <2>2, <3>2, <3>3, StepEffect DEF Leaves
  <2> QED BY <2>1, <2>2
<1>3. CASE s # r
  <2>1. run'[s].pc = run[s].pc /\ run'[s].age = run[s].age BY <1>3, StepEffect
  <2>2. ASSUME Guarded(t), Inside(s)' PROVE HasKey(s)'
    <3>1. Inside(s) BY <2>1, <2>2 DEF Inside
    <3>2. ~Free(t) /\ lock[t].by = s BY <2>2, <3>1, InsideNotFree
    <3>3. lock'[t] = lock[t]
      <4>1. CASE t # TaskOf[r] BY <1>0, <2>2, <4>1, StepEffect
      <4>2. CASE t = TaskOf[r]
        <5>1. ~Enters(r) BY <3>2, <4>2 DEF Enters
        <5>2. ~Leaves(r) BY <1>3, <2>2, <3>2, <4>2, InsideNotFree DEF Leaves
        <5> QED BY <2>2, <4>2, <5>1, <5>2, StepEffect DEF Stays
      <4> QED BY <4>1, <4>2
    <3> QED BY <1>1, <2>1, <2>2, <3>1, <3>3 DEF HasKey
  <2> QED BY <1>1, <2>1, <2>2
<1> QED BY <1>2, <1>3

LEMMA TickHeld == GuardInv /\ Tick => KeysHeld'
<1> USE TaskLockAssumption
<1> SUFFICES ASSUME GuardInv, Tick, NEW s \in Runs
             PROVE  /\ run'[s].age <= Limit[TaskOf[s]]
                    /\ Guarded(TaskOf[s]) /\ Inside(s)' => HasKey(s)'
  BY DEF KeysHeld
<1> DEFINE t == TaskOf[s]
<1>0. /\ t \in Tasks /\ Limit[t] \in Nat
      /\ run[s] \in RunStates /\ lock[t] \in Keys
  BY DEF GuardInv, TypeOK, RunStates
<1>1. /\ run'[s].pc = run[s].pc
      /\ run'[s].age = IF Live(s) THEN run[s].age + 1 ELSE 0
      /\ lock'[t].by = lock[t].by
      /\ lock'[t].left = IF lock[t].left > 0 THEN lock[t].left - 1 ELSE 0
  <2>1. run'[s] = [run[s] EXCEPT !.age = IF Live(s) THEN @ + 1 ELSE 0,
          !.waited = IF run[s].pc = "waiting" /\ @ < WaitMax THEN @ + 1 ELSE @]
    BY DEF Tick
  <2>2. lock'[t] = [lock[t] EXCEPT !.left = IF @ > 0 THEN @ - 1 ELSE 0]
    BY <1>0 DEF Tick
  <2> QED BY <1>0, <2>1, <2>2 DEF RunStates, Keys
<1>2. Live(s) => run[s].age < Limit[t] BY DEF Tick
<1>3. run'[s].age <= Limit[t] BY <1>0, <1>1, <1>2 DEF RunStates
<1>4. ASSUME Guarded(t), Inside(s)' PROVE HasKey(s)'
  <2>1. Inside(s) /\ Live(s) BY <1>1, <1>4 DEF Inside, Live
  <2>2. HasKey(s) BY <1>4, <2>1 DEF GuardInv, KeysHeld
  <2>3. lock[t].left > 0 BY <1>4, <2>1, <1>0, InsideNotFree DEF Free, Keys
  <2> QED BY <1>0, <1>1, <2>1, <2>2, <2>3 DEF HasKey, RunStates, Keys
<1> QED BY <1>3, <1>4

LEMMA InitHeld == Init => KeysHeld
<1> SUFFICES ASSUME Init, NEW r \in Runs
             PROVE  run[r].age <= Limit[TaskOf[r]] /\ ~Inside(r)
  BY DEF KeysHeld
<1>1. Limit[TaskOf[r]] \in Nat BY TaskLockAssumption
<1>2. run[r] = Idle BY DEF Init
<1> QED BY <1>1, <1>2 DEF Idle, Inside

LEMMA GuardInvariant == Spec => []GuardInv
<1>1. Init => GuardInv BY InitType, InitHeld DEF GuardInv
<1>2. GuardInv /\ [Next]_vars => GuardInv'
  <2>1. GuardInv /\ UNCHANGED vars => KeysHeld'
    BY DEF GuardInv, KeysHeld, HasKey, Inside, vars
  <2> QED BY <2>1, NextType, StepHeld, TickHeld DEF Next, GuardInv
<1> QED BY <1>1, <1>2, PTL DEF Spec

\* A task whose key outlives its runs has at most one run past the lock,
\* whatever is killed, delivered twice or left unanswered.
THEOREM OneRun == Spec => []OneRunEach
<1>1. GuardInv => OneRunEach
  <2> SUFFICES ASSUME GuardInv, NEW t \in Tasks, Guarded(t),
                      NEW r \in RunsOf(t), NEW s \in RunsOf(t), Inside(r), Inside(s)
               PROVE  r = s
    BY DEF OneRunEach, Alone
  <2> QED BY InsideNotFree DEF RunsOf
<1> QED BY <1>1, GuardInvariant, PTL
-----------------------------------------------------------------------------
(* The refinement: a step of run r changes the insiders of its own task    *)
(* only, and then from none to r or from r to none.                        *)

LEMMA OneOfIs ==
  /\ OneOf({}) = Nobody
  /\ \A r : OneOf({r}) = r
BY DEF OneOf

LEMMA InsiderOnly ==
  ASSUME GuardInv, NEW t \in Tasks, NEW r \in Insiders(t)
  PROVE  Insiders(t) = {r}
<1>1. \A s \in Insiders(t) : lock[t].by = s
  BY InsideNotFree DEF Insiders, RunsOf
<1> QED BY <1>1

LEMMA StepInsiders ==
  ASSUME GuardInv, NEW r \in Runs, Taking(r) \/ Working(r)
  PROVE  /\ \A t \in Tasks \ {TaskOf[r]} : Insiders(t)' = Insiders(t)
         /\ LET I == Insiders(TaskOf[r])
            IN  I' = I \/ (I = {} /\ I' = {r}) \/ (I = {r} /\ I' = {})
<1> USE TaskLockAssumption
<1>0. \A s \in Runs \ {r} : Inside(s)' <=> Inside(s)
  BY StepEffect DEF Inside
<1>1. ASSUME NEW t \in Tasks \ {TaskOf[r]} PROVE Insiders(t)' = Insiders(t)
  BY <1>0 DEF Insiders, RunsOf
<1> DEFINE t == TaskOf[r]
           I == Insiders(t)
<1>2. t \in Tasks OBVIOUS
<1>3. CASE ~Guarded(t)
  <2>1. \A q : q \notin I /\ q \notin I' BY <1>3 DEF Insiders
  <2>2. I = {} /\ I' = {}
    <3> HIDE DEF I
    <3> QED BY <2>1
  <2> QED BY <1>1, <2>2
<1>4. CASE Guarded(t)
  <2>1. \A s : s # r => (s \in I' <=> s \in I) BY <1>0 DEF Insiders, RunsOf
  <2>2. (r \in I <=> Inside(r)) /\ (r \in I' <=> Inside(r)')
    BY <1>4 DEF Insiders, RunsOf
  <2>3. Inside(r) => I = {r} BY <1>2, <2>2, InsiderOnly
  <2>4. ~Inside(r) /\ Inside(r)' => I = {}
    <3> SUFFICES ASSUME ~Inside(r), Inside(r)' PROVE I = {} OBVIOUS
    <3>1. Enters(r) BY <1>4, StepEffect DEF Stays, Leaves
    <3> QED BY <3>1, <1>4, InsideNotFree DEF Enters, Insiders, RunsOf
  <2>5. I' = I \/ (I = {} /\ I' = {r}) \/ (I = {r} /\ I' = {})
    <3> HIDE DEF I
    <3>1. CASE Inside(r) /\ Inside(r)' 
      <4>1. I' = I BY <2>1, <2>2, <3>1
      <4> QED BY <4>1
    <3>2. CASE Inside(r) /\ ~Inside(r)'
      <4>1. I' = {} BY <2>1, <2>2, <2>3, <3>2
      <4> QED BY <4>1, <2>3, <3>2
    <3>3. CASE ~Inside(r) /\ ~Inside(r)'
      <4>1. I' = I BY <2>1, <2>2, <3>3
      <4> QED BY <4>1
    <3>4. CASE ~Inside(r) /\ Inside(r)'
      <4>1. I' = {r} BY <2>1, <2>2, <2>4, <3>4
      <4> QED BY <4>1, <2>4, <3>4
    <3> QED BY <3>1, <3>2, <3>3, <3>4
  <2> QED BY <1>1, <2>5
<1> QED BY <1>1, <1>3, <1>4

LEMMA StepImplements ==
  ASSUME GuardInv, NEW r \in Runs, Taking(r) \/ Working(r)
  PROVE  [Guard!Next]_Holder
<1> USE TaskLockAssumption
<1> DEFINE t == TaskOf[r]
           I == Insiders(t)
<1>1. t \in Tasks /\ r # Nobody OBVIOUS
<1>2. \A u \in Tasks \ {t} : Holder'[u] = Holder[u] BY StepInsiders DEF Holder
<1>3. Holder[t] = OneOf(I) /\ Holder'[t] = OneOf(I') BY <1>1 DEF Holder
<1>4. CASE I' = I
  <2>1. Holder'[t] = Holder[t] BY <1>3, <1>4
  <2>2. Holder' = Holder BY <1>2, <2>1 DEF Holder
  <2> QED BY <2>2
<1>5. CASE I = {} /\ I' = {r}
  <2>1. Holder[t] = Nobody /\ Holder'[t] = r BY <1>3, <1>5, OneOfIs
  <2>2. Holder' = [Holder EXCEPT ![t] = r] BY <1>1, <1>2, <2>1 DEF Holder
  <2> QED BY <1>1, <2>1, <2>2 DEF Guard!Next, Guard!Begin
<1>6. CASE I = {r} /\ I' = {}
  <2>1. Holder[t] = r /\ Holder'[t] = Nobody BY <1>3, <1>6, OneOfIs
  <2>2. Holder' = [Holder EXCEPT ![t] = Nobody] BY <1>1, <1>2, <2>1 DEF Holder
  <2> QED BY <1>1, <2>1, <2>2 DEF Guard!Next, Guard!End
<1> QED BY <1>4, <1>5, <1>6, StepInsiders

\* The locks of the guarded tasks implement the abstract guard.
THEOREM LocksGuard == Spec => GuardSpec
<1>1. Init => Guard!Init
  <2> SUFFICES ASSUME Init PROVE \A t \in Tasks : Insiders(t) = {}
    BY OneOfIs DEF Guard!Init, Holder
  <2> QED BY DEF Init, Insiders, RunsOf, Inside, Idle
<1>2. GuardInv /\ [Next]_vars => [Guard!Next]_Holder
  <2>1. ASSUME \A r \in Runs : run'[r].pc = run[r].pc PROVE Holder' = Holder
    <3>1. \A t \in Tasks : Insiders(t)' = Insiders(t)
      BY <2>1 DEF Insiders, RunsOf, Inside
    <3> QED BY <3>1 DEF Holder
  <2>2. UNCHANGED vars => Holder' = Holder BY <2>1 DEF vars
  <2>3. GuardInv /\ Tick => Holder' = Holder
    <3> SUFFICES ASSUME GuardInv, Tick PROVE \A r \in Runs : run'[r].pc = run[r].pc
      BY <2>1
    <3>1. \A r \in Runs : run[r] \in RunStates BY DEF GuardInv, TypeOK, RunStates
    <3>2. \A r \in Runs : run'[r] =
            [run[r] EXCEPT !.age = IF Live(r) THEN @ + 1 ELSE 0,
               !.waited = IF run[r].pc = "waiting" /\ @ < WaitMax THEN @ + 1 ELSE @]
      BY DEF Tick
    <3> QED BY <3>1, <3>2 DEF RunStates
  <2> QED BY <2>2, <2>3, StepImplements DEF Next
<1> QED BY <1>1, <1>2, GuardInvariant, PTL DEF Spec, GuardSpec, Guard!Spec
-----------------------------------------------------------------------------
(* Every run.  A step of r keeps to its own record, or sets the key of its  *)
(* task, or takes a key away, and then marks the run it took it from.       *)

Keeps(r) ==
  /\ UNCHANGED lock
  /\ \A s \in Runs \ {r} : run'[s] = run[s]
  /\ Inside(r)' => /\ Inside(r) /\ run'[r].age = run[r].age
                   /\ run[r].exposed => run'[r].exposed
Sets(r) ==
  /\ Free(TaskOf[r]) /\ Put(TaskOf[r], r)
  /\ \A s \in Runs \ {r} : run'[s] = run[s]
  /\ run'[r].pc # "working"
Takes(r) ==
  /\ ~Inside(r)'
  /\ \E t \in Tasks :
       /\ lock' = [lock EXCEPT ![t].left = 0]
       /\ \A s \in Runs \ {r} :
            run'[s] = IF s = lock[t].by /\ Inside(s) THEN [run[s] EXCEPT !.exposed = TRUE]
                      ELSE run[s]

\* What lets a run of the pair go to work.
Excused(r) ==
  \/ TaskOf[r] \notin {"collector", "stability"}
  \/ Free(Other(TaskOf[r]))
  \/ TaskOf[r] = "stability" /\ run'[r].late
  \/ run'[r].exposed
ToWork(r) == run'[r].pc = "working" => Excused(r)
               \/ (run[r].pc = "working" /\ run'[r] = run[r])

\* Only the stability check waits.
WaitersCheck == \A r \in Runs : run[r].pc = "waiting" => TaskOf[r] = "stability"

LEMMA StepKind ==
  ASSUME TypeOK, WaitersCheck, NEW r \in Runs, Taking(r) \/ Working(r)
  PROVE  /\ Keeps(r) \/ Sets(r) \/ Takes(r)
         /\ run'[r].age \in {0, run[r].age}
         /\ ToWork(r)
         /\ run'[r].pc = "waiting" => TaskOf[r] = "stability"
<1> USE TaskLockAssumption
<1> DEFINE Kind == /\ Keeps(r) \/ Sets(r) \/ Takes(r)
                   /\ run'[r].age \in {0, run[r].age}
                   /\ ToWork(r)
                   /\ run'[r].pc = "waiting" => TaskOf[r] = "stability"
<1>0. /\ TaskOf[r] \in Tasks
      /\ DOMAIN run = Runs /\ DOMAIN lock = Tasks
      /\ DOMAIN run[r] = {"pc", "age", "waited", "seen", "exposed", "late"}
      /\ run[r] \in RunStates
  BY DEF TypeOK, RunStates
<1>1. ASSUME UNCHANGED lock, Leave(r) PROVE Kind
  BY <1>1, <1>0 DEF Leave, Idle, Keeps, Inside, ToWork
<1>2. ASSUME UNCHANGED lock, NEW pc, Go(r, pc), pc # "working", Inside(r) \/ ~Inside(r)',
             pc = "waiting" => TaskOf[r] = "stability"
      PROVE  Kind
  <2>1. /\ run'[r].pc = pc /\ run'[r].age = run[r].age /\ run'[r].exposed = run[r].exposed
        /\ \A s \in Runs \ {r} : run'[s] = run[s]
    BY <1>2, <1>0 DEF Go
  <2> QED BY <1>2, <2>1 DEF Keeps, ToWork
<1>3. ASSUME NEW refused \in {"idle", "inspect"}, TrySet(r, refused), ~Inside(r) PROVE Kind
  <2>1. CASE Free(TaskOf[r])
    <3>1. Put(TaskOf[r], r) /\ run' = [run EXCEPT ![r].pc = "held"]
      BY <1>3, <2>1 DEF TrySet, Go
    <3>2. /\ run'[r].pc = "held" /\ run'[r].age = run[r].age
          /\ \A s \in Runs \ {r} : run'[s] = run[s]
      BY <3>1, <1>0
    <3> QED BY <2>1, <3>1, <3>2 DEF Sets, ToWork
  <2>2. CASE ~Free(TaskOf[r]) /\ Leave(r)
    BY <1>3, <2>2, <1>1 DEF TrySet
  <2>3. CASE ~Free(TaskOf[r]) /\ Go(r, "inspect")
    <3>1. ~Inside(r)' BY <2>3, <1>0 DEF Go, Inside
    <3> QED BY <1>3, <2>3, <3>1, <1>2 DEF TrySet
  <2> QED BY <1>3, <2>1, <2>2, <2>3 DEF TrySet
<1>4. CASE Start(r)
  <2>1. ~Inside(r)' BY <1>4, <1>0 DEF Start, Go, Inside
  <2> QED BY <1>4, <2>1, <1>2 DEF Start
<1>5. CASE Acquire(r) BY <1>5, <1>3 DEF Acquire, Inside
<1>6. CASE AcquireUnanswered(r)
  BY <1>6, <1>0 DEF AcquireUnanswered, Leave, Idle, Sets, ToWork
<1>7. CASE Inspect(r)
  <2>1. UNCHANGED lock /\ (Leave(r) \/ Go(r, "read")) BY <1>7 DEF Inspect
  <2>2. Go(r, "read") => ~Inside(r)' BY <1>0 DEF Go, Inside
  <2> QED BY <2>1, <2>2, <1>1, <1>2
<1>8. CASE ReadToken(r)
  <2>1. UNCHANGED lock BY <1>8 DEF ReadToken
  <2>2. CASE Leave(r) BY <2>1, <2>2, <1>1
  <2>3. CASE run' = [run EXCEPT ![r].pc = "delete", ![r].seen = lock["collector"].token]
    BY <2>1, <2>3, <1>0 DEF Keeps, Inside, ToWork
  <2> QED BY <1>8, <2>2, <2>3 DEF ReadToken
<1>9. ASSUME NEW t \in Tasks, NEW next \in RunStates, TakeAway(t, r, next),
             next.pc \in {"retry", "idle"}, next.age \in {0, run[r].age}
      PROVE  Kind
  <2>1. /\ lock' = [lock EXCEPT ![t].left = 0]
        /\ \A s \in Runs : run'[s] = IF s = r THEN next
             ELSE IF s = lock[t].by /\ Inside(s) THEN [run[s] EXCEPT !.exposed = TRUE]
             ELSE run[s]
    BY <1>9 DEF TakeAway, Drop
  <2>2. run'[r] = next BY <2>1
  <2> QED BY <1>9, <2>1, <2>2 DEF Takes, Inside, ToWork
<1>10. CASE DeleteStale(r)
  <2>1. CASE TakeAway("collector", r, [run[r] EXCEPT !.pc = "retry"])
    <3>1. /\ [run[r] EXCEPT !.pc = "retry"] \in RunStates
          /\ [run[r] EXCEPT !.pc = "retry"].pc = "retry"
          /\ [run[r] EXCEPT !.pc = "retry"].age = run[r].age
      BY <1>0 DEF RunStates, Phases
    <3> QED BY <2>1, <3>1, <1>9
  <2>2. CASE UNCHANGED lock /\ Leave(r) BY <2>2, <1>1
  <2> QED BY <1>10, <2>1, <2>2 DEF DeleteStale
<1>11. CASE Retry(r) BY <1>11, <1>3 DEF Retry, Inside
<1>12. CASE AcquireFail(r) BY <1>12, <1>1 DEF AcquireFail
<1>13. ASSUME UNCHANGED lock, run'[r].pc = "working", Inside(r), Excused(r),
              \A s \in Runs \ {r} : run'[s] = run[s], run'[r].age = run[r].age,
              run[r].exposed => run'[r].exposed
       PROVE  Kind
  BY <1>13 DEF Keeps, ToWork
<1>14. CASE Look(r)
  <2>1. /\ UNCHANGED lock /\ Inside(r)
        /\ \/ Go(r, "release") \/ (Go(r, "waiting") /\ TaskOf[r] = "stability")
           \/ /\ Go(r, "working")
              /\ TaskOf[r] \notin {"collector", "stability"} \/ Free(Other(TaskOf[r]))
    BY <1>14 DEF Look, Inside
  <2>2. CASE Go(r, "working") /\ (TaskOf[r] \notin {"collector", "stability"}
                                    \/ Free(Other(TaskOf[r])))
    <3>1. /\ run'[r].pc = "working" /\ run'[r].age = run[r].age
          /\ run'[r].exposed = run[r].exposed
          /\ \A s \in Runs \ {r} : run'[s] = run[s]
      BY <2>2, <1>0 DEF Go
    <3> QED BY <2>1, <2>2, <3>1, <1>13 DEF Excused
  <2> QED BY <2>1, <2>2, <1>2
<1>15. CASE Poll(r)
  <2>1. UNCHANGED lock /\ Inside(r) BY <1>15 DEF Poll, Inside
  <2>2. /\ run'[r].pc = "working" /\ run'[r].age = run[r].age
        /\ run'[r].exposed = run[r].exposed
        /\ \A s \in Runs \ {r} : run'[s] = run[s]
        /\ Free("collector") \/ run'[r].late
    <3>1. CASE Free("collector") /\ Go(r, "working") BY <3>1, <1>0 DEF Go
    <3>2. CASE run' = [run EXCEPT ![r].pc = "working", ![r].late = ~Free("collector")]
      <4>1. run'[r].late = ~Free("collector") BY <3>2, <1>0
      <4> QED BY <3>2, <4>1, <1>0
    <3> QED BY <1>15, <3>1, <3>2 DEF Poll
  <2>3. TaskOf[r] = "stability" BY <1>15 DEF Poll, WaitersCheck
  <2>4. Excused(r)
    BY <2>2, <2>3 DEF Excused, Other
  <2> QED BY <2>1, <2>2, <2>4, <1>13
<1>16. CASE LookBlind(r)
  <2>1. /\ UNCHANGED lock /\ Inside(r)
        /\ run'[r].pc = "working" /\ run'[r].age = run[r].age /\ run'[r].exposed
        /\ \A s \in Runs \ {r} : run'[s] = run[s]
    BY <1>16, <1>0 DEF LookBlind, Inside
  <2> QED BY <2>1, <1>13 DEF Excused
<1>17. CASE Finish(r) BY <1>17, <1>2 DEF Finish, Inside
<1>18. CASE Release(r)
  <2>1. CASE TakeAway(TaskOf[r], r, Idle)
    <3>1. Idle \in RunStates /\ Idle.pc = "idle" /\ Idle.age = 0 BY IdleType DEF Idle
    <3> QED BY <2>1, <3>1, <1>0, <1>9
  <2>2. CASE UNCHANGED lock /\ Leave(r) BY <2>2, <1>1
  <2> QED BY <1>18, <2>1, <2>2 DEF Release
<1>19. CASE Kill(r) BY <1>19, <1>1 DEF Kill
<1> QED
  BY <1>4, <1>5, <1>6, <1>7, <1>8, <1>10, <1>11, <1>12, <1>14, <1>15, <1>16,
     <1>17, <1>18, <1>19 DEF Taking, Working

\* The key of a run that nobody has disturbed outlives it.
Outlasts(t) == Ttl[t] > Limit[t]
Whole(r) == Outlasts(TaskOf[r]) /\ Inside(r) /\ ~run[r].exposed
WholeKeys ==
  \A r \in Runs : run[r].age <= Limit[TaskOf[r]] /\ (Whole(r) => HasKey(r))

PairInv == TypeOK /\ WaitersCheck /\ WholeKeys

LEMMA WholeNotFree ==
  ASSUME PairInv, NEW r \in Runs, Whole(r)
  PROVE  ~Free(TaskOf[r]) /\ lock[TaskOf[r]].by = r
<1>1. /\ run[r].age \in Nat /\ TaskOf[r] \in Tasks
      /\ lock[TaskOf[r]].left \in Nat /\ Limit[TaskOf[r]] \in Nat
  BY TaskLockAssumption DEF PairInv, TypeOK, Keys
<1>2. HasKey(r) /\ run[r].age <= Limit[TaskOf[r]] BY DEF PairInv, WholeKeys
<1> QED BY <1>1, <1>2 DEF HasKey, Free

LEMMA StepWhole ==
  ASSUME PairInv, NEW r \in Runs, Taking(r) \/ Working(r)
  PROVE  PairInv'
<1> USE TaskLockAssumption
<1>1. TypeOK' BY StepType DEF PairInv
<1>2. Keeps(r) \/ Sets(r) \/ Takes(r) BY StepKind DEF PairInv
<1>3. \A s \in Runs \ {r} :
        /\ run'[s].pc = run[s].pc /\ run'[s].age = run[s].age
        /\ run[s].exposed => run'[s].exposed
  <2>1. \A s \in Runs : run[s] \in RunStates BY DEF PairInv, TypeOK, RunStates
  <2> QED BY <1>2, <2>1 DEF Keeps, Sets, Takes, RunStates
<1>4. WaitersCheck' BY <1>3, StepKind DEF PairInv, WaitersCheck
<1>5. ASSUME NEW s \in Runs
      PROVE  run'[s].age <= Limit[TaskOf[s]] /\ (Whole(s)' => HasKey(s)')
  <2>0. /\ TaskOf[s] \in Tasks /\ TaskOf[r] \in Tasks /\ DOMAIN lock = Tasks
        /\ Ttl[TaskOf[s]] \in Nat /\ Limit[TaskOf[s]] \in Nat
        /\ run[s].age \in Nat /\ run'[s].age \in Nat
    BY <1>1 DEF PairInv, TypeOK
  <2>1. run[s].age <= Limit[TaskOf[s]] /\ (Whole(s) => HasKey(s))
    BY DEF PairInv, WholeKeys
  <2>2. run'[s].age <= Limit[TaskOf[s]]
    <3>1. run'[s].age \in {0, run[s].age} BY <1>3, StepKind DEF PairInv
    <3> QED BY <2>0, <2>1, <3>1
  <2>3. ASSUME Whole(s)', s # r PROVE HasKey(s)'
    <3>1. Whole(s) /\ HasKey(s) BY <1>3, <2>1, <2>3 DEF Whole, Inside
    <3>2. ~Free(TaskOf[s]) /\ lock[TaskOf[s]].by = s BY <3>1, WholeNotFree
    <3>3. lock'[TaskOf[s]] = lock[TaskOf[s]]
      <4>1. CASE Keeps(r) BY <4>1 DEF Keeps
      <4>2. CASE Sets(r) BY <2>0, <3>2, <4>2 DEF Sets, Put
      <4>3. CASE Takes(r)
        <5>1. PICK t \in Tasks :
                /\ lock' = [lock EXCEPT ![t].left = 0]
                /\ \A q \in Runs \ {r} :
                     run'[q] = IF q = lock[t].by /\ Inside(q)
                               THEN [run[q] EXCEPT !.exposed = TRUE] ELSE run[q]
          BY <4>3 DEF Takes
        <5>2. CASE t = TaskOf[s]
          <6>1. run'[s] = [run[s] EXCEPT !.exposed = TRUE]
            BY <2>3, <3>1, <3>2, <5>1, <5>2 DEF Whole
          <6>2. run[s] \in RunStates BY DEF PairInv, TypeOK, RunStates
          <6> QED BY <2>3, <6>1, <6>2 DEF Whole, RunStates
        <5> QED BY <2>0, <5>1, <5>2
      <4> QED BY <1>2, <4>1, <4>2, <4>3
    <3> QED BY <1>3, <2>3, <3>1, <3>3 DEF HasKey
  <2>4. ASSUME Whole(r)', s = r PROVE HasKey(s)'
    <3>1. CASE Keeps(r)
      <4>1. Whole(r) /\ run'[r].age = run[r].age BY <2>4, <3>1 DEF Keeps, Whole
      <4> QED BY <2>1, <2>4, <3>1, <4>1 DEF Keeps, HasKey
    <3>2. CASE Sets(r)
      BY <2>0, <2>4, <3>2 DEF Sets, Put, HasKey, Whole, Outlasts
    <3> QED BY <1>2, <2>4, <3>1, <3>2 DEF Takes, Whole
  <2> QED BY <2>2, <2>3, <2>4
<1> QED BY <1>1, <1>4, <1>5 DEF PairInv, WholeKeys

LEMMA TickRuns ==
  ASSUME TypeOK, Tick, NEW s \in Runs
  PROVE  /\ run'[s].pc = run[s].pc
         /\ run'[s].age = IF Live(s) THEN run[s].age + 1 ELSE 0
         /\ run'[s].late = run[s].late /\ run'[s].exposed = run[s].exposed
<1>1. run'[s] = [run[s] EXCEPT !.age = IF Live(s) THEN @ + 1 ELSE 0,
        !.waited = IF run[s].pc = "waiting" /\ @ < WaitMax THEN @ + 1 ELSE @]
  BY DEF Tick
<1>2. run[s] \in RunStates BY DEF TypeOK, RunStates
<1> QED BY <1>1, <1>2 DEF RunStates

LEMMA TickWhole == PairInv /\ Tick => PairInv'
<1> USE TaskLockAssumption
<1> SUFFICES ASSUME PairInv, Tick PROVE PairInv' OBVIOUS
<1>1. TypeOK' BY TickType DEF PairInv
<1>2. WaitersCheck' BY TickRuns DEF PairInv, WaitersCheck
<1>3. ASSUME NEW s \in Runs
      PROVE  run'[s].age <= Limit[TaskOf[s]] /\ (Whole(s)' => HasKey(s)')
  <2> DEFINE t == TaskOf[s]
  <2>0. t \in Tasks /\ Limit[t] \in Nat /\ run[s].age \in Nat /\ lock[t] \in Keys
    BY DEF PairInv, TypeOK
  <2>1. /\ lock'[t].by = lock[t].by
        /\ lock'[t].left = IF lock[t].left > 0 THEN lock[t].left - 1 ELSE 0
    <3>1. lock'[t] = [lock[t] EXCEPT !.left = IF @ > 0 THEN @ - 1 ELSE 0]
      BY <2>0 DEF Tick
    <3> QED BY <2>0, <3>1 DEF Keys
  <2>2. Live(s) => run[s].age < Limit[t] BY DEF Tick
  <2>3. run'[s].age <= Limit[t] BY <2>0, <2>2, TickRuns DEF PairInv
  <2>4. ASSUME Whole(s)' PROVE HasKey(s)'
    <3>1. Whole(s) /\ Live(s) BY <2>4, TickRuns DEF PairInv, Whole, Inside, Live
    <3>2. HasKey(s) BY <3>1 DEF PairInv, WholeKeys
    <3>3. lock[t].left > 0 BY <2>0, <3>1, WholeNotFree DEF Free, Keys
    <3> QED BY <2>0, <2>1, <3>1, <3>2, <3>3, TickRuns DEF PairInv, HasKey, Keys
  <2> QED BY <2>3, <2>4
<1> QED BY <1>1, <1>2, <1>3 DEF PairInv, WholeKeys

LEMMA PairInvariant == Spec => []PairInv
<1>1. Init => PairInv
  <2> SUFFICES ASSUME Init, NEW r \in Runs
               PROVE  /\ run[r].age <= Limit[TaskOf[r]] /\ ~Inside(r)
                      /\ run[r].pc # "waiting"
    BY InitType DEF PairInv, WaitersCheck, WholeKeys, Whole
  <2>1. Limit[TaskOf[r]] \in Nat BY TaskLockAssumption
  <2>2. run[r] = Idle BY DEF Init
  <2> QED BY <2>1, <2>2 DEF Idle, Inside
<1>2. PairInv /\ [Next]_vars => PairInv'
  <2>1. PairInv /\ UNCHANGED vars => PairInv'
    BY DEF PairInv, TypeOK, WaitersCheck, WholeKeys, Whole, HasKey, Inside, vars
  <2> QED BY <2>1, StepWhole, TickWhole DEF Next
<1> QED BY <1>1, <1>2, PTL DEF Spec

\* For which times the look at each other's keys is enough: COLLECTOR_LOCK_TTL
\* and its like in stability.py are longer than the time limits.
PairOutlasts == Outlasts("collector") /\ Outlasts("stability")

LEMMA StepPair ==
  ASSUME PairOutlasts, PairInv, ParallelOnlyLate, NEW r \in Runs, Taking(r) \/ Working(r)
  PROVE  ParallelOnlyLate'
<1> SUFFICES ASSUME NEW c \in RunsOf("collector"), NEW s \in RunsOf("stability"),
                    run'[c].pc = "working", run'[s].pc = "working",
                    ~run'[s].late, ~run'[s].exposed, ~run'[c].exposed
             PROVE  FALSE
  BY DEF ParallelOnlyLate
<1>0. /\ c \in Runs /\ s \in Runs /\ c # s
      /\ TaskOf[c] = "collector" /\ TaskOf[s] = "stability"
  BY DEF RunsOf
<1>1. Keeps(r) \/ Sets(r) \/ Takes(r) BY StepKind DEF PairInv
<1>2. ASSUME NEW q \in Runs \ {r}, run'[q].pc = "working", ~run'[q].exposed
      PROVE  run'[q] = run[q]
  <2>1. run[q] \in RunStates BY DEF PairInv, TypeOK, RunStates
  <2> QED BY <1>1, <1>2, <2>1 DEF Keeps, Sets, Takes, RunStates
<1>3. ASSUME NEW q \in Runs \ {r}, TaskOf[q] \in {"collector", "stability"},
             run'[q].pc = "working", ~run'[q].exposed
      PROVE  ~Free(TaskOf[q])
  <2>1. Whole(q) BY <1>2, <1>3 DEF Whole, Inside, PairOutlasts
  <2> QED BY <2>1, WholeNotFree
<1>4. ToWork(r) BY StepKind DEF PairInv
<1>5. CASE r = c
  <2>1. ~Free("stability") BY <1>0, <1>3, <1>5
  <2>2. ~Excused(c) BY <1>0, <2>1 DEF Excused, Other
  <2>3. run'[c] = run[c] BY <1>4, <1>5, <2>2 DEF ToWork
  <2>4. run'[s] = run[s] BY <1>0, <1>2, <1>5
  <2> QED BY <2>3, <2>4 DEF ParallelOnlyLate
<1>6. CASE r = s
  <2>1. ~Free("collector") BY <1>0, <1>3, <1>6
  <2>2. ~Excused(s) BY <1>0, <2>1 DEF Excused, Other
  <2>3. run'[s] = run[s] BY <1>4, <1>6, <2>2 DEF ToWork
  <2>4. run'[c] = run[c] BY <1>0, <1>2, <1>6
  <2> QED BY <2>3, <2>4 DEF ParallelOnlyLate
<1>7. CASE r # c /\ r # s
  BY <1>0, <1>2, <1>7 DEF ParallelOnlyLate
<1> QED BY <1>5, <1>6, <1>7

\* The collector and the stability check work at the same time only when the
\* check gave up waiting, a key could not be read, or was taken away: whatever
\* the order in which the two set their own key and look at the other's.
THEOREM PairApart == ASSUME PairOutlasts PROVE Spec => []ParallelOnlyLate
<1>1. Init => ParallelOnlyLate
  BY DEF Init, ParallelOnlyLate, RunsOf, Idle
<1>2. PairInv /\ ParallelOnlyLate /\ [Next]_vars => ParallelOnlyLate'
  <2>1. ParallelOnlyLate /\ UNCHANGED vars => ParallelOnlyLate'
    BY DEF ParallelOnlyLate, vars
  <2>2. PairInv /\ ParallelOnlyLate /\ Tick => ParallelOnlyLate'
    BY TickRuns DEF PairInv, ParallelOnlyLate, RunsOf
  <2> QED BY <2>1, <2>2, StepPair DEF Next
<1> QED BY <1>1, <1>2, PairInvariant, PTL DEF Spec

\* Two runs of one task past its lock, neither of them marked as exposed: no
\* other run took its key away, and it did not pass by a key it could not read.
SelfOverlap(t) ==
  \E r, s \in RunsOf(t) : /\ r # s /\ Inside(r) /\ Inside(s)
                          /\ ~run[r].exposed /\ ~run[s].exposed

\* Two runs of a task whose key outlives its time limit overlap only with such
\* a mark on one of them. For the collector, which deletes a key that looks
\* stale, this says that nothing else can bring a second run beside the first.
THEOREM ApartUnlessRobbed ==
  ASSUME NEW t \in Tasks, Outlasts(t) PROVE Spec => []~SelfOverlap(t)
<1>1. PairInv => ~SelfOverlap(t)
  <2> SUFFICES ASSUME PairInv, NEW r \in RunsOf(t), NEW s \in RunsOf(t),
                      Inside(r), Inside(s), ~run[r].exposed, ~run[s].exposed
               PROVE  r = s
    BY DEF SelfOverlap
  <2>1. /\ r \in Runs /\ TaskOf[r] = t
        /\ s \in Runs /\ TaskOf[s] = t
    BY DEF RunsOf
  <2>2. Whole(r) /\ Whole(s) BY <2>1 DEF Whole
  <2> QED BY <2>1, <2>2, WholeNotFree
<1> QED BY <1>1, PairInvariant, PTL
-----------------------------------------------------------------------------
(* What a key says of the run that set it. *)

Signed ==
  \A t \in Tasks : ~Free(t) => /\ TaskOf[lock[t].by] = t
                               /\ lock[t].token = TokenOf[lock[t].by]

SignInv == TypeOK /\ WaitersCheck /\ Signed

LEMMA SignInvariant == Spec => []SignInv
<1> USE TaskLockAssumption
<1>1. Init => Signed BY NoKeyType DEF Init, Signed, Free
<1>2. ASSUME PairInv, Signed, NEW r \in Runs, Taking(r) \/ Working(r) PROVE Signed'
  <2>0. TaskOf[r] \in Tasks /\ DOMAIN lock = Tasks /\ \A t \in Tasks : lock[t] \in Keys
    BY <1>2 DEF PairInv, TypeOK
  <2>1. CASE Keeps(r) BY <1>2, <2>1 DEF Keeps, Signed, Free
  <2>2. CASE Sets(r) BY <1>2, <2>0, <2>2 DEF Sets, Put, Signed, Free
  <2>3. CASE Takes(r)
    <3>1. PICK t \in Tasks : lock' = [lock EXCEPT ![t].left = 0] BY <2>3 DEF Takes
    <3> QED BY <1>2, <2>0, <3>1 DEF Signed, Free, Keys
  <2> QED BY <1>2, <2>1, <2>2, <2>3, StepKind DEF PairInv
<1>3. ASSUME PairInv, Signed, Tick PROVE Signed'
  <2>1. \A t \in Tasks : lock[t] \in Keys BY <1>3 DEF PairInv, TypeOK
  <2>2. \A t \in Tasks :
          lock'[t] = [lock[t] EXCEPT !.left = IF @ > 0 THEN @ - 1 ELSE 0]
    BY <1>3 DEF Tick
  <2> QED BY <1>3, <2>1, <2>2 DEF Signed, Free, Keys
<1>4. Signed /\ UNCHANGED vars => Signed' BY DEF Signed, Free, vars
<1>5. PairInv /\ Signed /\ [Next]_vars => Signed' BY <1>2, <1>3, <1>4 DEF Next
<1>6. PairInv /\ Signed => SignInv BY DEF PairInv, SignInv
<1> QED BY <1>1, <1>5, <1>6, PairInvariant, PTL DEF Spec

\* Runs of one task that store different texts: those of stability.py,
\* tg_proxy.py and user_probe.py, which store a uuid, and those of the
\* collector that a worker has called.
OwnTokens == \A r, s \in Runs : TaskOf[r] = TaskOf[s] /\ TokenOf[r] = TokenOf[s] => r = s

\* A run gives back its own key only, however late it comes to do so.
THEOREM GivesBackItsOwn == ASSUME OwnTokens PROVE Spec => ReleasesOwn
<1> USE TaskLockAssumption
<1>1. SignInv /\ [Next]_vars =>
        [\A r \in Runs : run[r].pc = "release" /\ lock' # lock /\ run'[r].pc = "idle"
           => lock[TaskOf[r]].by = r]_vars
  <2> SUFFICES ASSUME SignInv, [Next]_vars,
                      NEW r \in Runs, run[r].pc = "release", lock' # lock,
                      run'[r].pc = "idle"
               PROVE  lock[TaskOf[r]].by = r
    OBVIOUS
  <2>1. \A q \in Runs : run[q] \in RunStates BY DEF SignInv, TypeOK, RunStates
  <2>2. ASSUME NEW q \in Runs, Taking(q) \/ Working(q) PROVE q = r
    <3>1. Keeps(q) \/ Sets(q) \/ Takes(q) BY <2>2, StepKind DEF SignInv
    <3>2. \A p \in Runs \ {q} : run'[p].pc = run[p].pc
      BY <2>1, <3>1 DEF Keeps, Sets, Takes, RunStates
    <3> QED BY <3>2
  <2>3. ~Tick BY TickRuns DEF SignInv
  <2>4. Taking(r) \/ Working(r) BY <2>2, <2>3 DEF Next, vars
  <2>5. Release(r)
    BY <2>4 DEF Taking, Start, Live, Acquire, AcquireUnanswered, Inspect, ReadToken,
                DeleteStale, Retry, AcquireFail, Working, Look, Poll, LookBlind, Finish, Kill
  <2>6. ~Free(TaskOf[r]) /\ lock[TaskOf[r]].token = TokenOf[r] BY <2>5 DEF Release
  <2>7. /\ TaskOf[lock[TaskOf[r]].by] = TaskOf[r]
        /\ TokenOf[lock[TaskOf[r]].by] = TokenOf[r]
        /\ lock[TaskOf[r]].by \in Runs
    BY <2>6 DEF SignInv, Signed, TypeOK, Keys
  <2> QED BY <2>7 DEF OwnTokens
<1> QED BY <1>1, SignInvariant, PTL DEF Spec, ReleasesOwn
=============================================================================
