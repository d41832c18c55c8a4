------------------------------ MODULE TaskLock ------------------------------
(***************************************************************************)
(* The Redis locks of the periodic Celery tasks (tasks/collector.py,       *)
(* stability.py, tg_proxy.py, user_probe.py).  A run takes its task's key  *)
(* with SET NX EX, works, and gives the key back with a compare-and-delete *)
(* script; a run that is killed leaves it to the time to live.  The        *)
(* collector also removes a key it takes for stale, and it and the         *)
(* stability check look at each other's keys.                              *)
(*                                                                         *)
(* Celery enforces time_limit from the start of a run by killing its       *)
(* process, and delivers a task again when its worker is lost or its       *)
(* acknowledgement is late, so that runs of one task may start at any time.*)
(***************************************************************************)
EXTENDS Integers

CONSTANTS
  Runs,     \* executions, each of one task at a time
  TaskOf,   \* [Runs -> Tasks]
  TokenOf,  \* the value a run stores in its key: a uuid, or for the collector
            \* str(request), one text for all runs when no worker called it
  Ttl,      \* time to live of a task's key, in ticks
  Limit,    \* time_limit of a task, in ticks
  WaitMax,  \* COLLECTOR_WAIT_MAX_SEC, in ticks
  Nobody    \* for RunGuard: no run

Tasks == {"collector", "stability", "tg_proxy", "user_probe"}
Tokens == {TokenOf[r] : r \in Runs}
RunsOf(t) == {r \in Runs : TaskOf[r] = t}

ASSUME TaskLockAssumption ==
  /\ Runs # {} /\ Nobody \notin Runs
  /\ TaskOf \in [Runs -> Tasks]
  /\ TokenOf = [r \in Runs |-> TokenOf[r]]
  /\ Ttl \in [Tasks -> Nat \ {0}]
  /\ Limit \in [Tasks -> Nat \ {0}]
  /\ WaitMax \in Nat

VARIABLES
  lock,  \* lock[t]: the key of task t; it exists while left > 0
  run    \* run[r]: where r is in its task

vars == <<lock, run>>

\* "by" is history: the run whose SET created the key.
Keys == [token: Tokens, by: Runs, left: Nat]
Free(t) == lock[t].left = 0

\* exposed and late are history: the run could not read the other task's key
\* or lost its own to another collector; it has stopped waiting.
Idle == [pc |-> "idle", age |-> 0, waited |-> 0, seen |-> CHOOSE k \in Tokens : TRUE,
         exposed |-> FALSE, late |-> FALSE]
Live(r) == run[r].pc # "idle"

NoKey == LET r == CHOOSE r \in Runs : TRUE
         IN  [token |-> TokenOf[r], by |-> r, left |-> 0]

\* The run has the key, or had it: it is past the lock of its task.
Inside(r) == run[r].pc \in {"held", "waiting", "working", "release"}

Init ==
  /\ lock = [t \in Tasks |-> NoKey]
  /\ run = [r \in Runs |-> Idle]

Leave(r) == run' = [run EXCEPT ![r] = Idle]
Go(r, pc) == run' = [run EXCEPT ![r].pc = pc]
-----------------------------------------------------------------------------
(* Taking the key. *)

Start(r) ==
  /\ ~Live(r)
  /\ Go(r, "acquire")
  /\ UNCHANGED lock

\* Mutant: the time to live is in the wrong unit, one tick.
PutShort(t, r) == lock' = [lock EXCEPT ![t] = [token |-> TokenOf[r], by |-> r, left |-> 1]]
Put(t, r) == lock' = [lock EXCEPT ![t] = [token |-> TokenOf[r], by |-> r, left |-> Ttl[t]]]
Drop(t) == lock' = [lock EXCEPT ![t].left = 0]

\* Mutant: SET EX, without NX.
TrySetAlways(r, refused) == Put(TaskOf[r], r) /\ Go(r, "held")

\* SET NX EX
TrySet(r, refused) ==
  LET t == TaskOf[r]
  IN  IF Free(t) THEN Put(t, r) /\ Go(r, "held")
      ELSE UNCHANGED lock /\ (IF refused = "idle" THEN Leave(r) ELSE Go(r, refused))

Acquire(r) ==
  /\ run[r].pc = "acquire"
  /\ TrySet(r, IF TaskOf[r] = "collector" THEN "inspect" ELSE "idle")

\* The reply to the SET is lost: the caller skips its run, the key stays.
AcquireUnanswered(r) ==
  /\ run[r].pc \in {"acquire", "retry"} /\ Free(TaskOf[r])
  /\ Put(TaskOf[r], r)
  /\ Leave(r)

\* The collector asks the workers for their active tasks; those that answer
\* within a second report every run of it they execute, the asking one too
\* (its token is not its task id).  No answer at all counts as no run.
Inspect(r) ==
  /\ run[r].pc = "inspect"
  /\ \E active \in SUBSET {s \in RunsOf("collector") : Live(s)} :
       IF active = {} THEN Go(r, "read") ELSE Leave(r)
  /\ UNCHANGED lock

ReadToken(r) ==
  /\ run[r].pc = "read"
  /\ IF Free("collector") THEN Leave(r)
     ELSE run' = [run EXCEPT ![r].pc = "delete", ![r].seen = lock["collector"].token]
  /\ UNCHANGED lock

\* r deletes the key, whoever has set it, and goes on as next.
TakeAway(t, r, next) ==
  /\ Drop(t)
  /\ run' = [s \in Runs |->
       IF s = r THEN next
       ELSE IF s = lock[t].by /\ Inside(s) THEN [run[s] EXCEPT !.exposed = TRUE]
       ELSE run[s]]

DeleteStale(r) ==
  /\ run[r].pc = "delete"
  /\ IF ~Free("collector") /\ lock["collector"].token = run[r].seen
     THEN TakeAway("collector", r, [run[r] EXCEPT !.pc = "retry"])
     ELSE UNCHANGED lock /\ Leave(r)

Retry(r) == run[r].pc = "retry" /\ TrySet(r, "idle")

\* A Redis error while taking the key skips the run.
AcquireFail(r) ==
  /\ run[r].pc \in {"acquire", "inspect", "read", "delete", "retry"}
  /\ Leave(r)
  /\ UNCHANGED lock

Taking(r) == \/ Start(r) \/ Acquire(r) \/ AcquireUnanswered(r) \/ Inspect(r)
             \/ ReadToken(r) \/ DeleteStale(r) \/ Retry(r) \/ AcquireFail(r)
-----------------------------------------------------------------------------
(* Inside. *)

\* The task whose key a run looks at, and what it does when the key is there.
Other(t) == IF t = "collector" THEN "stability" ELSE "collector"

\* Mutant: the collector does not look.
LookAway(r) ==
  LET t == TaskOf[r]
  IN  /\ run[r].pc = "held"
      /\ Go(r, IF t # "stability" \/ Free(Other(t)) THEN "working" ELSE "waiting")
      /\ UNCHANGED lock

Look(r) ==
  LET t == TaskOf[r]
  IN  /\ run[r].pc = "held"
      /\ Go(r, IF t \notin {"collector", "stability"} \/ Free(Other(t)) THEN "working"
               ELSE IF t = "collector" THEN "release" ELSE "waiting")
      /\ UNCHANGED lock

\* The stability check polls the collector's key, for WaitMax at most.
Poll(r) ==
  /\ run[r].pc = "waiting"
  /\ \/ Free("collector") /\ Go(r, "working")
     \/ /\ run[r].waited >= WaitMax
        /\ run' = [run EXCEPT ![r].pc = "working", ![r].late = ~Free("collector")]
  /\ UNCHANGED lock

\* An error of Redis reads as "not running".
LookBlind(r) ==
  /\ run[r].pc \in {"held", "waiting"} /\ TaskOf[r] \in {"collector", "stability"}
  /\ run' = [run EXCEPT ![r].pc = "working", ![r].exposed = TRUE]
  /\ UNCHANGED lock

\* A return, an exception or the soft time limit: all lead to the finally block.
Finish(r) ==
  /\ run[r].pc \in {"held", "waiting", "working"}
  /\ Go(r, "release")
  /\ UNCHANGED lock

\* Mutant: a plain DEL.
ReleaseAny(r) == run[r].pc = "release" /\ Drop(TaskOf[r]) /\ Leave(r)

\* Compare-and-delete; an error leaves the key.
Release(r) ==
  LET t == TaskOf[r]
  IN  /\ run[r].pc = "release"
      /\ \/ /\ ~Free(t) /\ lock[t].token = TokenOf[r]
            /\ TakeAway(t, r, Idle)
         \/ UNCHANGED lock /\ Leave(r)

\* The hard time limit, a lost worker, a restart of the service.
Kill(r) == Live(r) /\ Leave(r) /\ UNCHANGED lock

Working(r) == Look(r) \/ Poll(r) \/ LookBlind(r) \/ Finish(r) \/ Release(r) \/ Kill(r)
-----------------------------------------------------------------------------
\* Mutants: keys never expire; a key counts on below zero.
TickKeepsKeys ==
  /\ \A r \in Runs : Live(r) => run[r].age < Limit[TaskOf[r]]
  /\ run' = [r \in Runs |->
       [run[r] EXCEPT !.age = IF Live(r) THEN @ + 1 ELSE 0,
                      !.waited = IF run[r].pc = "waiting" /\ @ < WaitMax THEN @ + 1 ELSE @]]
  /\ UNCHANGED lock
TickPastZero ==
  /\ \A r \in Runs : Live(r) => run[r].age < Limit[TaskOf[r]]
  /\ lock' = [t \in Tasks |-> [lock[t] EXCEPT !.left = @ - 1]]
  /\ UNCHANGED run

Tick ==
  /\ \A r \in Runs : Live(r) => run[r].age < Limit[TaskOf[r]]
  /\ lock' = [t \in Tasks |-> [lock[t] EXCEPT !.left = IF @ > 0 THEN @ - 1 ELSE 0]]
  /\ run' = [r \in Runs |->
       [run[r] EXCEPT !.age = IF Live(r) THEN @ + 1 ELSE 0,
                      !.waited = IF run[r].pc = "waiting" /\ @ < WaitMax THEN @ + 1 ELSE @]]

Next == Tick \/ \E r \in Runs : Taking(r) \/ Working(r)

\* Time passes, and Celery does kill a run at its limit.
Overdue(r) == run[r].age = Limit[TaskOf[r]] /\ Kill(r)
Fairness == WF_vars(Tick) /\ \A r \in Runs : WF_vars(Overdue(r))

Spec == Init /\ [][Next]_vars
FairSpec == Spec /\ Fairness
-----------------------------------------------------------------------------
Phases == {"idle", "acquire", "inspect", "read", "delete", "retry",
           "held", "waiting", "working", "release"}

TypeOK ==
  /\ lock \in [Tasks -> Keys]
  /\ run \in [Runs -> [pc: Phases, age: Nat, waited: Nat, seen: Tokens,
                       exposed: BOOLEAN, late: BOOLEAN]]

\* A task whose key is held for longer than a run may last, and that never
\* deletes a key it did not set, has at most one run past its lock.
Alone(t) == \A r, s \in RunsOf(t) : Inside(r) /\ Inside(s) => r = s
Guarded(t) == t # "collector" /\ Ttl[t] > Limit[t]
OneRunEach == \A t \in Tasks : Guarded(t) => Alone(t)

\* A run that outlived its key does not take away the key of the run that
\* came after it.
ReleasesOwn ==
  [][\A r \in Runs : run[r].pc = "release" /\ lock' # lock /\ run'[r].pc = "idle"
       => lock[TaskOf[r]].by = r]_vars

\* The collector and the stability check work at the same time only when the
\* check has given up waiting, one of them could not read the other's key, or
\* another collector has taken the collector's key from it.
ParallelOnlyLate ==
  \A c \in RunsOf("collector"), s \in RunsOf("stability") :
    run[c].pc = "working" /\ run[s].pc = "working"
      => run[s].late \/ run[s].exposed \/ run[c].exposed

\* The key of a run that is gone does not block its task for ever.
Orphaned(t) == ~Free(t) /\ ~Inside(lock[t].by)
OrphansExpire == \A t \in Tasks : Orphaned(t) ~> ~Orphaned(t)

\* "previous run is still active": a run is skipped while another one works,
\* so no two runs of the task are past the lock.
CollectorAlone == Alone("collector")

(* Guarded tasks implement the abstract guard: the holder of a task is the *)
(* run past its lock.                                                       *)
Insiders(t) == {r \in RunsOf(t) : Guarded(t) /\ Inside(r)}
OneOf(S) == IF S = {} THEN Nobody ELSE CHOOSE r \in S : TRUE
Holder == [t \in Tasks |-> OneOf(Insiders(t))]
Guard == INSTANCE RunGuard WITH holder <- Holder

\* Whoever delivers a guarded task, and however its runs end, its runs take
\* turns: RunGuard's behaviours are all that can be seen of them.
GuardSpec == Guard!Spec
=============================================================================
