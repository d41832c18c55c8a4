------------------------------ MODULE BatchRun ------------------------------
(***************************************************************************)
(* One call of process() of the batch processors (utils/batch_processor.py)*)
(* that the collector, the recheck, the stability check and the import run *)
(* their items through: a producer fills a bounded asyncio queue, worker   *)
(* coroutines take items, handle them under a watchdog and count results.  *)
(*                                                                         *)
(* "batch" is BatchProcessor (stability, import): twice as many workers as *)
(* permits.  The other kinds are CpuAdaptiveProcessor, whose monitor moves *)
(* the number of items in flight and which cancels its workers when the    *)
(* whole batch is out of time.  A cancelled handler of the collector stops *)
(* ("stops"); the recheck's answers with a failure ("absorbs").            *)
(*                                                                         *)
(* A step is what a coroutine does between two awaits.  _cancelled is left *)
(* out: it is set when process() is about to return or has, and by then    *)
(* nobody reads it.                                                        *)
(***************************************************************************)
EXTENDS Integers, FiniteSets

CONSTANTS
  Kinds,           \* the processors and handlers of an instance
  MaxItems,        \* longest list of items
  WorkerCount,     \* worker_count: permits of the semaphore
  MaxWorkers, MinWorkers, InitialWorkers,  \* of CpuAdaptiveProcessor
  Gains,           \* how much the monitor adds: 10, 20 or 50
  AdaptiveQueue    \* size of its queue, 1000

ASSUME BatchRunAssumption ==
  /\ Kinds \subseteq {"batch", "stops", "absorbs"}
  /\ {MaxItems, InitialWorkers} \subseteq Nat /\ Gains \subseteq Nat
  /\ {WorkerCount, MaxWorkers, AdaptiveQueue} \subseteq Nat \ {0}
  /\ MinWorkers \in 1..MaxWorkers /\ InitialWorkers > 0

VARIABLES
  job,      \* the kind of processor and the number of items
  prod,     \* producer(): running, done or cancelled
  made,     \* items put in the queue so far, in their order
  taken,    \* items taken from it: the queue holds taken + 1 .. made
  worker,   \* worker[w]: where a worker is, and the item in its hands
  stats,    \* the counters, and the items that have an entry in stats["items"]
  active,   \* active_tasks_count
  level,    \* current_concurrency
  phase,    \* of process(): gathering, cancelling (out of time), returned
  late,     \* history: the batch has run out of time
  fate      \* history: what has become of an item

vars == <<job, prod, made, taken, worker, stats, active, level, phase, late, fate>>

Least(a, b) == IF a < b THEN a ELSE b
Most(a, b) == IF a < b THEN b ELSE a

Adaptive == job.kind # "batch"
N == job.n
QueueSize == IF Adaptive THEN AdaptiveQueue ELSE 3 * WorkerCount

\* num_workers
CrewOf(j) == Least(IF j.kind = "batch" THEN 2 * WorkerCount ELSE MaxWorkers, j.n)
Crew == 1..CrewOf(job)

AtLoop == [pc |-> "loop", item |-> 0]
Gone == [pc |-> "gone", item |-> 0]
Holding(pc, i) == [pc |-> pc, item |-> i]
In(pc) == {w \in Crew : worker[w].pc = pc}
InHand(w) == worker[w].pc \in {"sem", "busy", "hit"}

Queued == (taken + 1)..made

Init ==
  /\ job \in [kind : Kinds, n : 0..MaxItems]
  /\ prod = "running" /\ made = 0 /\ taken = 0
  /\ worker = [w \in Crew |-> AtLoop]
  /\ stats = [completed |-> 0, success |-> 0, failed |-> 0, items |-> {}]
  /\ active = 0
  /\ level = InitialWorkers
  /\ phase = "gathering" /\ late = FALSE
  /\ fate = [i \in 1..MaxItems |-> IF i <= N THEN "none" ELSE "unasked"]

Moves(w, st) == worker' = [worker EXCEPT ![w] = st]
-----------------------------------------------------------------------------
(* The producer and the way into a handler. *)

\* Mutant: the producer does not stop at the end of the list.
ProducePast ==
  /\ prod = "running" /\ phase # "returned"
  /\ made < taken + QueueSize
  /\ made' = taken + QueueSize
  /\ prod' = IF made' >= N THEN "done" ELSE prod
  /\ UNCHANGED <<job, taken, worker, stats, active, level, phase, late, fate>>

\* put() suspends only on a full queue: the producer fills it and stops.
Produce ==
  /\ prod = "running" /\ phase # "returned"
  /\ made < taken + QueueSize
  /\ made' = Least(N, taken + QueueSize)
  /\ prod' = IF made' = N THEN "done" ELSE prod
  /\ UNCHANGED <<job, taken, worker, stats, active, level, phase, late, fate>>

\* Mutant: an empty queue is taken for the end of the list.
ExitOnEmpty(w) ==
  /\ worker[w].pc = "loop" /\ Queued = {}
  /\ Moves(w, Gone)
  /\ UNCHANGED <<job, prod, made, taken, stats, active, level, phase, late, fate>>

Exit(w) ==
  /\ worker[w].pc = "loop"
  /\ prod = "done" /\ Queued = {}
  /\ Moves(w, Gone)
  /\ UNCHANGED <<job, prod, made, taken, stats, active, level, phase, late, fate>>

\* get(): the next item goes to w, which goes on as pc.
Take(w, pc) ==
  /\ worker[w].pc = "loop" /\ Queued # {}
  /\ taken' = taken + 1
  /\ Moves(w, Holding(pc, taken + 1))

\* An empty queue makes a worker wait a second and look again.
Fetch(w) ==
  /\ ~Adaptive /\ Take(w, "sem")
  /\ UNCHANGED <<job, prod, made, stats, active, level, phase, late, fate>>

\* Mutant: the handler starts without a permit.
AdmitAll(w) ==
  /\ worker[w].pc = "sem"
  /\ Moves(w, [worker[w] EXCEPT !.pc = "busy"])
  /\ UNCHANGED <<job, prod, made, taken, stats, active, level, phase, late, fate>>

Admit(w) ==
  /\ worker[w].pc = "sem" /\ Cardinality(In("busy")) < WorkerCount
  /\ Moves(w, [worker[w] EXCEPT !.pc = "busy"])
  /\ UNCHANGED <<job, prod, made, taken, stats, active, level, phase, late, fate>>

\* Adaptive workers look at the level and take an item in one step.
TakeNow(w) ==
  /\ Adaptive /\ active < level /\ Take(w, "busy")
  /\ active' = active + 1
  /\ UNCHANGED <<job, prod, made, stats, level, phase, late, fate>>
-----------------------------------------------------------------------------
(* The way out of a handler. *)

\* The item of w is counted, and listed or not, and w looks for another.
Count(w, how, listed) ==
  LET i == worker[w].item
      inc(b) == IF b THEN 1 ELSE 0
  IN  /\ stats' = [completed |-> stats.completed + 1,
                   success |-> stats.success + inc(how = "ok"),
                   failed |-> stats.failed + inc(how = "bad"),
                   items |-> IF listed THEN stats.items \cup {i} ELSE stats.items]
      /\ fate' = [fate EXCEPT ![i] = how]
      /\ Moves(w, AtLoop)

Release == active' = IF Adaptive THEN active - 1 ELSE active

\* The handler returns.  The recheck collects no results.
Finish(w) ==
  /\ worker[w].pc = "busy"
  /\ \E how \in {"ok", "bad"} : Count(w, how, job.kind # "absorbs")
  /\ Release
  /\ UNCHANGED <<job, prod, made, taken, level, phase, late>>

\* Mutants: the watchdog leaves the handler running, and its answer is counted
\* as well; the counter of active items is decremented on success only.
GiveUpEarly(w) ==
  /\ worker[w].pc = "busy"
  /\ stats' = [stats EXCEPT !.completed = @ + 1, !.failed = @ + 1]
  /\ fate' = [fate EXCEPT ![worker[w].item] = "bad"]
  /\ UNCHANGED <<job, prod, made, taken, worker, active, level, phase, late>>
GiveUpLeaks(w) ==
  /\ worker[w].pc = "busy"
  /\ Count(w, "bad", ~Adaptive)
  /\ UNCHANGED <<job, prod, made, taken, active, level, phase, late>>

\* It raises (a soft time limit of Celery that hits it too), or is cancelled by
\* the watchdog after 45 or 90 seconds.  Only "batch" lists the item.
GiveUp(w) ==
  /\ worker[w].pc = "busy"
  /\ Count(w, "bad", ~Adaptive)
  /\ Release
  /\ UNCHANGED <<job, prod, made, taken, level, phase, late>>
-----------------------------------------------------------------------------
(* The monitor and the end. *)

\* Short of memory, short of CPU, or neither.
Monitor ==
  /\ Adaptive /\ phase # "returned" /\ stats.completed < N
  /\ \E new \in {Most(MinWorkers, level \div 2), Most(MinWorkers, (4 * level) \div 5)}
                  \cup {level + g : g \in Gains} :
       level' = Least(new, MaxWorkers)
  /\ UNCHANGED <<job, prod, made, taken, worker, stats, active, phase, late, fate>>

\* Mutant: workers that sleep are not cancelled.
OutOfTimeBusyOnly ==
  /\ Adaptive /\ phase = "gathering" /\ \E w \in Crew : worker[w].pc # "gone"
  /\ worker' = [w \in Crew |->
       IF worker[w].pc = "busy" THEN Holding("hit", worker[w].item) ELSE worker[w]]
  /\ phase' = "cancelling" /\ late' = TRUE
  /\ UNCHANGED <<job, prod, made, taken, stats, active, level, fate>>

\* wait_for cancels the gather, and it its workers, each once: a worker that
\* sleeps is gone, a busy one has the cancellation in its handler.
OutOfTime ==
  /\ Adaptive /\ phase = "gathering" /\ \E w \in Crew : worker[w].pc # "gone"
  /\ worker' = [w \in Crew |->
       IF worker[w].pc = "busy" THEN Holding("hit", worker[w].item) ELSE Gone]
  /\ phase' = "cancelling" /\ late' = TRUE
  /\ UNCHANGED <<job, prod, made, taken, stats, active, level, fate>>

\* The handler lets the cancellation through: its item is counted nowhere.
Stopped(w) ==
  /\ worker[w].pc = "hit" /\ job.kind = "stops"
  /\ fate' = [fate EXCEPT ![worker[w].item] = "lost"]
  /\ Moves(w, Gone)
  /\ Release
  /\ UNCHANGED <<job, prod, made, taken, stats, level, phase, late>>

\* The handler answers it with (False, ...): the worker counts that and goes on.
Absorbed(w) ==
  /\ worker[w].pc = "hit" /\ job.kind = "absorbs"
  /\ Count(w, "bad", FALSE)
  /\ Release
  /\ UNCHANGED <<job, prod, made, taken, level, phase, late>>

\* All workers are gone: whatever is left of the producer is cancelled.
Return ==
  /\ phase # "returned" /\ \A w \in Crew : worker[w].pc = "gone"
  /\ phase' = "returned"
  /\ prod' = IF prod = "done" THEN prod ELSE "cancelled"
  /\ UNCHANGED <<job, made, taken, worker, stats, active, level, late, fate>>

Step(w) == Exit(w) \/ Fetch(w) \/ Admit(w) \/ TakeNow(w) \/ Finish(w) \/ GiveUp(w)
           \/ Stopped(w) \/ Absorbed(w)

Next == Produce \/ Monitor \/ OutOfTime \/ Return \/ \E w \in Crew : Step(w)

Spec == Init /\ [][Next]_vars

\* The event loop runs what is ready, and the watchdog ends every handler.
Fairness ==
  /\ WF_vars(Produce) /\ WF_vars(Return)
  /\ \A w \in 1..(MaxWorkers + 2 * WorkerCount) : WF_vars(w \in Crew /\ Step(w))
FairSpec == Spec /\ Fairness
-----------------------------------------------------------------------------
TypeOK ==
  /\ job \in [kind : Kinds, n : 0..MaxItems]
  /\ prod \in {"running", "done", "cancelled"}
  /\ taken \in 0..made /\ made \in 0..N
  /\ worker \in [Crew -> [pc : {"loop", "sem", "busy", "hit", "gone"}, item : 0..N]]
  /\ stats \in [completed : Nat, success : Nat, failed : Nat, items : SUBSET (1..N)]
  /\ active \in Int
  /\ level \in Nat \ {0}
  /\ phase \in {"gathering", "cancelling", "returned"} /\ late \in BOOLEAN
  /\ fate \in [1..MaxItems -> {"unasked", "none", "ok", "bad", "lost"}]

\* The numbers in the BatchResult, from which the import and the collector write
\* their reports, are those of what became of the items, and the list of
\* results has an entry for each item counted (of the collector's, for each
\* whose handler answered).
With(how) == {i \in 1..MaxItems : fate[i] = how}
Tally ==
  /\ stats.success = Cardinality(With("ok"))
  /\ stats.failed = Cardinality(With("bad"))
  /\ stats.completed = stats.success + stats.failed
  /\ job.kind = "batch" => stats.items = With("ok") \cup With("bad")
  /\ job.kind = "stops" => With("ok") \subseteq stats.items

\* BatchProcessor never handles more items at once than it has permits, though
\* it has twice as many workers.
PermitsKept == ~Adaptive => Cardinality(In("busy")) <= WorkerCount

\* Once the collector's batch is out of time no further link is checked.
NothingStartsLate == [][late /\ job.kind = "stops" => taken' = taken]_vars

\* process() returns, whatever its handlers do and whenever it is cancelled:
\* no worker waits for a producer that waits for the workers.
Returns == <>(phase = "returned")

(* The processors keep the promise of BatchPromise. *)
Promise == INSTANCE BatchPromise WITH
  Items <- 1..MaxItems, outcome <- fate, over <- (phase = "returned")

\* An item is settled once and for good, and a batch that returns in time has
\* settled every item.
PromiseSpec == Promise!Spec
=============================================================================
