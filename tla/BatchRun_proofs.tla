--------------------------- MODULE BatchRun_proofs ---------------------------
(***************************************************************************)
(* Proofs about one call of a batch processor, for lists of any length and *)
(* any numbers of workers, permits and places in the queue.                *)
(***************************************************************************)
EXTENDS BatchRun, FiniteSetTheorems, TLAPS

\* An item in a worker's hands has been taken and has no outcome yet.
HandsHoldOpenItems ==
  \A w \in Crew : InHand(w) =>
    worker[w].item \in 1..taken /\ fate[worker[w].item] = "none"

\* No item is in the hands of two workers.
HandsApart ==
  \A v, w \in Crew : InHand(v) /\ InHand(w) /\ worker[v].item = worker[w].item => v = w

\* An item that was taken and has no outcome is in some worker's hands; one
\* that was not taken has none.
NothingDropped ==
  \A i \in 1..MaxItems :
    /\ fate[i] = "none" => i <= N /\ (i > taken \/ \E w \in Crew : InHand(w) /\ worker[w].item = i)
    /\ i > N => fate[i] = "unasked"
    /\ i \in (taken + 1)..N => fate[i] = "none"

\* In time, workers leave only when there is nothing left to take.
LeaveAtTheEnd ==
  /\ prod = "done" => made = N
  /\ ~late => \A w \in Crew : worker[w].pc = "gone" => prod = "done" /\ taken = made

\* Where the batch is: workers are hit, and the collector's take nothing, once
\* it is out of time; all are gone when it has returned.
PhasesAgree ==
  /\ phase = "gathering" => ~late
  /\ phase = "cancelling" => late
  /\ \A w \in Crew : worker[w].pc = "hit" => late
  /\ late => Adaptive
  /\ Adaptive => \A w \in Crew : worker[w].pc # "sem"
  /\ late /\ job.kind = "stops" => \A w \in Crew : worker[w].pc \in {"hit", "gone"}
  /\ phase = "returned" => \A w \in Crew : worker[w].pc = "gone"

IInv == /\ TypeOK /\ HandsHoldOpenItems /\ HandsApart /\ NothingDropped
        /\ LeaveAtTheEnd /\ PhasesAgree
-----------------------------------------------------------------------------
LEMMA Sizes ==
  ASSUME TypeOK
  PROVE  /\ N \in Nat /\ N <= MaxItems /\ MaxItems \in Nat
         /\ taken \in Nat /\ taken <= made /\ made \in Nat /\ made <= N
         /\ QueueSize \in Nat \ {0}
         /\ CrewOf(job) \in Nat /\ (N > 0 => CrewOf(job) > 0)
         /\ Crew \subseteq Nat
         /\ \A w \in Crew : worker[w] \in [pc : {"loop", "sem", "busy", "hit", "gone"}, item : 0..N]
<1>1. /\ MaxItems \in Nat /\ WorkerCount \in Nat /\ WorkerCount > 0
      /\ MaxWorkers \in Nat /\ MaxWorkers > 0 /\ AdaptiveQueue \in Nat /\ AdaptiveQueue > 0
  BY BatchRunAssumption
<1>2. job.n \in Nat /\ job.n <= MaxItems BY <1>1 DEF TypeOK
<1>3. CrewOf(job) \in Nat /\ (job.n > 0 => CrewOf(job) > 0)
  BY <1>1, <1>2 DEF CrewOf, Least
<1>4. QueueSize \in Nat \ {0} BY <1>1 DEF QueueSize
<1>5. \A w \in Crew : worker[w] \in [pc : {"loop", "sem", "busy", "hit", "gone"}, item : 0..N]
  BY DEF TypeOK
<1>6. taken \in Nat /\ taken <= made /\ made \in Nat /\ made <= job.n
  BY <1>2 DEF TypeOK, N
<1> QED BY <1>1, <1>2, <1>3, <1>4, <1>5, <1>6 DEF N, Crew

LEMMA InitIInv == Init => IInv
<1> SUFFICES ASSUME Init PROVE IInv OBVIOUS
<1>1. job \in [kind : Kinds, n : 0..MaxItems] /\ N \in 0..MaxItems BY DEF Init, N
<1>2. \A w \in Crew : worker[w] = AtLoop BY DEF Init
<1>3. TypeOK
  <2>1. MaxItems \in Nat /\ InitialWorkers \in Nat \ {0} BY BatchRunAssumption
  <2>3. N \in Nat /\ 0 \in 0..N BY <1>1, <2>1
  <2>4. level \in Nat \ {0} BY <2>1 DEF Init
  <2>2. worker \in [Crew -> [pc : {"loop", "sem", "busy", "hit", "gone"}, item : 0..N]]
    BY <2>3 DEF Init, AtLoop
  <2>5. stats \in [completed : Nat, success : Nat, failed : Nat, items : SUBSET (1..N)]
    BY DEF Init
  <2>6. fate \in [1..MaxItems -> {"unasked", "none", "ok", "bad", "lost"}]
    BY DEF Init
  <2>7. /\ prod = "running" /\ taken \in 0..made /\ made \in 0..N /\ active \in Int
        /\ phase = "gathering" /\ late \in BOOLEAN
    <3>1. /\ prod = "running" /\ taken = 0 /\ made = 0 /\ active = 0
          /\ phase = "gathering" /\ late = FALSE
      BY DEF Init
    <3>2. taken \in 0..made /\ made \in 0..N /\ active \in Int BY <2>3, <3>1
    <3> QED BY <3>1, <3>2
  <2> QED BY <1>1, <2>2, <2>4, <2>5, <2>6, <2>7 DEF TypeOK
<1>4. \A w \in Crew : worker[w].pc = "loop" BY <1>2 DEF AtLoop
<1> QED BY <1>1, <1>3, <1>4 DEF Init, IInv, HandsHoldOpenItems, HandsApart, NothingDropped,
      LeaveAtTheEnd, PhasesAgree, InHand

\* An item leaves a worker's hands with an outcome.
LEMMA Outcome ==
  ASSUME IInv, NEW w \in Crew, worker[w].pc \in {"busy", "hit"},
         NEW how \in {"ok", "bad", "lost"}, NEW st \in {AtLoop, Gone},
         fate' = [fate EXCEPT ![worker[w].item] = how],
         worker' = [worker EXCEPT ![w] = st],
         st = Gone => late,
         st = AtLoop => ~(late /\ job.kind = "stops"),
         UNCHANGED <<job, prod, made, taken, phase, late>>
  PROVE  /\ HandsHoldOpenItems' /\ HandsApart' /\ NothingDropped'
         /\ LeaveAtTheEnd' /\ PhasesAgree'
         /\ worker' \in [Crew -> [pc : {"loop", "sem", "busy", "hit", "gone"}, item : 0..N]]
         /\ fate' \in [1..MaxItems -> {"unasked", "none", "ok", "bad", "lost"}]
<1> DEFINE i == worker[w].item
<1>0. /\ N \in Nat /\ N <= MaxItems /\ MaxItems \in Nat
      /\ taken \in Nat /\ taken <= made /\ made \in Nat /\ made <= N
  BY Sizes DEF IInv
<1> USE <1>0 DEF IInv
<1>1. /\ Crew' = Crew /\ N' = N /\ (Adaptive' <=> Adaptive)
  BY DEF Crew, N, Adaptive
<1>2. InHand(w) /\ i \in 1..taken /\ fate[i] = "none" /\ i \in 1..MaxItems
  BY DEF InHand, HandsHoldOpenItems, TypeOK
<1>3. /\ worker'[w] = st /\ st.pc \in {"loop", "gone"} /\ ~InHand(w)'
      /\ \A v \in Crew : v # w => worker'[v] = worker[v] /\ (InHand(v)' <=> InHand(v))
      /\ worker' \in [Crew -> [pc : {"loop", "sem", "busy", "hit", "gone"}, item : 0..N]]
  BY DEF TypeOK, AtLoop, Gone, InHand
<1>4. /\ fate'[i] = how
      /\ \A k \in 1..MaxItems : k # i => fate'[k] = fate[k]
      /\ fate' \in [1..MaxItems -> {"unasked", "none", "ok", "bad", "lost"}]
  BY <1>2 DEF TypeOK
<1>5. HandsHoldOpenItems'
  <2> SUFFICES ASSUME NEW v \in Crew, v # w, InHand(v)
               PROVE  worker[v].item \in 1..taken /\ fate'[worker[v].item] = "none"
    BY <1>1, <1>3 DEF HandsHoldOpenItems
  <2>1. worker[v].item # i BY <1>2 DEF HandsApart
  <2>2. worker[v].item \in 1..taken /\ worker[v].item \in 1..MaxItems /\ fate[worker[v].item] = "none"
    BY DEF HandsHoldOpenItems, TypeOK
  <2> QED BY <2>1, <2>2, <1>4
<1>6. HandsApart' BY <1>1, <1>3 DEF HandsApart
<1>7. NothingDropped'
  <2> SUFFICES ASSUME NEW k \in 1..MaxItems
               PROVE  /\ fate'[k] = "none" =>
                           k <= N /\ (k > taken \/ \E v \in Crew : InHand(v)' /\ worker'[v].item = k)
                      /\ k > N => fate'[k] = "unasked"
                      /\ k \in (taken + 1)..N => fate'[k] = "none"
    BY <1>1 DEF NothingDropped
  <2>1. CASE k = i BY <2>1, <1>2, <1>4 DEF TypeOK
  <2>2. CASE k # i
    <3>1. fate'[k] = fate[k] BY <2>2, <1>4
    <3>2. ASSUME NEW v \in Crew, InHand(v), worker[v].item = k
          PROVE  InHand(v)' /\ worker'[v].item = k
      BY <3>2, <2>2, <1>3
    <3> QED BY <3>1, <3>2 DEF NothingDropped
  <2> QED BY <2>1, <2>2
<1>8. LeaveAtTheEnd' BY <1>1, <1>3 DEF LeaveAtTheEnd, AtLoop, Gone
<1>9. PhasesAgree'
  <2>1. phase # "returned" BY DEF PhasesAgree
  <2> QED BY <2>1, <1>1, <1>3 DEF PhasesAgree, AtLoop, Gone
<1> QED BY <1>3, <1>4, <1>5, <1>6, <1>7, <1>8, <1>9

\* A step of the inductive invariant's parts, when hands and outcomes stay.
LEMMA HandsStay ==
  ASSUME IInv, UNCHANGED <<job, taken, fate, late>>,
         worker' \in [Crew -> [pc : {"loop", "sem", "busy", "hit", "gone"}, item : 0..N]],
         \A w \in Crew : InHand(w)' <=> InHand(w),
         \A w \in Crew : InHand(w) => worker'[w].item = worker[w].item
  PROVE  HandsHoldOpenItems' /\ HandsApart' /\ NothingDropped'
<1>1. /\ Crew' = Crew /\ N' = N BY DEF Crew, N
<1> QED BY <1>1 DEF IInv, HandsHoldOpenItems, HandsApart, NothingDropped

LEMMA ProduceStep == ASSUME IInv, Produce PROVE IInv'
<1>0. /\ N \in Nat /\ N <= MaxItems /\ MaxItems \in Nat /\ QueueSize \in Nat \ {0}
      /\ taken \in Nat /\ taken <= made /\ made \in Nat /\ made <= N
  BY Sizes DEF IInv
<1>1. /\ Crew' = Crew /\ N' = N /\ (Adaptive' <=> Adaptive)
  BY DEF Produce, Crew, N, Adaptive
<1>2. made' \in taken..N /\ made' \in 0..N /\ taken' \in 0..made'
  BY <1>0 DEF Produce, Least
<1>3. prod' \in {"running", "done"} /\ (prod' = "done" => made' = N) /\ prod = "running"
  BY DEF Produce
<1>4. TypeOK'
  BY <1>1, <1>2, <1>3 DEF Produce, IInv, TypeOK
<1>5. HandsHoldOpenItems' /\ HandsApart' /\ NothingDropped'
  BY HandsStay, <1>1 DEF Produce, IInv, TypeOK, InHand
<1>6. LeaveAtTheEnd' /\ PhasesAgree'
  BY <1>1, <1>3 DEF Produce, IInv, LeaveAtTheEnd, PhasesAgree
<1> QED BY <1>4, <1>5, <1>6 DEF IInv

LEMMA MonitorStep == ASSUME IInv, Monitor PROVE IInv'
<1>1. /\ Crew' = Crew /\ N' = N /\ (Adaptive' <=> Adaptive)
  BY DEF Monitor, Crew, N, Adaptive
<1>2. level' \in Nat \ {0}
  <2>1. /\ level \in Nat \ {0} /\ MinWorkers \in Nat \ {0} /\ MaxWorkers \in Nat \ {0}
        /\ \A g \in Gains : g \in Nat
    BY BatchRunAssumption DEF IInv, TypeOK
  <2>2. ASSUME NEW x \in Nat PROVE Most(MinWorkers, x) \in Nat \ {0} BY <2>1 DEF Most
  <2>3. level \div 2 \in Nat /\ (4 * level) \div 5 \in Nat BY <2>1
  <2>4. PICK new \in {Most(MinWorkers, level \div 2), Most(MinWorkers, (4 * level) \div 5)}
                       \cup {level + g : g \in Gains} : level' = Least(new, MaxWorkers)
    BY DEF Monitor
  <2>5. new \in Nat \ {0} BY <2>1, <2>2, <2>3, <2>4
  <2> QED BY <2>1, <2>4, <2>5 DEF Least
<1>3. TypeOK' BY <1>1, <1>2 DEF Monitor, IInv, TypeOK
<1>4. HandsHoldOpenItems' /\ HandsApart' /\ NothingDropped'
  BY HandsStay, <1>1 DEF Monitor, IInv, TypeOK, InHand
<1> QED BY <1>1, <1>3, <1>4 DEF Monitor, IInv, LeaveAtTheEnd, PhasesAgree

LEMMA ExitStep == ASSUME IInv, NEW w \in Crew, Exit(w) PROVE IInv'
<1>0. /\ taken \in Nat /\ taken <= made /\ made \in Nat BY Sizes DEF IInv
<1>1. /\ Crew' = Crew /\ N' = N /\ (Adaptive' <=> Adaptive)
  BY DEF Exit, Crew, N, Adaptive
<1>2. worker' \in [Crew -> [pc : {"loop", "sem", "busy", "hit", "gone"}, item : 0..N]]
  BY Sizes DEF Exit, Moves, Gone, IInv, TypeOK
<1>3. \A v \in Crew : worker'[v] = IF v = w THEN Gone ELSE worker[v]
  BY DEF Exit, Moves, IInv, TypeOK
<1>4. prod = "done" /\ taken = made
  BY <1>0 DEF Exit, Queued
<1>5. TypeOK' BY <1>1, <1>2 DEF Exit, IInv, TypeOK
<1>6. HandsHoldOpenItems' /\ HandsApart' /\ NothingDropped'
  BY HandsStay, <1>1, <1>2, <1>3 DEF Exit, InHand, Gone
<1>7. LeaveAtTheEnd' BY <1>1, <1>4 DEF Exit, IInv, LeaveAtTheEnd
<1>8. PhasesAgree' BY <1>1, <1>3 DEF Exit, IInv, PhasesAgree, Gone
<1> QED BY <1>5, <1>6, <1>7, <1>8 DEF IInv

LEMMA AdmitStep == ASSUME IInv, NEW w \in Crew, Admit(w) PROVE IInv'
<1>1. /\ Crew' = Crew /\ N' = N /\ (Adaptive' <=> Adaptive)
  BY DEF Admit, Crew, N, Adaptive
<1>2. /\ worker' \in [Crew -> [pc : {"loop", "sem", "busy", "hit", "gone"}, item : 0..N]]
      /\ \A v \in Crew : v # w => worker'[v] = worker[v]
      /\ worker'[w].pc = "busy" /\ worker'[w].item = worker[w].item
  BY DEF Admit, Moves, IInv, TypeOK
<1>3. TypeOK' BY <1>1, <1>2 DEF Admit, IInv, TypeOK
<1>4. HandsHoldOpenItems' /\ HandsApart' /\ NothingDropped'
  BY HandsStay, <1>1, <1>2 DEF Admit, InHand
<1>5. LeaveAtTheEnd' BY <1>1, <1>2 DEF Admit, IInv, LeaveAtTheEnd
<1>6. PhasesAgree' BY <1>1, <1>2 DEF Admit, IInv, PhasesAgree
<1> QED BY <1>3, <1>4, <1>5, <1>6 DEF IInv

LEMMA TakeStep ==
  ASSUME IInv, NEW w \in Crew, Fetch(w) \/ TakeNow(w)
  PROVE  IInv'
<1>0. /\ N \in Nat /\ N <= MaxItems /\ MaxItems \in Nat
      /\ taken \in Nat /\ taken <= made /\ made \in Nat /\ made <= N
  BY Sizes DEF IInv
<1>1. /\ Crew' = Crew /\ N' = N /\ (Adaptive' <=> Adaptive)
      /\ UNCHANGED <<job, prod, made, stats, level, phase, late, fate>>
      /\ worker[w].pc = "loop" /\ Queued # {} /\ taken' = taken + 1
  BY DEF Fetch, TakeNow, Take, Crew, N, Adaptive
<1> DEFINE i == taken + 1
<1>2. taken + 1 <= made /\ i \in 1..N /\ i \in 1..MaxItems
  BY <1>0, <1>1 DEF Queued
<1>3. PICK pc \in {"sem", "busy"} : worker' = [worker EXCEPT ![w] = Holding(pc, i)]
  BY DEF Fetch, TakeNow, Take, Moves
<1>4. /\ worker' \in [Crew -> [pc : {"loop", "sem", "busy", "hit", "gone"}, item : 0..N]]
      /\ \A v \in Crew : v # w => worker'[v] = worker[v] /\ (InHand(v)' <=> InHand(v))
      /\ worker'[w].item = i /\ worker'[w].pc = pc /\ InHand(w)' /\ ~InHand(w)
  BY <1>0, <1>1, <1>2, <1>3 DEF IInv, TypeOK, Holding, InHand
<1>5. active' \in Int BY DEF Fetch, TakeNow, IInv, TypeOK
<1>6. TypeOK' BY <1>0, <1>1, <1>2, <1>4, <1>5 DEF IInv, TypeOK
<1>7. fate[i] = "none" BY <1>2, <1>0 DEF IInv, NothingDropped
<1>8. HandsHoldOpenItems'
  BY <1>0, <1>1, <1>2, <1>4, <1>7 DEF IInv, HandsHoldOpenItems
<1>9. HandsApart'
  <2>1. \A v \in Crew : InHand(v) => worker[v].item # i
    BY <1>0 DEF IInv, HandsHoldOpenItems
  <2> QED BY <2>1, <1>1, <1>4 DEF IInv, HandsApart
<1>10. NothingDropped'
  <2> SUFFICES ASSUME NEW k \in 1..MaxItems
               PROVE  /\ fate[k] = "none" =>
                           k <= N /\ (k > taken + 1 \/ \E v \in Crew : InHand(v)' /\ worker'[v].item = k)
                      /\ k > N => fate[k] = "unasked"
                      /\ k \in (taken + 1 + 1)..N => fate[k] = "none"
    BY <1>1 DEF NothingDropped
  <2>1. CASE k = i BY <2>1, <1>2, <1>4, <1>7, <1>0
  <2>2. CASE k # i
    <3>1. ASSUME NEW v \in Crew, InHand(v), worker[v].item = k
          PROVE  InHand(v)' /\ worker'[v].item = k
      BY <3>1, <1>4
    <3> QED BY <2>2, <3>1, <1>0 DEF IInv, NothingDropped
  <2> QED BY <2>1, <2>2
<1>11. LeaveAtTheEnd'
  <2>1. late \/ \A v \in Crew : worker[v].pc # "gone"
    BY <1>0, <1>2 DEF IInv, LeaveAtTheEnd
  <2>2. \A v \in Crew : worker'[v].pc = "gone" => worker[v].pc = "gone"
    BY <1>4
  <2> QED BY <2>1, <2>2, <1>1 DEF IInv, LeaveAtTheEnd
<1>12. PhasesAgree'
  <2>1. Adaptive => worker'[w].pc = "busy"
    BY <1>0, <1>4 DEF Fetch, TakeNow, Take, Moves, Holding, IInv, TypeOK
  <2> QED BY <2>1, <1>1, <1>4 DEF IInv, PhasesAgree
<1> QED BY <1>6, <1>8, <1>9, <1>10, <1>11, <1>12 DEF IInv

\* Counting an item, and giving one up.
LEMMA SettleStep ==
  ASSUME IInv, NEW w \in Crew, Finish(w) \/ GiveUp(w) \/ Absorbed(w) \/ Stopped(w)
  PROVE  IInv'
<1>0. /\ N \in Nat /\ N <= MaxItems /\ MaxItems \in Nat
      /\ taken \in Nat /\ taken <= made /\ made \in Nat /\ made <= N
  BY Sizes DEF IInv
<1>1. /\ UNCHANGED <<job, prod, made, taken, level, phase, late>>
      /\ worker[w].pc \in {"busy", "hit"} /\ Release
  BY DEF Finish, GiveUp, Absorbed, Stopped
<1>2. /\ Crew' = Crew /\ N' = N
  BY <1>1 DEF Crew, N
<1>3. worker[w].item \in 1..N
  BY <1>0, <1>1 DEF IInv, HandsHoldOpenItems, InHand
<1>4. active' \in Int BY <1>1 DEF Release, IInv, TypeOK
<1>5. stats' \in [completed : Nat, success : Nat, failed : Nat, items : SUBSET (1..N)]
  <2>1. ASSUME NEW how \in {"ok", "bad"}, NEW listed \in BOOLEAN, Count(w, how, listed)
        PROVE  stats' \in [completed : Nat, success : Nat, failed : Nat, items : SUBSET (1..N)]
    BY <2>1, <1>3 DEF Count, IInv, TypeOK
  <2>2. CASE Stopped(w) BY <2>2 DEF Stopped, IInv, TypeOK
  <2> QED BY <2>1, <2>2 DEF Finish, GiveUp, Absorbed, Adaptive
<1>6. \E how \in {"ok", "bad", "lost"}, st \in {AtLoop, Gone} :
        /\ fate' = [fate EXCEPT ![worker[w].item] = how]
        /\ worker' = [worker EXCEPT ![w] = st]
        /\ st = Gone => late
        /\ st = AtLoop => ~(late /\ job.kind = "stops")
  <2>1. AtLoop # Gone BY DEF AtLoop, Gone
  <2>2. CASE Stopped(w)
    BY <2>1, <2>2 DEF Stopped, Moves, IInv, PhasesAgree
  <2>3. CASE Absorbed(w)
    BY <2>1, <2>3 DEF Absorbed, Count, Moves
  <2>4. CASE Finish(w) \/ GiveUp(w)
    <3>1. ~(late /\ job.kind = "stops")
      BY <2>4 DEF Finish, GiveUp, IInv, PhasesAgree
    <3> QED BY <2>1, <2>4, <3>1 DEF Finish, GiveUp, Count, Moves
  <2> QED BY <2>2, <2>3, <2>4
<1>7. /\ HandsHoldOpenItems' /\ HandsApart' /\ NothingDropped'
      /\ LeaveAtTheEnd' /\ PhasesAgree'
      /\ worker' \in [Crew -> [pc : {"loop", "sem", "busy", "hit", "gone"}, item : 0..N]]
      /\ fate' \in [1..MaxItems -> {"unasked", "none", "ok", "bad", "lost"}]
  BY <1>1, <1>6, Outcome
<1>8. TypeOK' BY <1>0, <1>1, <1>2, <1>4, <1>5, <1>7 DEF IInv, TypeOK
<1> QED BY <1>7, <1>8 DEF IInv

LEMMA OutOfTimeStep == ASSUME IInv, OutOfTime PROVE IInv'
<1>1. /\ Crew' = Crew /\ N' = N /\ (Adaptive' <=> Adaptive) /\ Adaptive /\ late' = TRUE
      /\ phase' = "cancelling" /\ UNCHANGED <<job, prod, made, taken, stats, active, level, fate>>
  BY DEF OutOfTime, Crew, N, Adaptive
<1>2. /\ \A v \in Crew : worker'[v].pc \in {"hit", "gone"}
      /\ \A v \in Crew : worker[v].pc = "busy" <=> worker'[v].pc = "hit"
      /\ \A v \in Crew : worker[v].pc = "busy" => worker'[v].item = worker[v].item
      /\ worker' \in [Crew -> [pc : {"loop", "sem", "busy", "hit", "gone"}, item : 0..N]]
  BY Sizes DEF OutOfTime, Holding, Gone, IInv, TypeOK
<1>3. /\ \A v \in Crew : InHand(v)' <=> InHand(v)
      /\ \A v \in Crew : InHand(v) => worker'[v].item = worker[v].item
  BY <1>1, <1>2 DEF OutOfTime, InHand, IInv, PhasesAgree
<1>4. HandsHoldOpenItems' /\ HandsApart' /\ NothingDropped'
  <2>1. \A v \in Crew : InHand(v)' => worker'[v].item = worker[v].item
    BY <1>3
  <2> QED BY <1>1, <1>3, <2>1 DEF IInv, HandsHoldOpenItems, HandsApart, NothingDropped
<1>5. TypeOK' BY <1>1, <1>2 DEF IInv, TypeOK
<1>6. LeaveAtTheEnd' BY <1>1 DEF IInv, LeaveAtTheEnd
<1>7. PhasesAgree' BY <1>1, <1>2 DEF PhasesAgree
<1> QED BY <1>4, <1>5, <1>6, <1>7 DEF IInv

LEMMA ReturnStep == ASSUME IInv, Return PROVE IInv'
<1>1. /\ Crew' = Crew /\ N' = N /\ (Adaptive' <=> Adaptive)
      /\ phase' = "returned" /\ prod' \in {"done", "cancelled"}
      /\ prod = "done" => prod' = "done"
      /\ prod' = "done" => prod = "done"
      /\ UNCHANGED <<job, made, taken, worker, stats, active, level, late, fate>>
      /\ \A w \in Crew : worker[w].pc = "gone"
  BY DEF Return, Crew, N, Adaptive
<1>2. TypeOK' BY <1>1 DEF IInv, TypeOK
<1>3. HandsHoldOpenItems' /\ HandsApart' /\ NothingDropped'
  BY <1>1 DEF IInv, InHand, HandsHoldOpenItems, HandsApart, NothingDropped
<1>4. LeaveAtTheEnd' /\ PhasesAgree'
  BY <1>1 DEF IInv, LeaveAtTheEnd, PhasesAgree
<1> QED BY <1>2, <1>3, <1>4 DEF IInv

LEMMA StutterStep == ASSUME IInv, UNCHANGED vars PROVE IInv'
BY DEF vars, IInv, TypeOK, HandsHoldOpenItems, HandsApart, NothingDropped, LeaveAtTheEnd,
       PhasesAgree, InHand, Crew, N, Adaptive

LEMMA NextIInv == IInv /\ [Next]_vars => IInv'
<1> SUFFICES ASSUME IInv, [Next]_vars PROVE IInv' OBVIOUS
<1>1. ASSUME NEW w \in Crew, Step(w) PROVE IInv'
  BY <1>1, ExitStep, TakeStep, AdmitStep, SettleStep DEF Step
<1> QED BY <1>1, ProduceStep, MonitorStep, OutOfTimeStep, ReturnStep, StutterStep DEF Next

\* Counters, hands and queue keep their shape.
THEOREM TypeCorrect == Spec => []TypeOK
<1>1. IInv => TypeOK BY DEF IInv
<1> QED BY <1>1, InitIInv, NextIInv, PTL DEF Spec
-----------------------------------------------------------------------------
\* The collector takes no link once its batch is out of time.
THEOREM LateTakesNothing == Spec => NothingStartsLate
<1>1. IInv /\ [Next]_vars => [late /\ job.kind = "stops" => taken' = taken]_vars
  <2> SUFFICES ASSUME IInv, Next, late, job.kind = "stops" PROVE taken' = taken
    BY DEF vars
  <2>1. ASSUME NEW w \in Crew, Step(w) PROVE taken' = taken
    <3>1. worker[w].pc # "loop" BY DEF IInv, PhasesAgree
    <3> QED BY <2>1, <3>1 DEF Step, Exit, Fetch, Admit, TakeNow, Take, Finish, GiveUp,
                             Stopped, Absorbed
  <2> QED BY <2>1 DEF Next, Produce, Monitor, OutOfTime, Return
<1> QED BY <1>1, InitIInv, NextIInv, PTL DEF Spec, NothingStartsLate

\* When process() is about to return in time, every item has an outcome.
LEMMA AllSettled ==
  ASSUME IInv, ~late, \A w \in Crew : worker[w].pc = "gone"
  PROVE  \A i \in 1..MaxItems : fate[i] # "none"
<1> SUFFICES ASSUME NEW i \in 1..MaxItems, fate[i] = "none" PROVE FALSE OBVIOUS
<1>0. /\ N \in Nat /\ MaxItems \in Nat /\ taken \in Nat /\ made \in Nat /\ made <= N
      /\ CrewOf(job) \in Nat /\ (N > 0 => CrewOf(job) > 0)
  BY Sizes DEF IInv
<1>1. i <= N /\ i > taken
  BY DEF IInv, NothingDropped, InHand
<1>2. 1 \in Crew BY <1>0, <1>1 DEF Crew
<1>3. made = N /\ taken = made BY <1>2 DEF IInv, LeaveAtTheEnd
<1> QED BY <1>0, <1>1, <1>3

\* The processors keep the promise of BatchPromise.
THEOREM PromiseKept == Spec => PromiseSpec
<1>1. Init => Promise!Init
  BY DEF Init, Promise!Init
<1>2. IInv /\ [Next]_vars => [Promise!Next]_<<fate, late, phase = "returned">>
  <2> SUFFICES ASSUME IInv, [Next]_vars
               PROVE  Promise!Next \/ UNCHANGED <<fate, late, phase = "returned">>
    BY DEF Promise!Next
  <2>1. ASSUME NEW w \in Crew, Step(w)
        PROVE  Promise!Next \/ UNCHANGED <<fate, late, phase = "returned">>
    <3>1. CASE Exit(w) \/ Fetch(w) \/ Admit(w) \/ TakeNow(w)
      BY <3>1 DEF Exit, Fetch, Admit, TakeNow
    <3>2. CASE Finish(w) \/ GiveUp(w) \/ Stopped(w) \/ Absorbed(w)
      <4>1. PICK how \in {"ok", "bad", "lost"} :
              /\ fate' = [fate EXCEPT ![worker[w].item] = how]
              /\ how = "lost" => late
        BY <3>2 DEF Finish, GiveUp, Stopped, Absorbed, Count, IInv, PhasesAgree
      <4>2. InHand(w) /\ phase # "returned" /\ UNCHANGED <<late, phase>>
        BY <3>2 DEF Finish, GiveUp, Stopped, Absorbed, InHand, IInv, PhasesAgree
      <4>3. worker[w].item \in 1..MaxItems /\ fate[worker[w].item] = "none"
        BY <4>2, Sizes DEF IInv, HandsHoldOpenItems
      <4>4. Promise!Settle(worker[w].item)
        BY <4>1, <4>2, <4>3 DEF Promise!Settle
      <4> QED BY <4>3, <4>4 DEF Promise!Next
    <3> QED BY <2>1, <3>1, <3>2 DEF Step
  <2>2. CASE Produce \/ Monitor BY <2>2 DEF Produce, Monitor
  <2>3. CASE OutOfTime
    BY <2>3 DEF OutOfTime, Promise!Next, Promise!Expire
  <2>4. CASE Return
    <3>1. late \/ \A i \in 1..MaxItems : fate[i] # "none"
      BY <2>4, AllSettled DEF Return
    <3> QED BY <2>4, <3>1 DEF Return, Promise!Next, Promise!Return
  <2>5. CASE UNCHANGED vars BY <2>5 DEF vars
  <2> QED BY <2>1, <2>2, <2>3, <2>4, <2>5 DEF Next
<1> QED BY <1>1, <1>2, InitIInv, NextIInv, PTL DEF Spec, PromiseSpec, Promise!Spec
-----------------------------------------------------------------------------
LEMMA BusyFinite == ASSUME TypeOK PROVE IsFiniteSet(In("busy"))
BY Sizes, FS_Interval, FS_Subset, 1 \in Int, CrewOf(job) \in Int DEF In, Crew

LEMMA PermitsStep ==
  ASSUME IInv, IInv', PermitsKept, [Next]_vars
  PROVE  PermitsKept'
<1> SUFFICES ASSUME ~Adaptive' PROVE Cardinality(In("busy")') <= WorkerCount
  BY DEF PermitsKept
<1>0. /\ TypeOK /\ WorkerCount \in Nat /\ IsFiniteSet(In("busy"))
      /\ Cardinality(In("busy")) \in Nat
  BY BusyFinite, FS_CardinalityType, BatchRunAssumption DEF IInv
<1>1. job' = job /\ Crew' = Crew /\ ~Adaptive
  BY DEF Next, vars, Produce, Monitor, OutOfTime, Return, Step, Exit, Fetch, Admit, TakeNow,
         Finish, GiveUp, Stopped, Absorbed, Crew, Adaptive
<1>2. Cardinality(In("busy")) <= WorkerCount BY <1>1 DEF PermitsKept
<1>3. ASSUME In("busy")' \subseteq In("busy") PROVE Cardinality(In("busy")') <= WorkerCount
  <2>1. Cardinality(In("busy")') <= Cardinality(In("busy")) /\ IsFiniteSet(In("busy")')
    BY <1>0, <1>3, FS_Subset
  <2>2. Cardinality(In("busy")') \in Nat BY <2>1, FS_CardinalityType
  <2> QED BY <2>1, <2>2, <1>0, <1>2
<1>4. ASSUME NEW w \in Crew, Admit(w) PROVE Cardinality(In("busy")') <= WorkerCount
  <2>1. In("busy")' = In("busy") \cup {w}
    BY <1>1, <1>4, <1>0 DEF In, Admit, Moves, TypeOK
  <2>2. w \notin In("busy") BY <1>4 DEF In, Admit
  <2>3. Cardinality(In("busy")') = Cardinality(In("busy")) + 1
    BY <2>1, <2>2, <1>0, FS_AddElement
  <2>4. Cardinality(In("busy")) < WorkerCount BY <1>4 DEF Admit
  <2> QED BY <2>3, <2>4, <1>0
<1>5. ASSUME NEW w \in Crew, Step(w), ~Admit(w) PROVE In("busy")' \subseteq In("busy")
  <2>1. ~TakeNow(w) BY <1>1 DEF TakeNow
  <2>2. PICK st : worker' = [worker EXCEPT ![w] = st] /\ st.pc # "busy"
    BY <1>5, <2>1 DEF Step, Exit, Fetch, Take, Finish, GiveUp, Stopped, Absorbed, Count,
                      Moves, Gone, AtLoop, Holding
  <2> QED BY <1>1, <2>2, <1>0 DEF In, TypeOK
<1>6. CASE Produce \/ Monitor \/ OutOfTime \/ Return \/ UNCHANGED vars
  <2>1. UNCHANGED worker
    BY <1>1, <1>6 DEF Produce, Monitor, OutOfTime, Return, vars
  <2> QED BY <1>1, <2>1, <1>3 DEF In
<1> QED BY <1>3, <1>4, <1>5, <1>6 DEF Next

\* Twice as many workers as permits, and never more handlers than permits.
THEOREM PermitsHold == Spec => []PermitsKept
<1>1. Init => PermitsKept
  <2> SUFFICES ASSUME Init PROVE Cardinality(In("busy")) <= WorkerCount BY DEF PermitsKept
  <2>1. In("busy") = {} BY DEF Init, In, AtLoop
  <2> QED BY <2>1, FS_EmptySet, BatchRunAssumption
<1> QED BY <1>1, PermitsStep, InitIInv, NextIInv, PTL DEF Spec
-----------------------------------------------------------------------------
LEMMA OutcomesFinite ==
  ASSUME TypeOK, NEW how
  PROVE  IsFiniteSet(With(how)) /\ Cardinality(With(how)) \in Nat
<1>1. IsFiniteSet(1..MaxItems) BY Sizes, FS_Interval, 1 \in Int, MaxItems \in Int
<1> QED BY <1>1, FS_Subset, FS_CardinalityType DEF With

\* One more item with an outcome, and the other outcomes as they were.
LEMMA OneMore ==
  ASSUME TypeOK, NEW i \in 1..MaxItems, fate[i] = "none", NEW how,
         fate' = [fate EXCEPT ![i] = how]
  PROVE  /\ how # "none" => With(how)' = With(how) \cup {i}
         /\ how # "none" => Cardinality(With(how)') = Cardinality(With(how)) + 1
         /\ \A h \in {"ok", "bad"} : h # how => With(h)' = With(h)
<1>1. how # "none" => With(how)' = With(how) \cup {i} /\ i \notin With(how)
  BY DEF With, TypeOK
<1>2. IsFiniteSet(With(how)) BY OutcomesFinite
<1>3. how # "none" => Cardinality(With(how)') = Cardinality(With(how)) + 1
  BY <1>1, <1>2, FS_AddElement
<1>4. \A h \in {"ok", "bad"} : h # how => With(h)' = With(h)
  BY DEF With, TypeOK
<1> QED BY <1>1, <1>3, <1>4

LEMMA TallyStep ==
  ASSUME IInv, Tally, [Next]_vars
  PROVE  Tally'
<1>0. TypeOK /\ N \in Nat /\ N <= MaxItems /\ MaxItems \in Nat /\ taken <= N /\ taken \in Nat
  BY Sizes DEF IInv
<1>1. ASSUME UNCHANGED <<job, stats, fate>> PROVE Tally'
  BY <1>1 DEF Tally, With
<1>2. ASSUME NEW w \in Crew, NEW how \in {"ok", "bad"}, NEW listed \in BOOLEAN,
             worker[w].pc \in {"busy", "hit"}, Count(w, how, listed), job' = job,
             job.kind = "batch" => listed,
             job.kind = "stops" /\ how = "ok" => listed
      PROVE  Tally'
  <2> DEFINE i == worker[w].item
  <2>1. i \in 1..MaxItems /\ fate[i] = "none"
    BY <1>0, <1>2 DEF IInv, HandsHoldOpenItems, InHand
  <2>2. fate' = [fate EXCEPT ![i] = how] BY <1>2 DEF Count
  <2>3. /\ With(how)' = With(how) \cup {i}
        /\ Cardinality(With(how)') = Cardinality(With(how)) + 1
        /\ \A h \in {"ok", "bad"} : h # how => With(h)' = With(h)
    BY <1>0, <2>1, <2>2, OneMore
  <2>4. /\ Cardinality(With("ok")) \in Nat /\ Cardinality(With("bad")) \in Nat
    BY <1>0, OutcomesFinite
  <2>5. /\ stats'.completed = stats.completed + 1
        /\ stats'.success = stats.success + (IF how = "ok" THEN 1 ELSE 0)
        /\ stats'.failed = stats.failed + (IF how = "bad" THEN 1 ELSE 0)
        /\ stats'.items = IF listed THEN stats.items \cup {i} ELSE stats.items
    BY <1>2 DEF Count
  <2>6. CASE how = "ok"
    BY <1>2, <2>3, <2>4, <2>5, <2>6 DEF Tally
  <2>7. CASE how = "bad"
    BY <1>2, <2>3, <2>4, <2>5, <2>7 DEF Tally
  <2> QED BY <2>6, <2>7
<1>3. ASSUME NEW w \in Crew, Step(w) PROVE Tally'
  <2>1. CASE Exit(w) \/ Fetch(w) \/ Admit(w) \/ TakeNow(w)
    BY <1>1, <2>1 DEF Exit, Fetch, Admit, TakeNow
  <2>2. CASE Finish(w) BY <1>2, <2>2 DEF Finish
  <2>3. CASE GiveUp(w) BY <1>2, <2>3 DEF GiveUp, Adaptive
  <2>4. CASE Absorbed(w) BY <1>2, <2>4 DEF Absorbed
  <2>5. CASE Stopped(w)
    <3>1. worker[w].item \in 1..MaxItems /\ fate[worker[w].item] = "none"
      BY <1>0, <2>5 DEF Stopped, IInv, HandsHoldOpenItems, InHand
    <3>2. With("ok")' = With("ok") /\ With("bad")' = With("bad")
      <4>1. fate' = [fate EXCEPT ![worker[w].item] = "lost"] BY <2>5 DEF Stopped
      <4>2. \A h \in {"ok", "bad"} : h # "lost" => With(h)' = With(h)
        BY <1>0, <3>1, <4>1, OneMore
      <4> QED BY <4>2
    <3> QED BY <3>2, <2>5 DEF Stopped, Tally
  <2> QED BY <1>3, <2>1, <2>2, <2>3, <2>4, <2>5 DEF Step
<1>4. CASE Produce \/ Monitor \/ OutOfTime \/ Return \/ UNCHANGED vars
  BY <1>1, <1>4 DEF Produce, Monitor, OutOfTime, Return, vars
<1> QED BY <1>3, <1>4 DEF Next

\* The numbers a batch returns are those of what became of its items.
THEOREM NumbersRight == Spec => []Tally
<1>1. Init => Tally
  <2> SUFFICES ASSUME Init PROVE Tally OBVIOUS
  <2>1. With("ok") = {} /\ With("bad") = {} BY DEF Init, With
  <2>2. Cardinality(With("ok")) = 0 /\ Cardinality(With("bad")) = 0
    BY <2>1, FS_EmptySet
  <2>3. stats = [completed |-> 0, success |-> 0, failed |-> 0, items |-> {}]
    BY DEF Init
  <2> QED BY <2>1, <2>2, <2>3 DEF Tally
<1> QED BY <1>1, TallyStep, InitIInv, NextIInv, PTL DEF Spec
=============================================================================
