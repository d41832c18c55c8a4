--------------------------- MODULE RecheckControl ---------------------------
(***************************************************************************)
(* The buttons that start and stop a recheck (handlers/admin/recheck.py)   *)
(* and the maintenance flag they share with the task (tasks/admin.py).     *)
(* The flag is a row of system_config: while it is up, collector and       *)
(* stability runs skip themselves.  A handler raises it and queues the     *)
(* task; the task lowers it when it is done, and once more in its finally  *)
(* block.  What is running is asked of the Celery workers, which answer    *)
(* within a second or not at all.                                          *)
(***************************************************************************)
EXTENDS Naturals, FiniteSets

CONSTANTS
  Admins,  \* presses under way at the same time
  Jobs,    \* recheck tasks: one id each, used once
  Slots    \* processes that work on the high_priority queue

ASSUME RecheckControlAssumption == Admins # {} /\ Jobs # {} /\ IsFiniteSet(Jobs)

VARIABLES
  flag,      \* maintenance_mode = "true"
  press,     \* press[a]: the handler's next await
  job,       \* job[j]: where the task is
  revoked,   \* tasks the workers were told to terminate
  orphaned,  \* history: the flag was left up by someone who is gone
  slips      \* history: what went wrong between the parties

controlVars == <<flag, press, job, revoked, orphaned, slips>>

Waiting == {j \in Jobs : job[j] = "queued"}
Working == {j \in Jobs : job[j] \in {"running", "closing"}}
Unfinished == Waiting \cup Working

ControlInit ==
  /\ flag = FALSE
  /\ press = [a \in Admins |-> "idle"]
  /\ job = [j \in Jobs |-> "new"]
  /\ revoked = {} /\ orphaned = FALSE /\ slips = {}

Step(a, pc) == press' = [press EXCEPT ![a] = pc]
Move(j, pc) == job' = [job EXCEPT ![j] = pc]
Slip(S) == slips' = slips \cup S
If(c, why) == IF c THEN {why} ELSE {}

\* set_maintenance; a statement that fails leaves the flag and raises.
Lower == flag' = FALSE /\ orphaned' = FALSE
NotLowered == flag' = flag /\ orphaned' = flag
-----------------------------------------------------------------------------
(* Start: run_recheck. *)

Others(a) == \E b \in Admins \ {a} : press[b] # "idle"

\* is_maintenance.  Nothing keeps a second press out before the flag is up,
\* and a task has lowered it some time before it ends.
Press(a) ==
  /\ press[a] = "idle" /\ \E j \in Jobs : job[j] = "new"
  /\ Step(a, IF flag THEN "look" ELSE "raise")
  /\ Slip(If(Others(a), "overlap") \cup If(~flag /\ Unfinished # {}, "tail"))
  /\ UNCHANGED <<flag, job, revoked, orphaned>>

\* Mutant: a flag that is up is taken for stale without asking.
LookNot(a) ==
  /\ press[a] = "look"
  /\ Step(a, "reset")
  /\ UNCHANGED <<flag, job, revoked, orphaned, slips>>

\* _get_recheck_runtime_status: workers that do not answer, and tasks that
\* none of them has fetched yet, are not seen.
Look(a) ==
  /\ press[a] = "look"
  /\ \E seen \in SUBSET Unfinished :
       /\ Step(a, IF seen = {} THEN "reset" ELSE "idle")
       /\ Slip(If(seen # Unfinished, "inspect"))
  /\ UNCHANGED <<flag, job, revoked, orphaned>>

\* "Stale maintenance mode auto-reset": outside the try block.
Reset(a) ==
  /\ press[a] = "reset"
  /\ \/ Lower /\ Step(a, "raise")
     \/ NotLowered /\ Step(a, "idle")
  /\ UNCHANGED <<job, revoked, slips>>

Raise(a) ==
  /\ press[a] = "raise"
  /\ \/ flag' = TRUE /\ Step(a, "send")
     \/ flag' = flag /\ Step(a, "undo")
  /\ UNCHANGED <<job, revoked, orphaned, slips>>

\* delay(); the text before it and the queue itself may fail.
Send(a) ==
  /\ press[a] = "send"
  /\ \/ \E j \in Jobs : job[j] = "new" /\ Move(j, "queued") /\ Step(a, "answer")
     \/ Step(a, "undo") /\ UNCHANGED job
  /\ UNCHANGED <<flag, revoked, orphaned, slips>>

\* The report and callback.answer come after delay() in the same try block.
Answer(a) ==
  /\ press[a] = "answer"
  /\ \/ Step(a, "idle") /\ UNCHANGED slips
     \/ Step(a, "undo") /\ Slip({"answer"})
  /\ UNCHANGED <<flag, job, revoked, orphaned>>

\* except: set_maintenance(False), which may fail too.
Undo(a) ==
  /\ press[a] = "undo"
  /\ Step(a, "idle")
  /\ Lower \/ NotLowered
  /\ UNCHANGED <<job, revoked, slips>>
-----------------------------------------------------------------------------
(* Stop: stop_active_recheck.  Asking and revoking block the bot's loop. *)

StopLook(a) ==
  /\ press[a] = "idle"
  /\ \E seen \in SUBSET Unfinished : \E told \in SUBSET seen :
       /\ revoked' = revoked \cup told
       /\ Slip(If(seen # Unfinished, "inspect") \cup If(told # seen, "revoke")
               \cup If(Others(a), "overlap"))
  /\ Step(a, "lower")
  /\ UNCHANGED <<flag, job, orphaned>>

StopLower(a) ==
  /\ press[a] = "lower"
  /\ Step(a, "idle")
  /\ Lower \/ NotLowered
  /\ UNCHANGED <<job, revoked, slips>>

\* The bot restarts: its handlers are gone.
BotCrash ==
  /\ \E a \in Admins : press[a] # "idle"
  /\ press' = [a \in Admins |-> "idle"]
  /\ orphaned' = flag
  /\ UNCHANGED <<flag, job, revoked, slips>>
-----------------------------------------------------------------------------
(* The task. *)
TaskFrame == UNCHANGED <<press, revoked, slips>>
Gone(j) == Move(j, "gone")

Begin(j) ==
  /\ job[j] = "queued" /\ j \notin revoked /\ Cardinality(Working) < Slots
  /\ Move(j, "running")
  /\ TaskFrame /\ UNCHANGED <<flag, orphaned>>

\* A revoked task is dropped when a worker takes it.
Discard(j) ==
  /\ job[j] = "queued" /\ j \in revoked
  /\ Gone(j)
  /\ TaskFrame /\ UNCHANGED <<flag, orphaned>>

\* Nothing to check, or all checked: the flag is lowered, then a report is
\* sent.  An exception or the soft time limit goes straight to finally.
Finish(j) ==
  /\ job[j] = "running"
  /\ Move(j, "closing")
  /\ Lower \/ UNCHANGED <<flag, orphaned>>
  /\ TaskFrame

\* Mutant: finally only closes the bot's session.
CloseOnly(j) ==
  /\ job[j] = "closing"
  /\ Gone(j)
  /\ TaskFrame /\ UNCHANGED <<flag, orphaned>>

\* finally: set_maintenance(False), whoever has raised it.
Close(j) ==
  /\ job[j] = "closing"
  /\ Gone(j)
  /\ Lower \/ NotLowered
  /\ TaskFrame

\* SIGTERM for a revoked task, the hard time limit, a lost worker: without
\* the finally block.  The task is acknowledged early and not delivered again.
Kill(j) ==
  /\ j \in Working
  /\ Gone(j)
  /\ orphaned' = flag
  /\ TaskFrame /\ UNCHANGED flag

ControlNext ==
  \/ \E a \in Admins : \/ Press(a) \/ Look(a) \/ Reset(a) \/ Raise(a) \/ Send(a)
                       \/ Answer(a) \/ Undo(a) \/ StopLook(a) \/ StopLower(a)
  \/ BotCrash
  \/ \E j \in Jobs : Begin(j) \/ Discard(j) \/ Finish(j) \/ Close(j) \/ Kill(j)

ControlSpec == ControlInit /\ [][ControlNext]_controlVars
-----------------------------------------------------------------------------
ControlTypeOK ==
  /\ flag \in BOOLEAN /\ orphaned \in BOOLEAN
  /\ press \in [Admins -> {"idle", "look", "reset", "raise", "send", "answer",
                           "undo", "lower"}]
  /\ job \in [Jobs -> {"new", "queued", "running", "closing", "gone"}]
  /\ revoked \subseteq Jobs
  /\ slips \subseteq {"overlap", "tail", "inspect", "answer", "revoke"}

\* Maintenance does not outlive the recheck: while the flag is up a task has
\* still to lower it, or a handler has, unless one that should have is gone.
RaisedHasOwner ==
  flag => \/ Unfinished # {} \/ orphaned
          \/ \E a \in Admins : press[a] \in {"send", "undo", "lower"}

\* Collector and stability runs keep out of a recheck: its flag is up until
\* it ends or is revoked, unless two presses overlapped, a start fell into
\* the end of an earlier task, a worker did not answer, a revocation was lost
\* or the handler failed after it had queued the task.
RecheckKeepsFlag ==
  slips = {} => flag \/ \A j \in Jobs : job[j] \in {"queued", "running"} => j \in revoked
=============================================================================
