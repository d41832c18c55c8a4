------------------------------- MODULE RuCheck -------------------------------
(***************************************************************************)
(* Checks from inside Russia.  A phone runs a loop (run.sh) around         *)
(* worker.py, which sub_server.py serves as text: fetch a batch, open a    *)
(* TCP connection and a sing-box tunnel to every link, report.  The server *)
(* hands out the active vless and trojan rows with the oldest              *)
(* ru_checked_at first, never checked rows before all others, and a report *)
(* sets ru_checked_at of its rows.  Nothing marks a row as handed out, and *)
(* a row whose link worker.py cannot take apart ends the run that gets it. *)
(***************************************************************************)
EXTENDS Naturals, FiniteSets, Sequences, SequencesExt

CONSTANTS
  RowIds,      \* ids of subscriptions rows
  Garbled,     \* those with a link on which parse_endpoint raises ValueError: an
               \* IPv6 address without brackets, a port past 65535, a bracket or a
               \* slash in a trojan password.  The server's own parser takes them.
  Phones,      \* runs of worker.py that may be under way together
  BatchSize,   \* RU_CHECKER_BATCH_SIZE, between 1 and 200
  Permits,     \* min(CONCURRENCY, VPN_CONCURRENCY)
  MaxChanges,  \* bound: rows that come to be, or cease to be, eligible
  MaxInstalls  \* bound: installations and losses of the phone's loop

ASSUME RuCheckAssumption ==
  /\ Garbled \subseteq RowIds
  /\ BatchSize \in Nat \ {0} /\ Permits \in Nat \ {0}
  /\ MaxChanges \in Nat /\ MaxInstalls \in Nat

VARIABLES
  line,      \* the eligible rows in the order of get_ru_check_batch
  turn,      \* history: turn[i] flips with every report of row i
  phone,     \* phone[w]: the batch of a run of worker.py and how far it is
  loop,      \* the phones whose run.sh is alive
  changes, installs

ruVars == <<line, turn, phone, loop, changes, installs>>

Idle == [pc |-> "idle", batch |-> << >>, state |-> << >>]

RuInit ==
  /\ line \in {s \in SeqOf(RowIds, Cardinality(RowIds)) : IsInjective(s)}
  /\ turn = [i \in RowIds |-> FALSE]
  /\ phone = [w \in Phones |-> Idle]
  /\ loop = {}
  /\ changes = 0 /\ installs = 0

Positions(w) == DOMAIN phone[w].state
Set(w, n, s) == phone' = [phone EXCEPT ![w].state[n] = s]
PhoneFrame == UNCHANGED <<line, turn, loop, changes, installs>>
-----------------------------------------------------------------------------
(* The server. *)

\* get_ru_check_batch.
Batch == SubSeq(line, 1, IF Len(line) < BatchSize THEN Len(line) ELSE BatchSize)

\* apply_ru_check_results: one UPDATE for each result, in the order of the
\* batch, one commit.  Rows that are gone are skipped.
Applied(batch) ==
  LET reported == ToSet(batch)
  IN  /\ line' = SelectSeq(line, LAMBDA i : i \notin reported)
                 \o SelectSeq(batch, LAMBDA i : i \in ToSet(line))
      /\ turn' = [i \in RowIds |-> turn[i] # (i \in reported)]
-----------------------------------------------------------------------------
(* worker.py *)

\* run_once: GET /ru-check/batch.  A request that fails or is refused, a
\* query that fails and an empty batch end the run without a change.
Fetch(w) ==
  /\ phone[w].pc = "idle" /\ w \in loop /\ line # << >>
  /\ phone' = [phone EXCEPT ![w] = [pc |-> "checking", batch |-> Batch,
                                    state |-> [n \in DOMAIN Batch |-> "waits"]]]
  /\ PhoneFrame

Opened(w) == Cardinality({n \in Positions(w) : phone[w].state[n] \in {"dials", "tunnel"}})

Unparsed(w, n) == phone[w].state[n] = "waits" /\ phone[w].batch[n] \in Garbled

\* check_item: a link that has no host or no port takes no permit.
Unsupported(w, n) ==
  /\ phone[w].state[n] = "waits" /\ ~Unparsed(w, n)
  /\ Set(w, n, "done") /\ PhoneFrame

\* parse_endpoint raises outside the try of check_item; gather hands the
\* exception on, and asyncio.run cancels the other items: no report.
Aborts(w, n) ==
  /\ Unparsed(w, n)
  /\ phone' = [phone EXCEPT ![w] = Idle]
  /\ PhoneFrame

Dial(w, n) ==
  /\ phone[w].state[n] = "waits" /\ ~Unparsed(w, n) /\ Opened(w) < Permits
  /\ Set(w, n, "dials") /\ PhoneFrame

\* The connection fails; or succeeds, and there is no sing-box.
Dialled(w, n) == phone[w].state[n] = "dials" /\ Set(w, n, "done") /\ PhoneFrame

\* run_sing_box_url_test: config file and process, the request through it, and
\* whatever becomes of it the process and the file are removed.
Tunnel(w, n) == phone[w].state[n] = "dials" /\ Set(w, n, "tunnel") /\ PhoneFrame
Tunnelled(w, n) == phone[w].state[n] = "tunnel" /\ Set(w, n, "done") /\ PhoneFrame

AllDone(w) == phone[w].pc = "checking" /\ \A n \in Positions(w) : phone[w].state[n] = "done"
Ends(w) == phone' = [phone EXCEPT ![w] = Idle]

\* Mutant: only rows that answered get a new ru_checked_at.
ReportAlive(w) ==
  /\ AllDone(w)
  /\ \E alive \in SUBSET ToSet(phone[w].batch) :
       LET lives(i) == i \in alive
       IN  /\ line' = SelectSeq(line, LAMBDA i : ~lives(i))
                      \o SelectSeq(phone[w].batch, LAMBDA i : lives(i) /\ i \in ToSet(line))
           /\ turn' = [i \in RowIds |-> turn[i] # lives(i)]
  /\ Ends(w)
  /\ UNCHANGED <<loop, changes, installs>>

\* POST /ru-check/report: a batch is never longer than the 200 results the
\* server takes.
Report(w) ==
  /\ AllDone(w)
  /\ Applied(phone[w].batch)
  /\ Ends(w)
  /\ UNCHANGED <<loop, changes, installs>>

\* The report does not arrive, or its transaction fails: the same rows come
\* first again.
ReportLost(w) == AllDone(w) /\ Ends(w) /\ PhoneFrame

Steps(w) ==
  \/ Fetch(w)
  \/ \E n \in Positions(w) : \/ Unsupported(w, n) \/ Aborts(w, n) \/ Dial(w, n)
                             \/ Dialled(w, n) \/ Tunnel(w, n) \/ Tunnelled(w, n)
-----------------------------------------------------------------------------
(* Around it. *)

\* install.sh kills the pid it finds in worker.pid: run.sh, and not the
\* worker.py that this one has started.
Install(w) ==
  /\ installs < MaxInstalls /\ installs' = installs + 1
  /\ phone[w].pc = "idle"
  /\ loop' = {w}
  /\ UNCHANGED <<line, turn, phone, changes>>

\* Android stops Termux.
PhoneDies ==
  /\ installs < MaxInstalls /\ installs' = installs + 1
  /\ loop' = {} /\ phone' = [w \in Phones |-> Idle]
  /\ UNCHANGED <<line, turn, changes>>

\* A row is deleted, hidden or too slow; a row is added (first in line, by its
\* speed) or comes back (where its ru_checked_at puts it).
RowLeaves(i) ==
  /\ changes < MaxChanges /\ changes' = changes + 1
  /\ i \in ToSet(line)
  /\ line' = SelectSeq(line, LAMBDA j : j # i)
  /\ UNCHANGED <<turn, phone, loop, installs>>
RowComes(i) ==
  /\ changes < MaxChanges /\ changes' = changes + 1
  /\ i \notin ToSet(line)
  /\ \E n \in 1..Len(line) + 1 : line' = InsertAt(line, n, i)
  /\ UNCHANGED <<turn, phone, loop, installs>>

RuNext ==
  \/ \E w \in Phones : Steps(w) \/ Report(w) \/ ReportLost(w) \/ Install(w)
  \/ PhoneDies
  \/ \E i \in RowIds : RowLeaves(i) \/ RowComes(i)

\* A loop that is alive goes on, and of reports sent again and again some
\* arrive.  A run that aborts sends none.
RuFair == \A w \in Phones : WF_ruVars(Steps(w)) /\ SF_ruVars(Report(w))

RuSpec == RuInit /\ [][RuNext]_ruVars /\ RuFair
-----------------------------------------------------------------------------
RuTypeOK ==
  /\ line \in SeqOf(RowIds, Cardinality(RowIds)) /\ IsInjective(line)
  /\ turn \in [RowIds -> BOOLEAN]
  /\ \A w \in Phones : /\ phone[w].pc \in {"idle", "checking"}
                       /\ Len(phone[w].state) = Len(phone[w].batch)
                       /\ Len(phone[w].batch) <= BatchSize
  /\ loop \subseteq Phones

\* A garbled row is in the batch that is handed out next.
Blocked == ToSet(Batch) \cap Garbled # {}

\* While a loop is alive somewhere, every row that stays eligible is reported
\* again and again, whatever reports are lost, workers overlap and rows come and
\* go: none is passed over for ever, unless a garbled row stays in the batch for
\* ever.  Nothing but its deletion takes it away, as only a report would move it
\* back, and until then no row gets its turn.
Rotates ==
  []<>(loop # {}) /\ []<>~Blocked =>
    \A i \in RowIds, b \in BOOLEAN :
      (i \in ToSet(line) /\ turn[i] = b) ~> (i \notin ToSet(line) \/ turn[i] # b)
=============================================================================
