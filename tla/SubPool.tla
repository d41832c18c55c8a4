------------------------------- MODULE SubPool -------------------------------
(***************************************************************************)
(* The processes that share the `subscriptions` and `blacklist` tables:    *)
(*   - coroutines of the collector and of an administrator's import, which *)
(*     add keys (SubRepo.smart_add_subscription);                          *)
(*   - the collector's closing statements, cleanup_dead and enforce_limits;*)
(*   - recheck runs and stability runs, which probe a snapshot of the rows *)
(*     and write their verdicts back later;                                *)
(*   - the administrator's buttons and the region resolver.                *)
(* Nothing but PostgreSQL orders them.  The engine keeps the default       *)
(* isolation (READ COMMITTED), so every statement sees what is committed   *)
(* when it starts, and one action here is one statement, or the statements *)
(* from the first write of a transaction to its commit.                    *)
(***************************************************************************)
EXTENDS SubTable

CONSTANTS
  CrawlAdders,   \* coroutines of the collector run
  ImportAdders,  \* coroutines of the administrator's import
  Rechecks,      \* recheck runs (tasks/admin.py)
  Stabs,         \* stability runs (tasks/stability.py)
  AdminOps,      \* the buttons the instance presses
  InitPools,     \* tables the processes may start from
  MaxId,         \* bound: ids handed out by the sequence
  StableStreak,  \* streak from which a row carries the "stable" tag
  MaxRuns        \* bound: recheck, stability and collector runs started

Adders == CrawlAdders \cup ImportAdders
Probers == Rechecks \cup Stabs
Buttons == {"toggle", "delete", "move", "unknown", "clear", "geo"}

\* A row no check and no administrator has touched since it was added.
IsFresh(t) ==
  /\ \A i \in DOMAIN t : t[i] = NewRow(t[i].key, t[i].region, t[i].speed)
  /\ \A i, j \in DOMAIN t : t[i].key = t[j].key => i = j

ASSUME SubPoolAssumption ==
  /\ Keys # {} /\ Regions # {}
  /\ CrawlAdders \cap ImportAdders = {}
  /\ Rechecks \cap Stabs = {}
  /\ AdminOps \subseteq Buttons
  /\ MaxId \in Nat /\ MaxRuns \in Nat /\ StableStreak \in Nat \ {0}
  /\ \A t \in InitPools : IsTable(t) /\ IsFresh(t)

VARIABLES
  subs,    \* the subscriptions table
  lastId,  \* the last id of its sequence
  banned,  \* keys of the blacklist table
  adder,   \* adder[a]: the smart_add_subscription call a is in
  crawl,   \* the collector run: its phase and the links it has still to check
  probe,   \* probe[c]: the recheck or stability run c
  desk,    \* the administrator's two-statement operation, if one is under way
  geo,     \* regions the resolver has found and not written yet
  runs,    \* runs started (for MaxRuns)
  deaths,  \* history: dead verdicts committed to a row since its last alive one
  touched, \* history: rows whose flag a button set after their last verdict
  slip     \* history: keys whose ban met an add in flight or a surviving row

vars == <<subs, lastId, banned, adder, crawl, probe, desk, geo, runs,
          deaths, touched, slip>>

NoCall == [pc |-> "idle", key |-> CHOOSE k \in Keys : TRUE,
           region |-> CHOOSE r \in Regions : TRUE, speed |-> 1, worst |-> 0]
Empty == [x \in {} |-> x]   \* the table without rows, the batch without updates
Run(pc, snap, out, found) == [pc |-> pc, snap |-> snap, out |-> out, found |-> found]
NoRun == Run("idle", Empty, Empty, Empty)
NoDesk == [pc |-> "idle", rows |-> Empty]
Crawling(pc, links) == [pc |-> pc, links |-> links]
NoCrawl == Crawling("idle", {})

Init ==
  /\ subs \in InitPools
  /\ lastId \in 0..MaxId /\ DOMAIN subs = 1..lastId
  /\ banned = {}
  /\ adder = [a \in Adders |-> NoCall]
  /\ crawl = NoCrawl
  /\ probe = [c \in Probers |-> NoRun]
  /\ desk = NoDesk
  /\ geo = Empty
  /\ runs = 0
  /\ deaths = [i \in DOMAIN subs |-> 0]
  /\ touched = {}
  /\ slip = {}

-----------------------------------------------------------------------------
(* What a statement does to the table and to the history of its rows. *)

Remove(S) == /\ subs' = Without(subs, S)
             /\ deaths' = Without(deaths, S)
             /\ touched' = touched \ S

\* Every repository method catches the error of its statement, logs it and
\* returns, and its caller goes on.
Lost == UNCHANGED <<subs, deaths, touched>>

Judging(out) == {i \in DOMAIN out : out[i].status # "sys_err"}

CountVerdicts(out) ==
  /\ deaths' = [i \in DOMAIN deaths |->
                  IF i \notin Judging(out) THEN deaths[i]
                  ELSE IF out[i].status = "dead" THEN deaths[i] + 1 ELSE 0]
  /\ touched' = touched \ Judging(out)

WriteStatus(out) == subs' = ApplyStatus(subs, out) /\ CountVerdicts(out)

WriteRows(t) == subs' = t /\ UNCHANGED <<deaths, touched>>

PurgeDead == Remove(DOMAIN subs \ DOMAIN CleanupDead(subs)) \/ Lost
-----------------------------------------------------------------------------
(* smart_add_subscription, one action per transaction or statement. *)

EndCall(a) == adder' = [adder EXCEPT ![a] = NoCall]
Advance(a, pc, worst) ==
  adder' = [adder EXCEPT ![a].pc = pc, ![a].worst = worst]
AddFrame == UNCHANGED <<lastId, banned, crawl, probe, desk, geo, runs, slip>>

\* The collector checks every link of its run once; an import checks any key.
TakeLink(a, k) ==
  IF a \in CrawlAdders
  THEN /\ crawl.pc = "adding" /\ k \in crawl.links
       /\ crawl' = Crawling("adding", crawl.links \ {k})
  ELSE UNCHANGED crawl

\* Mutant: the blacklist is not asked.
AddVetUnbanned(a, k, r, s) ==
  /\ adder[a].pc = "idle"
  /\ TakeLink(a, k)
  /\ adder' = [adder EXCEPT ![a] = [pc |-> "vetted", key |-> k, region |-> r,
                                     speed |-> s, worst |-> 0]]
  /\ Lost /\ UNCHANGED <<lastId, banned, probe, desk, geo, runs, slip>>

\* is_blacklisted, in a session of its own; keys below the lowest speed level
\* were refused before.
AddVet(a, k, r, s) ==
  /\ adder[a].pc = "idle"
  /\ TakeLink(a, k)
  /\ k \notin banned
  /\ adder' = [adder EXCEPT ![a] = [pc |-> "vetted", key |-> k, region |-> r,
                                     speed |-> s, worst |-> 0]]
  /\ Lost /\ UNCHANGED <<lastId, banned, probe, desk, geo, runs, slip>>

\* Mutant: the row of the same server is not looked for.
AddLookKeyOnly(a) ==
  /\ adder[a].pc = "vetted"
  /\ IF adder[a].key \in KeysOf(subs) THEN EndCall(a) ELSE Advance(a, "new", 0)
  /\ Lost /\ AddFrame

\* Is the key, or a key of its server, in the table?  The LIKE pattern holds
\* the new key's host in lower case and is matched against the rows verbatim.
LikeServer(k, l) == ServerOf[k] # NoServer /\ HostOf[l] = ServerOf[k]
AddLook(a) ==
  /\ adder[a].pc = "vetted"
  /\ IF \E l \in KeysOf(subs) : l = adder[a].key \/ LikeServer(adder[a].key, l)
     THEN EndCall(a) ELSE Advance(a, "new", 0)
  /\ Lost /\ AddFrame

\* Mutant: one row too many fits.
AddCountOver(a) ==
  /\ adder[a].pc = "new"
  /\ IF /\ adder[a].region \notin Unknown
        /\ Cardinality(InRegion(subs, adder[a].region)) > MaxPerRegion
     THEN Advance(a, "full", 0) ELSE Advance(a, "write", 0)
  /\ Lost /\ AddFrame

\* SELECT count(*) of the region, unless it is unknown.
AddCount(a) ==
  /\ adder[a].pc = "new"
  /\ IF /\ adder[a].region \notin Unknown
        /\ Cardinality(InRegion(subs, adder[a].region)) >= MaxPerRegion
     THEN Advance(a, "full", 0) ELSE Advance(a, "write", 0)
  /\ Lost /\ AddFrame

\* The row to replace must exist and be slower than the new key.
AddRank(a) ==
  /\ adder[a].pc = "full"
  /\ LET worst == WorstIn(subs, adder[a].region)
     IN  \/ worst = {} /\ EndCall(a)
         \/ \E w \in worst : IF subs[w].speed >= adder[a].speed
                             THEN EndCall(a) ELSE Advance(a, "write", w)
  /\ Lost /\ AddFrame

\* Mutants: without the unique index; with the DELETE committed on its own;
\* with ids taken from the table (max + 1) and not from a sequence.
Kept(a) == Without(subs, {adder[a].worst})
Inserted(a, id) ==
  /\ subs' = AddRow(Kept(a), id,
               NewRow(adder[a].key, adder[a].region, adder[a].speed))
  /\ deaths' = AddRow(Without(deaths, {adder[a].worst}), id, 0)
  /\ touched' = touched \ {adder[a].worst}
WriteFrame(a) ==
  /\ EndCall(a)
  /\ UNCHANGED <<banned, crawl, probe, desk, geo, runs, slip>>
AddWriteUnindexed(a) ==
  /\ adder[a].pc = "write" /\ lastId < MaxId
  /\ lastId' = lastId + 1
  /\ Inserted(a, lastId + 1)
  /\ WriteFrame(a)
AddWriteTwoCommits(a) ==
  /\ adder[a].pc = "write" /\ lastId < MaxId
  /\ lastId' = lastId + 1
  /\ IF adder[a].key \in KeysOf(Kept(a)) THEN Remove({adder[a].worst})
     ELSE Inserted(a, lastId + 1)
  /\ WriteFrame(a)
AddWriteReusedId(a) ==
  LET last == CHOOSE n \in {0} \cup DOMAIN subs : \A i \in DOMAIN subs : i <= n
  IN  /\ adder[a].pc = "write" /\ last < MaxId
      /\ lastId' = last + 1
      /\ IF adder[a].key \in KeysOf(Kept(a)) THEN Lost ELSE Inserted(a, last + 1)
      /\ WriteFrame(a)

\* DELETE of the replaced row, INSERT, COMMIT.  The unique index on the key
\* refuses the insert and with it the whole transaction; the id is spent.
AddWrite(a) ==
  /\ adder[a].pc = "write" /\ lastId < MaxId
  /\ lastId' = lastId + 1
  /\ IF adder[a].key \in KeysOf(Kept(a)) THEN Lost ELSE Inserted(a, lastId + 1)
  /\ WriteFrame(a)

\* Any await of the call may raise, or be cancelled with its task.
AddFail(a) ==
  /\ adder[a].pc # "idle"
  /\ EndCall(a)
  /\ Lost /\ AddFrame

Add(a) ==
  \/ \E k \in Keys, r \in Regions, s \in Speeds \ {0} : AddVet(a, k, r, s)
  \/ AddLook(a) \/ AddCount(a) \/ AddRank(a) \/ AddWrite(a) \/ AddFail(a)
-----------------------------------------------------------------------------
(* The collector run around its coroutines. *)
CrawlFrame == UNCHANGED <<lastId, banned, probe, desk, geo, slip>>

SameServer(k, l) == ServerOf[k] # NoServer /\ ServerOf[k] = ServerOf[l]

\* The run takes the links it found whose server it has not met yet.  The key
\* set it compares them with is cached for five minutes in its process, so the
\* table of this moment excludes none of them for certain.
CrawlStart ==
  /\ crawl = NoCrawl /\ runs < MaxRuns /\ CrawlAdders # {}
  /\ \E links \in SUBSET Keys :
       /\ \A k, l \in links : SameServer(k, l) => k = l
       /\ crawl' = Crawling("adding", links)
  /\ runs' = runs + 1
  /\ Lost /\ CrawlFrame /\ UNCHANGED adder

\* Every link is checked; those still here failed their check.
CrawlDrained ==
  /\ crawl.pc = "adding"
  /\ \A a \in CrawlAdders : adder[a].pc = "idle"
  /\ crawl' = Crawling("cleanup", {})
  /\ Lost /\ CrawlFrame /\ UNCHANGED <<adder, runs>>

CrawlCleanup ==
  /\ crawl.pc = "cleanup"
  /\ crawl' = Crawling("enforce", {})
  /\ PurgeDead
  /\ CrawlFrame /\ UNCHANGED <<adder, runs>>

CrawlEnforce ==
  /\ crawl.pc = "enforce"
  /\ crawl' = NoCrawl
  /\ \/ \E t \in Trimmed(subs) : Remove(DOMAIN subs \ DOMAIN t)
     \/ Lost
  /\ CrawlFrame /\ UNCHANGED <<adder, runs>>

\* The worker is killed, or the task raises: its coroutines go with it.
CrawlAbort ==
  /\ crawl # NoCrawl
  /\ crawl' = NoCrawl
  /\ adder' = [a \in Adders |-> IF a \in CrawlAdders THEN NoCall ELSE adder[a]]
  /\ Lost /\ CrawlFrame /\ UNCHANGED runs

Crawl == CrawlStart \/ CrawlDrained \/ CrawlCleanup \/ CrawlEnforce \/ CrawlAbort
-----------------------------------------------------------------------------
(* Recheck and stability runs: a snapshot, probes, then verdicts written   *)
(* back in separate transactions.  A verdict depends on the server, not on *)
(* the table, so it is chosen when its batch is taken from the buffer.     *)
ProbeFrame == UNCHANGED <<lastId, banned, adder, crawl, desk, geo, slip>>
SetRun(c, r) == probe' = [probe EXCEPT ![c] = r]
Goto(c, pc) == SetRun(c, Run(pc, probe[c].snap, probe[c].out, probe[c].found))

StartRun(c, rows) ==
  /\ probe[c].pc = "idle" /\ runs < MaxRuns /\ rows # {}
  /\ SetRun(c, Run("probing", Restrict(subs, rows), Empty, Empty))
  /\ runs' = runs + 1
  /\ Lost /\ ProbeFrame

\* mode "all", "active" or "dead"
RecheckStart(c) ==
  \E flags \in {BOOLEAN, {TRUE}, {FALSE}} :
    StartRun(c, {i \in DOMAIN subs : subs[i].active \in flags})

Alive(out) == {i \in DOMAIN out : out[i].status = "alive"}
Dead(out) == {i \in DOMAIN out : out[i].status = "dead"}

\* The flusher (or the final flush) takes what the probes have buffered:
\* verdicts, and a region for alive rows whose region was resolved.
RecheckTake(c) ==
  /\ probe[c].pc = "probing"
  /\ \E S \in SUBSET DOMAIN probe[c].snap \ {{}} : \E out \in [S -> Verdicts] :
       \E F \in SUBSET Alive(out) : \E found \in [F -> Regions \ Unknown] :
         SetRun(c, Run("status", probe[c].snap, out, found))
  /\ UNCHANGED runs /\ Lost /\ ProbeFrame

\* Mutant: the new values are computed from the snapshot, not in the UPDATE.
RecheckStatusStale(c) ==
  LET out == probe[c].out
  IN  /\ probe[c].pc = "status" /\ c \in Rechecks
      /\ Goto(c, "regions")
      /\ \/ /\ CountVerdicts(out)
            /\ subs' = [i \in DOMAIN subs |->
                          IF i \in DOMAIN out THEN Judged(probe[c].snap[i], out[i])
                                              ELSE subs[i]]
         \/ Lost
      /\ UNCHANGED runs /\ ProbeFrame

RecheckStatus(c) ==
  /\ probe[c].pc = "status" /\ c \in Rechecks
  /\ Goto(c, "regions")
  /\ WriteStatus(probe[c].out) \/ Lost
  /\ UNCHANGED runs /\ ProbeFrame

\* The links to rewrite, saved next, are always none: a check returns the link
\* it was given.
RecheckRegions(c) ==
  LET left == Restrict(probe[c].snap, DOMAIN probe[c].snap \ DOMAIN probe[c].out)
  IN  /\ probe[c].pc = "regions"
      /\ SetRun(c, Run("probing", left, Empty, Empty))
      /\ WriteRows(ApplyRegions(subs, probe[c].found)) \/ Lost
      /\ UNCHANGED runs /\ ProbeFrame

RecheckDone(c) ==
  /\ probe[c].pc = "probing" /\ probe[c].snap = Empty
  /\ SetRun(c, NoRun)
  /\ PurgeDead
  /\ UNCHANGED runs /\ ProbeFrame

\* SIGTERM from the stop button, the time limit, a lost worker, an exception.
RunAbort(c) ==
  /\ probe[c].pc # "idle"
  /\ SetRun(c, NoRun)
  /\ UNCHANGED runs /\ Lost /\ ProbeFrame

Recheck(c) == \/ RecheckStart(c) \/ RecheckTake(c) \/ RecheckStatus(c)
              \/ RecheckRegions(c) \/ RecheckDone(c) \/ RunAbort(c)

StabStart(c) == StartRun(c, DOMAIN subs)

\* All probes are over; items the processor gave up on have no verdict.
StabJudge(c) ==
  /\ probe[c].pc = "probing"
  /\ \E S \in SUBSET DOMAIN probe[c].snap : \E out \in [S -> Verdicts] :
       SetRun(c, IF S = {} THEN NoRun
                 ELSE Run("streak", probe[c].snap, out, Empty))
  /\ UNCHANGED runs /\ Lost /\ ProbeFrame

StabStreak(c) ==
  /\ probe[c].pc = "streak"
  /\ Goto(c, "status")
  /\ WriteRows(ApplyStreak(subs, Alive(probe[c].out))) \/ Lost
  /\ UNCHANGED runs /\ ProbeFrame

\* Dead rows are left out of the status batch: they are deleted instead.
StabStatus(c) ==
  LET out == probe[c].out
  IN  /\ probe[c].pc = "status" /\ c \in Stabs
      /\ Goto(c, "delete")
      /\ WriteStatus(Restrict(out, DOMAIN out \ Dead(out))) \/ Lost
      /\ UNCHANGED runs /\ ProbeFrame

StabDelete(c) ==
  /\ probe[c].pc = "delete"
  /\ Goto(c, "cleanup")
  /\ Remove(Dead(probe[c].out)) \/ Lost
  /\ UNCHANGED runs /\ ProbeFrame

StabCleanup(c) ==
  /\ probe[c].pc = "cleanup"
  /\ SetRun(c, NoRun)
  /\ PurgeDead
  /\ UNCHANGED runs /\ ProbeFrame

Stability(c) == \/ StabStart(c) \/ StabJudge(c) \/ StabStreak(c) \/ StabStatus(c)
                \/ StabDelete(c) \/ StabCleanup(c) \/ RunAbort(c)
-----------------------------------------------------------------------------
(* The administrator's buttons and the region resolver.  Where a handler   *)
(* reads rows first and writes later, reading and writing are two actions. *)
DeskFrame == UNCHANGED <<lastId, adder, crawl, probe, runs>>

DeskRead(op, rows) ==
  /\ op \in AdminOps /\ desk = NoDesk /\ rows # {}
  /\ desk' = [pc |-> op, rows |-> Restrict(subs, rows)]
  /\ Lost /\ DeskFrame /\ UNCHANGED <<banned, geo, slip>>

DeskDone(op) == desk.pc = op /\ desk' = NoDesk

\* toggle_sub: the new flag is the opposite of the one that was read.
ToggleRead == \E i \in DOMAIN subs : DeskRead("toggle", {i})
\* Mutant: the row that was read is merged back whole, deleted or not.
ToggleMerge ==
  /\ DeskDone("toggle")
  /\ \E i \in DOMAIN desk.rows :
       /\ subs' = AddRow(subs, i, [desk.rows[i] EXCEPT !.active = ~@])
       /\ touched' = touched \cup {i}
  /\ UNCHANGED <<deaths, banned, geo, slip>> /\ DeskFrame
ToggleWrite ==
  /\ DeskDone("toggle")
  /\ \E i \in DOMAIN desk.rows :
       /\ subs' = SetActive(subs, i, ~desk.rows[i].active)
       /\ touched' = touched \cup ({i} \cap DOMAIN subs)
  /\ UNCHANGED <<deaths, banned, geo, slip>> /\ DeskFrame

\* move_subs_to_blacklist: the ids chosen in the bulk menu.
InFlight(k) == \E a \in Adders : adder[a].pc # "idle" /\ adder[a].key = k
Ban(rows) ==
  /\ banned' = banned \cup KeysOf(rows)
  /\ slip' = slip \cup {k \in KeysOf(rows) : InFlight(k) \/ k \in KeysOf(subs')}
MoveRead == \E S \in SUBSET DOMAIN subs : DeskRead("move", S)
MoveWrite ==
  /\ DeskDone("move")
  /\ Remove(DOMAIN desk.rows) /\ Ban(desk.rows)
  /\ UNCHANGED geo /\ DeskFrame

\* move_unknown_to_blacklist: the DELETE evaluates the condition again.
UnknownRows == {i \in DOMAIN subs : subs[i].region \in Unknown}
UnknownRead == DeskRead("unknown", UnknownRows)
UnknownWrite ==
  /\ DeskDone("unknown")
  /\ Remove(UnknownRows) /\ Ban(desk.rows)
  /\ UNCHANGED geo /\ DeskFrame

\* The transaction fails, or the handler does before it: nothing is written.
DeskFail ==
  /\ desk # NoDesk
  /\ desk' = NoDesk
  /\ Lost /\ DeskFrame /\ UNCHANGED <<banned, geo, slip>>

\* delete_sub, delete_subs_by_region, delete_all_subs
DeleteRows ==
  /\ "delete" \in AdminOps
  /\ \E S \in {{i} : i \in DOMAIN subs} \cup {DOMAIN subs}
              \cup {InRegion(subs, r) : r \in Regions} : S # {} /\ Remove(S)
  /\ UNCHANGED <<banned, desk, geo, slip>> /\ DeskFrame

ClearBlacklist ==
  /\ "clear" \in AdminOps /\ banned # {}
  /\ banned' = {} /\ slip' = {}
  /\ UNCHANGED <<desk, geo>> /\ Lost /\ DeskFrame

\* The daily resolver and the two "fix regions" buttons: unknown rows, or the
\* active ones, get the region looked up for them, whatever they hold by then.
GeoRead ==
  /\ "geo" \in AdminOps /\ geo = Empty
  /\ \E S \in {UnknownRows, {i \in DOMAIN subs : subs[i].active}} :
       \E F \in SUBSET S : geo' \in [F -> Regions \ Unknown]
  /\ geo' # Empty
  /\ UNCHANGED <<banned, desk, slip>> /\ Lost /\ DeskFrame

GeoWrite ==
  /\ geo # Empty
  /\ geo' = Empty
  /\ WriteRows(ApplyRegions(subs, geo)) \/ Lost
  /\ UNCHANGED <<banned, desk, slip>> /\ DeskFrame

Desk == \/ ToggleRead \/ ToggleWrite \/ MoveRead \/ MoveWrite
        \/ UnknownRead \/ UnknownWrite \/ DeskFail \/ DeleteRows \/ ClearBlacklist
        \/ GeoRead \/ GeoWrite
-----------------------------------------------------------------------------
Next == \/ \E a \in Adders : Add(a)
        \/ Crawl
        \/ \E c \in Rechecks : Recheck(c)
        \/ \E c \in Stabs : Stability(c)
        \/ Desk

Spec == Init /\ [][Next]_vars
-----------------------------------------------------------------------------
Phases == {"idle", "probing", "streak", "status", "regions", "delete", "cleanup"}

IsBatch(f, S) == DOMAIN f \subseteq Ids /\ f \in [DOMAIN f -> S]

TableOK ==
  /\ IsTable(subs)
  /\ lastId \in Nat
  /\ deaths \in [DOMAIN subs -> Nat]
  /\ touched \subseteq DOMAIN subs

BanOK == banned \subseteq Keys /\ slip \subseteq Keys

AdderOK ==
  adder \in [Adders ->
    [pc: {"idle", "vetted", "new", "full", "write"}, key: Keys,
     region: Regions, speed: Speeds \ {0}, worst: Nat]]

CrawlOK == crawl \in [pc: {"idle", "adding", "cleanup", "enforce"}, links: SUBSET Keys]

IsRun(r) ==
  /\ r = Run(r.pc, r.snap, r.out, r.found)
  /\ r.pc \in Phases
  /\ IsTable(r.snap)
  /\ IsBatch(r.out, Verdicts)
  /\ IsBatch(r.found, Regions)

ProbeOK == probe = [c \in Probers |-> probe[c]] /\ \A c \in Probers : IsRun(probe[c])

DeskOK ==
  /\ desk = [pc |-> desk.pc, rows |-> desk.rows]
  /\ desk.pc \in Buttons \cup {"idle"}
  /\ IsTable(desk.rows)
  /\ IsBatch(geo, Regions)

\* The variables have the shape the code gives them.
TypeOK ==
  /\ TableOK /\ BanOK /\ AdderOK /\ CrawlOK /\ ProbeOK /\ DeskOK
  /\ runs \in Nat

\* Two adds that both passed their look-ups must not leave two rows with one
\* key: subs.py looks first and inserts later, the md5 index decides.
UniqueKeys == \A i, j \in DOMAIN subs : subs[i].key = subs[j].key => i = j

\* However many recheck and stability runs judge a row at once, its
\* death_count is the number of dead verdicts since its last alive one: none
\* is lost to a snapshot, none is counted twice.
DeathsCounted == \A i \in DOMAIN subs : subs[i].death = deaths[i]

\* Unless a button was pressed since the last verdict, users are served a row
\* exactly while it has fewer than _DEACTIVATE_DEATH_COUNT deaths.
VisibilityFollowsDeaths ==
  \A i \in DOMAIN subs \ touched :
    subs[i].active <=> subs[i].death < DeactivateDeaths

\* A run writes its verdicts, and the administrator's buttons their flags, by
\* id, long after the rows were read: the id still means the row it meant then.
NoForeignVerdict ==
  /\ \A c \in Probers : \A i \in DOMAIN probe[c].snap \cap DOMAIN subs :
       subs[i].key = probe[c].snap[i].key
  /\ \A i \in DOMAIN desk.rows \cap DOMAIN subs : subs[i].key = desk.rows[i].key

\* A key of the blacklist is in the pool only if an add of it was past its
\* blacklist check when it was banned, or its row escaped the DELETE.
BanWindow == KeysOf(subs) \cap banned \subseteq slip

\* enforce_limits drops no row users see while it keeps one of the region
\* that they do not see.
TrimKeepsVisible ==
  [][crawl.pc = "enforce" =>
       \A i \in DOMAIN subs \ DOMAIN subs', j \in DOMAIN subs \cap DOMAIN subs' :
         (crawl' = NoCrawl /\ subs[i].region = subs[j].region /\ subs[i].active)
            => subs[j].active]_vars

\* One row per server address: what smart_add_subscription's LIKE look-up is
\* for.  A row can repeat the server of an older one only if that one spells
\* its host with capitals.
ServerUnique ==
  \A i, j \in DOMAIN subs : i < j => ~LikeServer(subs[j].key, subs[i].key)

\* Adding never takes a known region over MAX_CONFIGS_PER_REGION.
RegionCap ==
  \A r \in Regions \ Unknown : Cardinality(InRegion(subs, r)) <= MaxPerRegion

\* "Blacklist unknown" bans every key it deletes.
UnknownMoveBansAll ==
  [][desk.pc = "unknown" /\ desk'.pc = "idle" =>
       \A i \in DOMAIN subs \ DOMAIN subs' : subs[i].key \in banned']_vars

(* The pool implements PoolPromise: what is held of a row is its key. *)
HeldKeys == [i \in DOMAIN subs |-> subs[i].key]
Promise == INSTANCE PoolPromise WITH held <- HeldKeys, last <- lastId

\* Whatever adds, trims, verdicts, purges and buttons do to the table, in
\* whatever order: ids are not reused, keys are not doubled, a row keeps its
\* key, and an add removes one row at most, in the transaction that inserts.
PoolSpec == Promise!Spec

\* A row with the "stable" tag has not failed a check since its streak began.
StableHasNoFailure ==
  \A i \in DOMAIN subs :
    subs[i].active /\ subs[i].streak >= StableStreak => deaths[i] = 0
=============================================================================
