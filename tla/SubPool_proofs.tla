--------------------------- MODULE SubPool_proofs ---------------------------
(***************************************************************************)
(* Proofs about SubPool, for every set of keys, regions and processes and  *)
(* every bound.  A step does one of seven things to the table (Effect);    *)
(* the invariants about rows are proved once per effect, not per action.   *)
(* Then the refinement of PoolPromise, what enforce_limits leaves, and     *)
(* what of the two look-ups of an add stays true until it inserts.         *)
(***************************************************************************)
EXTENDS AddTurns, FiniteSetTheorems, TLAPS

(* The statements of SubTable map tables to tables. *)

LEMMA WithoutTable ==
  ASSUME NEW t, IsTable(t), NEW S
  PROVE  /\ IsTable(Without(t, S))
         /\ DOMAIN Without(t, S) = DOMAIN t \ S
         /\ \A i \in DOMAIN Without(t, S) : Without(t, S)[i] = t[i]
BY DEF Without, Restrict, IsTable

LEMMA RestrictTable ==
  ASSUME NEW t, IsTable(t), NEW S \in SUBSET DOMAIN t
  PROVE  IsTable(Restrict(t, S)) /\ DOMAIN Restrict(t, S) = S
BY DEF Restrict, IsTable

LEMMA EmptyTable == IsTable(Empty) /\ IsBatch(Empty, Verdicts) /\ IsBatch(Empty, Regions)
BY DEF Empty, IsTable, IsBatch

LEMMA NewRowType ==
  ASSUME NEW k \in Keys, NEW r \in Regions, NEW s \in Speeds
  PROVE  NewRow(k, r, s) \in Row
BY DEF NewRow, Row

LEMMA AddRowTable ==
  ASSUME NEW t, IsTable(t), NEW i \in Ids, NEW row \in Row
  PROVE  /\ IsTable(AddRow(t, i, row))
         /\ DOMAIN AddRow(t, i, row) = DOMAIN t \cup {i}
         /\ AddRow(t, i, row)[i] = row
         /\ \A j \in DOMAIN t : j # i => AddRow(t, i, row)[j] = t[j]
BY DEF AddRow, IsTable

LEMMA RevivedRow ==
  ASSUME NEW row \in Row, NEW v, v.speed \in Speeds
  PROVE  /\ Revived(row, v) \in Row
         /\ Revived(row, v).key = row.key
         /\ Revived(row, v).active = TRUE
         /\ Revived(row, v).death = 0
BY DEF Revived, Row

LEMMA StruckRow ==
  ASSUME NEW row \in Row
  PROVE  /\ Struck(row) \in Row
         /\ Struck(row).key = row.key
         /\ Struck(row).active = TRUE
         /\ Struck(row).death = row.death + 1
<1>1. row.death + 1 \in Nat
  BY DEF Row
<1> QED BY <1>1 DEF Struck, Row

LEMMA HiddenRow ==
  ASSUME NEW row \in Row
  PROVE  /\ Hidden(row) \in Row
         /\ Hidden(row).key = row.key
         /\ Hidden(row).active = FALSE
         /\ Hidden(row).death = row.death + 1
<1>1. 0 \in Speeds
  BY SubTableAssumption DEF Speeds
<1>2. row.death + 1 \in Nat
  BY DEF Row
<1> QED BY <1>1, <1>2 DEF Hidden, Row

LEMMA JudgedRow ==
  ASSUME NEW row \in Row, NEW v \in Verdicts
  PROVE  /\ Judged(row, v) \in Row
         /\ Judged(row, v).key = row.key
         /\ v.status = "alive" => Judged(row, v).active = TRUE /\ Judged(row, v).death = 0
         /\ v.status = "dead" => Judged(row, v).death = row.death + 1
         /\ v.status = "dead" /\ row.death + 1 < DeactivateDeaths
              => Judged(row, v).active = TRUE
         /\ v.status = "dead" /\ ~(row.death + 1 < DeactivateDeaths)
              => Judged(row, v).active = FALSE
         /\ v.status = "sys_err" => Judged(row, v) = row
         /\ v.status \in {"alive", "dead", "sys_err"}
<1>1. CASE v.status = "alive"
  <2>1. v.speed \in Speeds
    BY <1>1 DEF Verdicts
  <2> QED BY <1>1, <2>1, RevivedRow DEF Judged
<1>2. CASE v.status = "dead"
  <2>1. row.death + 1 >= DeactivateDeaths <=> ~(row.death + 1 < DeactivateDeaths)
    BY SubTableAssumption DEF Row
  <2> QED BY <1>2, <2>1, StruckRow, HiddenRow DEF Judged
<1>3. CASE v.status = "sys_err"
  BY <1>3 DEF Judged
<1> QED BY <1>1, <1>2, <1>3 DEF Verdicts

LEMMA JudgedVisible ==
  ASSUME NEW row \in Row, NEW v \in Verdicts, v.status # "sys_err"
  PROVE  Judged(row, v).active <=> Judged(row, v).death < DeactivateDeaths
<1>1. CASE v.status = "alive"
  <2>1. Judged(row, v).active = TRUE /\ Judged(row, v).death = 0
    BY <1>1, JudgedRow
  <2>2. 0 < DeactivateDeaths
    BY SubTableAssumption
  <2> QED BY <2>1, <2>2
<1>2. CASE v.status = "dead"
  BY <1>2, JudgedRow
<1> QED BY <1>1, <1>2, JudgedRow

LEMMA StatusTable ==
  ASSUME NEW t, IsTable(t), NEW out, IsBatch(out, Verdicts)
  PROVE  /\ IsTable(ApplyStatus(t, out))
         /\ DOMAIN ApplyStatus(t, out) = DOMAIN t
         /\ \A i \in DOMAIN t : ApplyStatus(t, out)[i].key = t[i].key
BY JudgedRow DEF ApplyStatus, IsTable, IsBatch

LEMMA RegionsTable ==
  ASSUME NEW t, IsTable(t), NEW found, IsBatch(found, Regions)
  PROVE  /\ IsTable(ApplyRegions(t, found))
         /\ DOMAIN ApplyRegions(t, found) = DOMAIN t
         /\ \A i \in DOMAIN t :
              /\ ApplyRegions(t, found)[i].key = t[i].key
              /\ ApplyRegions(t, found)[i].death = t[i].death
              /\ ApplyRegions(t, found)[i].active = t[i].active
BY DEF ApplyRegions, IsTable, IsBatch, Row

LEMMA StreakTable ==
  ASSUME NEW t, IsTable(t), NEW S
  PROVE  /\ IsTable(ApplyStreak(t, S))
         /\ DOMAIN ApplyStreak(t, S) = DOMAIN t
         /\ \A i \in DOMAIN t :
              /\ ApplyStreak(t, S)[i].key = t[i].key
              /\ ApplyStreak(t, S)[i].death = t[i].death
              /\ ApplyStreak(t, S)[i].active = t[i].active
BY DEF ApplyStreak, IsTable, Row

LEMMA ActiveTable ==
  ASSUME NEW t, IsTable(t), NEW i, NEW b \in BOOLEAN
  PROVE  /\ IsTable(SetActive(t, i, b))
         /\ DOMAIN SetActive(t, i, b) = DOMAIN t
         /\ \A j \in DOMAIN t :
              /\ SetActive(t, i, b)[j].key = t[j].key
              /\ SetActive(t, i, b)[j].death = t[j].death
              /\ j # i => SetActive(t, i, b)[j] = t[j]
BY DEF SetActive, IsTable, Row
-----------------------------------------------------------------------------
(* What a step does to the table. *)

InsertStep(a) ==
  /\ lastId' = lastId + 1
  /\ adder[a].key \notin KeysOf(Kept(a))
  /\ Inserted(a, lastId + 1)

ToggleStep(i, b) ==
  /\ subs' = SetActive(subs, i, b)
  /\ touched' = touched \cup ({i} \cap DOMAIN subs)
  /\ UNCHANGED deaths

Effect ==
  \/ Lost
  \/ \E S \in SUBSET Ids : Remove(S)
  \/ \E out : IsBatch(out, Verdicts) /\ WriteStatus(out)
  \/ \E found : IsBatch(found, Regions) /\ WriteRows(ApplyRegions(subs, found))
  \/ \E S : WriteRows(ApplyStreak(subs, S))
  \/ \E i \in Ids, b \in BOOLEAN : ToggleStep(i, b)
  \/ \E a \in Adders : InsertStep(a)

LEMMA PurgeEffect ==
  ASSUME TypeOK, PurgeDead
  PROVE  Effect
<1>1. DOMAIN subs \in SUBSET Ids
  BY DEF TypeOK, TableOK, IsTable
<1> QED BY <1>1 DEF PurgeDead, Effect

LEMMA RestrictBatch ==
  ASSUME NEW V, NEW out, IsBatch(out, V), NEW S
  PROVE  IsBatch(Restrict(out, DOMAIN out \ S), V)
BY DEF IsBatch, Restrict

LEMMA AddEffect ==
  ASSUME TypeOK, NEW a \in Adders, Add(a)
  PROVE  Effect
<1>1. ASSUME AddWrite(a) PROVE Effect
  <2>1. CASE adder[a].key \in KeysOf(Kept(a))
    BY <1>1, <2>1 DEF AddWrite, Effect
  <2>2. CASE adder[a].key \notin KeysOf(Kept(a))
    <3>1. InsertStep(a)
      BY <1>1, <2>2 DEF AddWrite, InsertStep
    <3> QED BY <3>1 DEF Effect
  <2> QED BY <2>1, <2>2
<1>2. ASSUME \/ \E k \in Keys, r \in Regions, s \in Speeds \ {0} : AddVet(a, k, r, s)
             \/ AddLook(a) \/ AddCount(a) \/ AddRank(a) \/ AddFail(a)
      PROVE  Effect
  BY <1>2 DEF AddVet, AddLook, AddCount, AddRank, AddFail, Effect
<1> QED BY <1>1, <1>2 DEF Add

LEMMA CrawlEffect ==
  ASSUME TypeOK, Crawl
  PROVE  Effect
<1>1. ASSUME CrawlStart \/ CrawlDrained \/ CrawlAbort PROVE Effect
  BY <1>1 DEF CrawlStart, CrawlDrained, CrawlAbort, Effect
<1>2. ASSUME CrawlCleanup PROVE Effect
  BY <1>2, PurgeEffect DEF CrawlCleanup
<1>3. ASSUME CrawlEnforce PROVE Effect
  <2>1. DOMAIN subs \in SUBSET Ids
    BY DEF TypeOK, TableOK, IsTable
  <2> QED BY <1>3, <2>1 DEF CrawlEnforce, Effect
<1> QED BY <1>1, <1>2, <1>3 DEF Crawl

LEMMA RecheckEffect ==
  ASSUME TypeOK, NEW c \in Rechecks, Recheck(c)
  PROVE  Effect
<1>0. IsRun(probe[c])
  BY DEF TypeOK, ProbeOK, Probers
<1>1. ASSUME RecheckStart(c) \/ RecheckTake(c) \/ RunAbort(c) PROVE Effect
  BY <1>1 DEF RecheckStart, StartRun, RecheckTake, RunAbort, Effect
<1>2. ASSUME RecheckStatus(c) PROVE Effect
  BY <1>0, <1>2 DEF RecheckStatus, IsRun, Effect
<1>3. ASSUME RecheckRegions(c) PROVE Effect
  BY <1>0, <1>3 DEF RecheckRegions, IsRun, Effect
<1>4. ASSUME RecheckDone(c) PROVE Effect
  BY <1>4, PurgeEffect DEF RecheckDone
<1> QED BY <1>1, <1>2, <1>3, <1>4 DEF Recheck

LEMMA StabilityEffect ==
  ASSUME TypeOK, NEW c \in Stabs, Stability(c)
  PROVE  Effect
<1>0. IsRun(probe[c])
  BY DEF TypeOK, ProbeOK, Probers
<1>1. ASSUME StabStart(c) \/ StabJudge(c) \/ RunAbort(c) PROVE Effect
  BY <1>1 DEF StabStart, StartRun, StabJudge, RunAbort, Effect
<1>2. ASSUME StabStreak(c) PROVE Effect
  BY <1>2 DEF StabStreak, Effect
<1>3. ASSUME StabStatus(c) PROVE Effect
  <2>1. IsBatch(Restrict(probe[c].out, DOMAIN probe[c].out \ Dead(probe[c].out)), Verdicts)
    BY <1>0, RestrictBatch DEF IsRun
  <2> QED BY <1>3, <2>1 DEF StabStatus, Effect
<1>4. ASSUME StabDelete(c) PROVE Effect
  <2>1. Dead(probe[c].out) \in SUBSET Ids
    BY <1>0 DEF IsRun, IsBatch, Dead
  <2> QED BY <1>4, <2>1 DEF StabDelete, Effect
<1>5. ASSUME StabCleanup(c) PROVE Effect
  BY <1>5, PurgeEffect DEF StabCleanup
<1> QED BY <1>1, <1>2, <1>3, <1>4, <1>5 DEF Stability

LEMMA DeskEffect ==
  ASSUME TypeOK, Desk
  PROVE  Effect
<1>0. /\ DOMAIN subs \in SUBSET Ids /\ DOMAIN desk.rows \in SUBSET Ids
      /\ \A i \in DOMAIN desk.rows : desk.rows[i] \in Row
  BY DEF TypeOK, TableOK, DeskOK, IsTable
<1>1. ASSUME ToggleRead \/ MoveRead \/ UnknownRead \/ DeskFail \/ ClearBlacklist \/ GeoRead
      PROVE  Effect
  BY <1>1 DEF ToggleRead, MoveRead, UnknownRead, DeskRead, DeskFail, ClearBlacklist, GeoRead,
              Effect
<1>2. ASSUME ToggleWrite PROVE Effect
  <2>1. PICK i \in DOMAIN desk.rows : ToggleStep(i, ~desk.rows[i].active)
    BY <1>2 DEF ToggleWrite, ToggleStep
  <2>2. i \in Ids /\ (~desk.rows[i].active) \in BOOLEAN
    BY <1>0
  <2> QED BY <2>1, <2>2 DEF Effect
<1>3. ASSUME MoveWrite PROVE Effect
  BY <1>0, <1>3 DEF MoveWrite, Effect
<1>4. ASSUME UnknownWrite PROVE Effect
  <2>1. UnknownRows \in SUBSET Ids
    BY <1>0 DEF UnknownRows
  <2> QED BY <1>4, <2>1 DEF UnknownWrite, Effect
<1>5. ASSUME DeleteRows PROVE Effect
  <2>1. PICK S \in {{i} : i \in DOMAIN subs} \cup {DOMAIN subs}
                   \cup {InRegion(subs, r) : r \in Regions} : Remove(S)
    BY <1>5 DEF DeleteRows
  <2>2. S \in SUBSET Ids
    BY <1>0 DEF InRegion
  <2> QED BY <2>1, <2>2 DEF Effect
<1>6. ASSUME GeoWrite PROVE Effect
  BY <1>6 DEF GeoWrite, TypeOK, DeskOK, Effect
<1> QED BY <1>1, <1>2, <1>3, <1>4, <1>5, <1>6 DEF Desk

LEMMA StepEffect ==
  ASSUME TypeOK, [Next]_vars
  PROVE  Effect
<1>1. CASE Next
  BY <1>1, AddEffect, CrawlEffect, RecheckEffect, StabilityEffect, DeskEffect DEF Next
<1>2. CASE UNCHANGED vars
  BY <1>2 DEF vars, Lost, Effect
<1> QED BY <1>1, <1>2
-----------------------------------------------------------------------------
(* Type correctness. *)

LEMMA AddStepsId ==
  ASSUME [Next]_vars, lastId' # lastId
  PROVE  \E a \in Adders : AddWrite(a)
BY DEF Next, vars, Add, AddVet, AddLook, AddCount, AddRank, AddFail,
       AddFrame, Crawl, CrawlStart, CrawlDrained, CrawlCleanup, CrawlEnforce,
       CrawlAbort, CrawlFrame, Recheck, RecheckStart, StartRun, RecheckTake,
       RecheckStatus, RecheckRegions, RecheckDone, RunAbort, Stability, StabStart,
       StabJudge, StabStreak, StabStatus, StabDelete, StabCleanup, ProbeFrame,
       Desk, ToggleRead, ToggleWrite, MoveRead, MoveWrite, UnknownRead,
       UnknownWrite, DeskRead, DeskFail, DeleteRows, ClearBlacklist, GeoRead,
       GeoWrite, DeskFrame

LEMMA LastIdGrows ==
  ASSUME TypeOK, [Next]_vars
  PROVE  lastId' \in Nat /\ lastId' >= lastId
<1>1. lastId \in Nat
  BY DEF TypeOK, TableOK
<1>2. CASE lastId' = lastId
  BY <1>1, <1>2
<1>3. CASE lastId' # lastId
  BY <1>1, <1>3, AddStepsId DEF AddWrite
<1> QED BY <1>2, <1>3

LEMMA InsertTable ==
  ASSUME TypeOK, NEW a \in Adders, InsertStep(a)
  PROVE  /\ lastId + 1 \in Ids
         /\ IsTable(subs')
         /\ DOMAIN Kept(a) \subseteq DOMAIN subs
         /\ \A i \in DOMAIN Kept(a) : Kept(a)[i] = subs[i]
         /\ DOMAIN subs' = DOMAIN Kept(a) \cup {lastId + 1}
         /\ subs'[lastId + 1] = NewRow(adder[a].key, adder[a].region, adder[a].speed)
         /\ \A i \in DOMAIN Kept(a) : i # lastId + 1 => subs'[i] = subs[i]
         /\ deaths' \in [DOMAIN subs' -> Nat]
         /\ deaths'[lastId + 1] = 0
         /\ \A i \in DOMAIN Kept(a) : i # lastId + 1 => deaths'[i] = deaths[i]
         /\ touched' \subseteq touched
         /\ touched \subseteq DOMAIN subs => touched' \subseteq DOMAIN Kept(a)
<1> DEFINE w == adder[a].worst
           kept == Kept(a)
           id == lastId + 1
           row == NewRow(adder[a].key, adder[a].region, adder[a].speed)
<1>1. /\ IsTable(subs) /\ id \in Ids /\ deaths \in [DOMAIN subs -> Nat]
  BY DEF TypeOK, TableOK, Ids
<1>2. row \in Row
  <2>1. adder[a].key \in Keys /\ adder[a].region \in Regions /\ adder[a].speed \in Speeds
    BY DEF TypeOK, AdderOK
  <2> QED BY <2>1, NewRowType
<1>3. /\ IsTable(kept) /\ DOMAIN kept = DOMAIN subs \ {w}
      /\ \A i \in DOMAIN kept : kept[i] = subs[i]
  BY <1>1, WithoutTable DEF Kept
<1>4. /\ subs' = AddRow(kept, id, row) /\ touched' = touched \ {w}
      /\ deaths' = AddRow(Without(deaths, {w}), id, 0)
  BY DEF InsertStep, Inserted
<1> HIDE DEF kept, id, row
<1>5. /\ IsTable(subs')
      /\ DOMAIN subs' = DOMAIN kept \cup {id}
      /\ subs'[id] = row
      /\ \A i \in DOMAIN kept : i # id => subs'[i] = subs[i]
  <2>1. /\ IsTable(AddRow(kept, id, row))
        /\ DOMAIN AddRow(kept, id, row) = DOMAIN kept \cup {id}
        /\ AddRow(kept, id, row)[id] = row
        /\ \A i \in DOMAIN kept : i # id => AddRow(kept, id, row)[i] = kept[i]
    BY <1>1, <1>2, <1>3, AddRowTable
  <2> QED BY <1>3, <1>4, <2>1
<1>6. /\ DOMAIN Without(deaths, {w}) = DOMAIN kept
      /\ \A i \in DOMAIN kept : Without(deaths, {w})[i] = deaths[i] /\ deaths[i] \in Nat
  BY <1>1, <1>3 DEF Without, Restrict
<1>7. /\ deaths' = [i \in DOMAIN subs' |-> deaths'[i]]
      /\ deaths'[id] = 0
      /\ \A i \in DOMAIN kept : i # id => deaths'[i] = deaths[i]
  BY <1>4, <1>5, <1>6 DEF AddRow
<1>8. \A i \in DOMAIN subs' : deaths'[i] \in Nat
  BY <1>5, <1>6, <1>7
<1>9. deaths' \in [DOMAIN subs' -> Nat]
  BY <1>7, <1>8
<1>10. touched' \subseteq touched /\ (touched \subseteq DOMAIN subs => touched' \subseteq DOMAIN kept)
  BY <1>3, <1>4
<1> QED BY <1>1, <1>3, <1>5, <1>7, <1>9, <1>10 DEF kept, id, row

LEMMA TableKept ==
  ASSUME TypeOK, [Next]_vars
  PROVE  TableOK'
<1>1. IsTable(subs) /\ deaths \in [DOMAIN subs -> Nat] /\ touched \subseteq DOMAIN subs
  BY DEF TypeOK, TableOK
<1>2. lastId' \in Nat
  BY LastIdGrows
<1> SUFFICES /\ IsTable(subs') /\ deaths' \in [DOMAIN subs' -> Nat]
             /\ touched' \subseteq DOMAIN subs'
  BY <1>2 DEF TableOK
<1>3. CASE Lost
  BY <1>1, <1>3 DEF Lost
<1>4. ASSUME NEW S \in SUBSET Ids, Remove(S) PROVE TableOK'
  <2>1. subs' = Without(subs, S) /\ deaths' = Without(deaths, S) /\ touched' = touched \ S
    BY <1>4 DEF Remove
  <2>2. IsTable(subs') /\ DOMAIN subs' = DOMAIN subs \ S
    BY <1>1, <2>1, WithoutTable
  <2>3. deaths' \in [DOMAIN subs' -> Nat]
    BY <1>1, <2>1, <2>2 DEF Without, Restrict
  <2> QED BY <1>1, <1>2, <2>1, <2>2, <2>3 DEF TableOK
<1>5. ASSUME NEW out, IsBatch(out, Verdicts), WriteStatus(out) PROVE TableOK'
  <2>1. IsTable(subs') /\ DOMAIN subs' = DOMAIN subs
    BY <1>1, <1>5, StatusTable DEF WriteStatus
  <2>2. deaths' \in [DOMAIN subs -> Nat] /\ touched' \subseteq touched
    BY <1>1, <1>5 DEF WriteStatus, CountVerdicts
  <2> QED BY <1>1, <1>2, <2>1, <2>2 DEF TableOK
<1>6. ASSUME NEW found, IsBatch(found, Regions), WriteRows(ApplyRegions(subs, found))
      PROVE  TableOK'
  BY <1>1, <1>2, <1>6, RegionsTable DEF WriteRows, TableOK
<1>7. ASSUME NEW S, WriteRows(ApplyStreak(subs, S)) PROVE TableOK'
  BY <1>1, <1>2, <1>7, StreakTable DEF WriteRows, TableOK
<1>8. ASSUME NEW i \in Ids, NEW b \in BOOLEAN, ToggleStep(i, b) PROVE TableOK'
  <2>1. IsTable(subs') /\ DOMAIN subs' = DOMAIN subs
    BY <1>1, <1>8, ActiveTable DEF ToggleStep
  <2> QED BY <1>1, <1>2, <1>8, <2>1 DEF ToggleStep, TableOK
<1>9. ASSUME NEW a \in Adders, InsertStep(a) PROVE TableOK'
  BY <1>1, <1>2, <1>9, InsertTable DEF TableOK
<1> QED BY StepEffect, <1>3, <1>4, <1>5, <1>6, <1>7, <1>8, <1>9 DEF Effect, TableOK

LEMMA IdleCall ==
  NoCall \in [pc: {"idle", "vetted", "new", "full", "write"}, key: Keys,
              region: Regions, speed: Speeds \ {0}, worst: Nat]
<1>1. (CHOOSE k \in Keys : TRUE) \in Keys /\ (CHOOSE r \in Regions : TRUE) \in Regions
  BY SubPoolAssumption
<1>2. 1 \in Speeds \ {0}
  BY SubTableAssumption DEF Speeds
<1> QED BY <1>1, <1>2 DEF NoCall

LEMMA RunType ==
  ASSUME NEW p \in Phases, NEW t, IsTable(t),
         NEW out, IsBatch(out, Verdicts), NEW found, IsBatch(found, Regions)
  PROVE  IsRun(Run(p, t, out, found))
BY DEF IsRun, Run

LEMMA IdleRun == IsRun(NoRun)
BY EmptyTable, RunType DEF NoRun, Phases

LEMMA InitType == Init => TypeOK
<1> SUFFICES ASSUME Init PROVE TypeOK
  OBVIOUS
<1>1. IsTable(subs)
  BY SubPoolAssumption DEF Init
<1>2. TableOK
  BY <1>1 DEF Init, TableOK
<1>3. BanOK /\ AdderOK /\ CrawlOK /\ runs \in Nat
  BY IdleCall DEF Init, BanOK, AdderOK, CrawlOK, NoCrawl, Crawling
<1>4. ProbeOK
  BY IdleRun DEF Init, ProbeOK
<1>5. DeskOK
  BY EmptyTable DEF Init, DeskOK, NoDesk
<1> QED BY <1>2, <1>3, <1>4, <1>5 DEF TypeOK

LEMMA WorstId ==
  ASSUME IsTable(subs), NEW r, NEW w \in WorstIn(subs, r)
  PROVE  w \in Nat
BY DEF WorstIn, InRegion, IsTable, Ids

LEMMA AddType ==
  ASSUME TypeOK, NEW a \in Adders, Add(a)
  PROVE  AdderOK' /\ CrawlOK' /\ UNCHANGED <<banned, probe, desk, geo, runs, slip>>
<1>1. AdderOK
  BY DEF TypeOK
<1>2. ASSUME NEW k \in Keys, NEW r \in Regions, NEW s \in Speeds \ {0}, AddVet(a, k, r, s)
      PROVE  AdderOK'
  BY <1>1, <1>2 DEF AddVet, AdderOK
<1>3. ASSUME EndCall(a) PROVE AdderOK'
  BY <1>1, <1>3, IdleCall DEF EndCall, AdderOK
<1>4. ASSUME NEW p \in {"new", "full", "write"}, NEW w \in Nat, Advance(a, p, w)
      PROVE  AdderOK'
  BY <1>1, <1>4 DEF Advance, AdderOK
<1>5. ASSUME AddRank(a) PROVE AdderOK'
  <2>1. IsTable(subs)
    BY DEF TypeOK, TableOK
  <2> QED BY <1>3, <1>4, <1>5, <2>1, WorstId DEF AddRank
<1>6. ASSUME AddLook(a) \/ AddCount(a) \/ AddWrite(a) \/ AddFail(a) PROVE AdderOK'
  BY <1>3, <1>4, <1>6 DEF AddLook, AddCount, AddWrite, WriteFrame, AddFail
<1>7. UNCHANGED <<banned, probe, desk, geo, runs, slip>>
  BY DEF Add, AddVet, AddLook, AddCount, AddRank, AddWrite, WriteFrame, AddFail, AddFrame
<1>8. UNCHANGED crawl \/ \E k \in Keys : TakeLink(a, k)
  BY DEF Add, AddVet, AddLook, AddCount, AddRank, AddWrite, WriteFrame, AddFail, AddFrame
<1>9. CrawlOK'
  BY <1>8 DEF TypeOK, CrawlOK, TakeLink, Crawling
<1> QED BY <1>2, <1>5, <1>6, <1>7, <1>9 DEF Add

LEMMA CrawlType ==
  ASSUME TypeOK, Crawl
  PROVE  /\ AdderOK' /\ CrawlOK' /\ runs' \in Nat
         /\ UNCHANGED <<lastId, banned, probe, desk, geo, slip>>
<1>1. UNCHANGED <<lastId, banned, probe, desk, geo, slip>>
  BY DEF Crawl, CrawlStart, CrawlDrained, CrawlCleanup, CrawlEnforce, CrawlAbort, CrawlFrame
<1>2. runs' \in Nat /\ CrawlOK'
  BY DEF TypeOK, Crawl, CrawlStart, CrawlDrained, CrawlCleanup, CrawlEnforce, CrawlAbort,
         CrawlOK, Crawling, NoCrawl
<1>3. ASSUME CrawlAbort PROVE AdderOK'
  BY <1>3, IdleCall DEF CrawlAbort, TypeOK, AdderOK
<1>4. ASSUME UNCHANGED adder PROVE AdderOK'
  BY <1>4 DEF TypeOK, AdderOK
<1> QED BY <1>1, <1>2, <1>3, <1>4 DEF Crawl, CrawlStart, CrawlDrained, CrawlCleanup, CrawlEnforce

LEMMA SetRunType ==
  ASSUME ProbeOK, NEW c \in Probers, NEW r, IsRun(r), SetRun(c, r)
  PROVE  ProbeOK'
BY DEF ProbeOK, SetRun

LEMMA GotoType ==
  ASSUME ProbeOK, NEW c \in Probers, NEW p \in Phases, Goto(c, p)
  PROVE  ProbeOK'
<1>1. IsRun(Run(p, probe[c].snap, probe[c].out, probe[c].found))
  BY RunType DEF ProbeOK, IsRun
<1> QED BY <1>1, SetRunType DEF Goto

LEMMA StartRunType ==
  ASSUME TypeOK, NEW c \in Probers, NEW rows \in SUBSET DOMAIN subs, StartRun(c, rows)
  PROVE  ProbeOK' /\ runs' \in Nat
<1>1. IsTable(Restrict(subs, rows))
  BY RestrictTable DEF TypeOK, TableOK
<1>2. IsRun(Run("probing", Restrict(subs, rows), Empty, Empty))
  BY <1>1, EmptyTable, RunType DEF Phases
<1> QED BY <1>2, SetRunType DEF StartRun, TypeOK

LEMMA RecheckType ==
  ASSUME TypeOK, NEW c \in Rechecks, Recheck(c)
  PROVE  /\ ProbeOK' /\ runs' \in Nat
         /\ UNCHANGED <<lastId, banned, adder, crawl, desk, geo, slip>>
<1>0. c \in Probers /\ ProbeOK /\ IsRun(probe[c]) /\ IsTable(subs) /\ runs \in Nat
  BY DEF Probers, TypeOK, ProbeOK, TableOK
<1>1. UNCHANGED <<lastId, banned, adder, crawl, desk, geo, slip>>
  BY DEF Recheck, RecheckStart, StartRun, RecheckTake, RecheckStatus, RecheckRegions,
         RecheckDone, RunAbort, ProbeFrame
<1>2. ASSUME RecheckStart(c) PROVE ProbeOK' /\ runs' \in Nat
  <2>1. PICK flags : StartRun(c, {i \in DOMAIN subs : subs[i].active \in flags})
    BY <1>2 DEF RecheckStart
  <2> QED BY <1>0, <2>1, StartRunType
<1>3. ASSUME RecheckTake(c) PROVE ProbeOK' /\ runs' \in Nat
  <2>1. PICK S \in SUBSET DOMAIN probe[c].snap : \E out \in [S -> Verdicts] :
          \E F \in SUBSET Alive(out) : \E found \in [F -> Regions \ Unknown] :
            SetRun(c, Run("status", probe[c].snap, out, found))
    BY <1>3 DEF RecheckTake
  <2>2. PICK out \in [S -> Verdicts] :
          \E F \in SUBSET Alive(out) : \E found \in [F -> Regions \ Unknown] :
            SetRun(c, Run("status", probe[c].snap, out, found))
    BY <2>1
  <2>3. PICK F \in SUBSET Alive(out) : \E found \in [F -> Regions \ Unknown] :
          SetRun(c, Run("status", probe[c].snap, out, found))
    BY <2>2
  <2>7. PICK found \in [F -> Regions \ Unknown] :
          SetRun(c, Run("status", probe[c].snap, out, found))
    BY <2>3
  <2>4. S \subseteq Ids /\ IsTable(probe[c].snap)
    BY <1>0, <2>1 DEF IsRun, IsTable
  <2>5. IsBatch(out, Verdicts)
    BY <2>2, <2>4 DEF IsBatch
  <2>6. IsBatch(found, Regions)
    BY <2>2, <2>4, <2>7 DEF IsBatch, Alive
  <2>8. IsRun(Run("status", probe[c].snap, out, found))
    BY <2>4, <2>5, <2>6, RunType DEF Phases
  <2> QED BY <1>0, <1>3, <2>7, <2>8, SetRunType DEF RecheckTake
<1>4. ASSUME RecheckStatus(c) PROVE ProbeOK' /\ runs' \in Nat
  BY <1>0, <1>4, GotoType DEF RecheckStatus, Phases
<1>5. ASSUME RecheckRegions(c) PROVE ProbeOK' /\ runs' \in Nat
  <2> DEFINE left == Restrict(probe[c].snap, DOMAIN probe[c].snap \ DOMAIN probe[c].out)
  <2>1. IsTable(left)
    BY <1>0, RestrictTable DEF IsRun
  <2>2. IsRun(Run("probing", left, Empty, Empty))
    BY <2>1, EmptyTable, RunType DEF Phases
  <2> QED BY <1>0, <1>5, <2>2, SetRunType DEF RecheckRegions
<1>6. ASSUME RecheckDone(c) \/ RunAbort(c) PROVE ProbeOK' /\ runs' \in Nat
  BY <1>0, <1>6, IdleRun, SetRunType DEF RecheckDone, RunAbort
<1> QED BY <1>1, <1>2, <1>3, <1>4, <1>5, <1>6 DEF Recheck

LEMMA StabilityType ==
  ASSUME TypeOK, NEW c \in Stabs, Stability(c)
  PROVE  /\ ProbeOK' /\ runs' \in Nat
         /\ UNCHANGED <<lastId, banned, adder, crawl, desk, geo, slip>>
<1>0. c \in Probers /\ ProbeOK /\ IsRun(probe[c]) /\ runs \in Nat
  BY DEF Probers, TypeOK, ProbeOK
<1>1. UNCHANGED <<lastId, banned, adder, crawl, desk, geo, slip>>
  BY DEF Stability, StabStart, StartRun, StabJudge, StabStreak, StabStatus, StabDelete,
         StabCleanup, RunAbort, ProbeFrame
<1>2. ASSUME StabStart(c) PROVE ProbeOK' /\ runs' \in Nat
  BY <1>0, <1>2, StartRunType DEF StabStart
<1>3. ASSUME StabJudge(c) PROVE ProbeOK' /\ runs' \in Nat
  <2>0. PICK S \in SUBSET DOMAIN probe[c].snap : \E out \in [S -> Verdicts] :
          SetRun(c, IF S = {} THEN NoRun ELSE Run("streak", probe[c].snap, out, Empty))
    BY <1>3 DEF StabJudge
  <2>1. PICK out \in [S -> Verdicts] :
          SetRun(c, IF S = {} THEN NoRun ELSE Run("streak", probe[c].snap, out, Empty))
    BY <2>0
  <2>2. IsBatch(out, Verdicts)
    BY <1>0, <2>1 DEF IsRun, IsTable, IsBatch
  <2>3. IsRun(Run("streak", probe[c].snap, out, Empty))
    BY <1>0, <2>2, EmptyTable, RunType DEF Phases, IsRun
  <2> QED BY <1>0, <1>3, <2>1, <2>3, IdleRun, SetRunType DEF StabJudge
<1>4. ASSUME StabStreak(c) \/ StabStatus(c) \/ StabDelete(c) PROVE ProbeOK' /\ runs' \in Nat
  BY <1>0, <1>4, GotoType DEF StabStreak, StabStatus, StabDelete, Phases
<1>5. ASSUME StabCleanup(c) \/ RunAbort(c) PROVE ProbeOK' /\ runs' \in Nat
  BY <1>0, <1>5, IdleRun, SetRunType DEF StabCleanup, RunAbort
<1> QED BY <1>1, <1>2, <1>3, <1>4, <1>5 DEF Stability

LEMMA DeskReadType ==
  ASSUME TypeOK, NEW op, NEW rows \in SUBSET DOMAIN subs, DeskRead(op, rows)
  PROVE  DeskOK' /\ UNCHANGED <<banned, geo, slip>>
<1>1. IsTable(Restrict(subs, rows))
  BY RestrictTable DEF TypeOK, TableOK
<1>2. op \in Buttons
  BY SubPoolAssumption DEF DeskRead
<1> QED BY <1>1, <1>2 DEF DeskRead, DeskOK, TypeOK

LEMMA DeskDoneType ==
  ASSUME NEW op, DeskDone(op), IsBatch(geo', Regions)
  PROVE  DeskOK'
BY EmptyTable DEF DeskDone, NoDesk, DeskOK

LEMMA BanType ==
  ASSUME BanOK, NEW rows, IsTable(rows), Ban(rows)
  PROVE  BanOK'
<1>1. KeysOf(rows) \subseteq Keys
  BY DEF KeysOf, IsTable, Row
<1> QED BY <1>1 DEF Ban, BanOK

LEMMA DeskType ==
  ASSUME TypeOK, Desk
  PROVE  BanOK' /\ DeskOK' /\ UNCHANGED <<lastId, adder, crawl, probe, runs>>
<1>0. /\ BanOK /\ DeskOK /\ IsTable(desk.rows) /\ IsBatch(geo, Regions)
      /\ DOMAIN subs \subseteq Ids
  BY DEF TypeOK, DeskOK, TableOK, IsTable
<1>1. UNCHANGED <<lastId, adder, crawl, probe, runs>>
  BY DEF Desk, ToggleRead, ToggleWrite, MoveRead, MoveWrite, UnknownRead, UnknownWrite,
         DeskRead, DeskFail, DeleteRows, ClearBlacklist, GeoRead, GeoWrite, DeskFrame
<1>2. ASSUME UNCHANGED <<banned, slip>> PROVE BanOK'
  BY <1>0, <1>2 DEF BanOK
<1>3. ASSUME UNCHANGED <<desk, geo>> PROVE DeskOK'
  BY <1>0, <1>3 DEF DeskOK
<1>4. ASSUME ToggleRead \/ MoveRead \/ UnknownRead PROVE BanOK' /\ DeskOK'
  <2>1. ASSUME NEW op, NEW rows \in SUBSET DOMAIN subs, DeskRead(op, rows)
        PROVE  BanOK' /\ DeskOK'
    BY <1>2, <2>1, DeskReadType
  <2>2. UnknownRows \in SUBSET DOMAIN subs
    BY DEF UnknownRows
  <2>3. CASE ToggleRead
    <3>1. PICK i \in DOMAIN subs : DeskRead("toggle", {i})
      BY <2>3 DEF ToggleRead
    <3> QED BY <2>1, <3>1
  <2> QED BY <1>4, <2>1, <2>2, <2>3 DEF MoveRead, UnknownRead
<1>5. ASSUME ToggleWrite PROVE BanOK' /\ DeskOK'
  BY <1>0, <1>2, <1>5, DeskDoneType DEF ToggleWrite
<1>6. ASSUME MoveWrite \/ UnknownWrite PROVE BanOK' /\ DeskOK'
  BY <1>0, <1>6, DeskDoneType, BanType DEF MoveWrite, UnknownWrite
<1>7. ASSUME DeleteRows PROVE BanOK' /\ DeskOK'
  BY <1>2, <1>3, <1>7 DEF DeleteRows
<1>8. ASSUME ClearBlacklist PROVE BanOK' /\ DeskOK'
  BY <1>3, <1>8 DEF ClearBlacklist, BanOK
<1>9. ASSUME GeoRead PROVE BanOK' /\ DeskOK'
  <2>1. PICK S \in SUBSET DOMAIN subs : \E F \in SUBSET S : geo' \in [F -> Regions \ Unknown]
    BY <1>9 DEF GeoRead, UnknownRows
  <2>2. IsBatch(geo', Regions)
    BY <1>0, <2>1 DEF IsBatch
  <2> QED BY <1>0, <1>2, <1>9, <2>2 DEF GeoRead, DeskOK
<1>10. ASSUME GeoWrite PROVE BanOK' /\ DeskOK'
  BY <1>0, <1>2, <1>10, EmptyTable DEF GeoWrite, DeskOK
<1>11. ASSUME DeskFail PROVE BanOK' /\ DeskOK'
  <2>1. IsTable(Empty) BY EmptyTable
  <2> QED BY <1>0, <1>2, <1>11, <2>1 DEF DeskFail, DeskOK, NoDesk
<1> QED BY <1>1, <1>4, <1>5, <1>6, <1>7, <1>8, <1>9, <1>10, <1>11 DEF Desk

LEMMA TypeKept ==
  ASSUME TypeOK, [Next]_vars
  PROVE  TypeOK'
<1>1. TableOK'
  BY TableKept
<1>2. ASSUME UNCHANGED <<banned, slip>> PROVE BanOK'
  BY <1>2 DEF TypeOK, BanOK
<1>3. ASSUME UNCHANGED adder PROVE AdderOK'
  BY <1>3 DEF TypeOK, AdderOK
<1>4. ASSUME UNCHANGED probe PROVE ProbeOK'
  BY <1>4 DEF TypeOK, ProbeOK
<1>5. ASSUME UNCHANGED <<desk, geo>> PROVE DeskOK'
  BY <1>5 DEF TypeOK, DeskOK
<1>6. ASSUME UNCHANGED crawl PROVE CrawlOK'
  BY <1>6 DEF TypeOK, CrawlOK
<1>7. ASSUME NEW a \in Adders, Add(a) PROVE TypeOK'
  BY <1>1, <1>2, <1>4, <1>5, <1>7, AddType DEF TypeOK
<1>8. ASSUME Crawl PROVE TypeOK'
  BY <1>1, <1>2, <1>4, <1>5, <1>8, CrawlType DEF TypeOK
<1>9. ASSUME NEW c \in Rechecks, Recheck(c) PROVE TypeOK'
  BY <1>1, <1>2, <1>3, <1>5, <1>6, <1>9, RecheckType DEF TypeOK
<1>10. ASSUME NEW c \in Stabs, Stability(c) PROVE TypeOK'
  BY <1>1, <1>2, <1>3, <1>5, <1>6, <1>10, StabilityType DEF TypeOK
<1>11. ASSUME Desk PROVE TypeOK'
  BY <1>1, <1>3, <1>4, <1>6, <1>11, DeskType DEF TypeOK
<1>12. CASE UNCHANGED vars
  BY <1>1, <1>2, <1>3, <1>4, <1>5, <1>6, <1>12 DEF TypeOK, vars
<1> QED BY <1>7, <1>8, <1>9, <1>10, <1>11, <1>12 DEF Next

\* The variables of the pool always have the shape TypeOK gives them.
THEOREM TypeCorrect == Spec => []TypeOK
BY InitType, TypeKept, PTL DEF Spec
-----------------------------------------------------------------------------
(* Rows keep their keys, counters and flags in step: one case per effect. *)

Rows == UniqueKeys /\ DeathsCounted /\ VisibilityFollowsDeaths

LEMMA InitRows == Init => Rows
<1> SUFFICES ASSUME Init PROVE Rows
  OBVIOUS
<1>1. IsFresh(subs)
  BY SubPoolAssumption DEF Init
<1>2. \A i \in DOMAIN subs : subs[i].death = 0 /\ subs[i].active = TRUE
  BY <1>1 DEF IsFresh, NewRow
<1>3. UniqueKeys
  BY <1>1 DEF IsFresh, UniqueKeys
<1>4. DeathsCounted
  BY <1>2 DEF Init, DeathsCounted
<1>5. VisibilityFollowsDeaths
  BY <1>2, SubTableAssumption DEF VisibilityFollowsDeaths
<1> QED BY <1>3, <1>4, <1>5 DEF Rows

LEMMA UniqueKept ==
  ASSUME TypeOK, UniqueKeys, [Next]_vars
  PROVE  UniqueKeys'
<1>1. IsTable(subs)
  BY DEF TypeOK, TableOK
<1>2. ASSUME DOMAIN subs' \subseteq DOMAIN subs,
             \A i \in DOMAIN subs' : subs'[i].key = subs[i].key
      PROVE  UniqueKeys'
  BY <1>2 DEF UniqueKeys
<1>3. CASE Lost
  BY <1>2, <1>3 DEF Lost
<1>4. ASSUME NEW S \in SUBSET Ids, Remove(S) PROVE UniqueKeys'
  <2>1. subs' = Without(subs, S)
    BY <1>4 DEF Remove
  <2>2. /\ DOMAIN subs' \subseteq DOMAIN subs
        /\ \A i \in DOMAIN subs' : subs'[i] = subs[i]
    BY <2>1 DEF Without, Restrict
  <2> QED BY <1>2, <2>2
<1>5. ASSUME NEW out, IsBatch(out, Verdicts), WriteStatus(out) PROVE UniqueKeys'
  BY <1>1, <1>2, <1>5, StatusTable DEF WriteStatus
<1>6. ASSUME NEW found, IsBatch(found, Regions), WriteRows(ApplyRegions(subs, found))
      PROVE  UniqueKeys'
  BY <1>1, <1>2, <1>6, RegionsTable DEF WriteRows
<1>7. ASSUME NEW S, WriteRows(ApplyStreak(subs, S)) PROVE UniqueKeys'
  BY <1>1, <1>2, <1>7, StreakTable DEF WriteRows
<1>8. ASSUME NEW i \in Ids, NEW b \in BOOLEAN, ToggleStep(i, b) PROVE UniqueKeys'
  BY <1>1, <1>2, <1>8, ActiveTable DEF ToggleStep
<1>9. ASSUME NEW a \in Adders, InsertStep(a) PROVE UniqueKeys'
  <2> DEFINE id == lastId + 1
  <2>1. /\ DOMAIN subs' = DOMAIN Kept(a) \cup {id}
        /\ DOMAIN Kept(a) \subseteq DOMAIN subs
        /\ subs'[id] = NewRow(adder[a].key, adder[a].region, adder[a].speed)
        /\ \A i \in DOMAIN Kept(a) : Kept(a)[i] = subs[i]
        /\ \A i \in DOMAIN Kept(a) : i # id => subs'[i] = subs[i]
    BY <1>9, InsertTable
  <2>2. subs'[id].key = adder[a].key
    BY <2>1 DEF NewRow
  <2>3. \A i \in DOMAIN Kept(a) : subs[i].key # adder[a].key
    BY <1>9, <2>1 DEF InsertStep, KeysOf
  <2> HIDE DEF id
  <2> QED BY <2>1, <2>2, <2>3 DEF UniqueKeys
<1> QED BY StepEffect, <1>3, <1>4, <1>5, <1>6, <1>7, <1>8, <1>9 DEF Effect

LEMMA DeathsKept ==
  ASSUME TypeOK, DeathsCounted, [Next]_vars
  PROVE  DeathsCounted'
<1>1. IsTable(subs) /\ deaths \in [DOMAIN subs -> Nat]
  BY DEF TypeOK, TableOK
<1>2. ASSUME DOMAIN subs' \subseteq DOMAIN subs,
             \A i \in DOMAIN subs' : subs'[i].death = subs[i].death /\ deaths'[i] = deaths[i]
      PROVE  DeathsCounted'
  BY <1>2 DEF DeathsCounted
<1>3. CASE Lost
  BY <1>2, <1>3 DEF Lost
<1>4. ASSUME NEW S \in SUBSET Ids, Remove(S) PROVE DeathsCounted'
  <2>1. subs' = Without(subs, S) /\ deaths' = Without(deaths, S)
    BY <1>4 DEF Remove
  <2>2. /\ DOMAIN subs' \subseteq DOMAIN subs
        /\ \A i \in DOMAIN subs' : subs'[i] = subs[i]
    BY <2>1 DEF Without, Restrict
  <2>3. \A i \in DOMAIN subs' : deaths'[i] = deaths[i]
    BY <1>1, <2>1 DEF Without, Restrict
  <2> QED BY <1>2, <2>2, <2>3
<1>5. ASSUME NEW out, IsBatch(out, Verdicts), WriteStatus(out) PROVE DeathsCounted'
  <2>1. DOMAIN subs' = DOMAIN subs /\ DOMAIN deaths = DOMAIN subs
    BY <1>1, <1>5, StatusTable DEF WriteStatus
  <2>2. ASSUME NEW i \in DOMAIN subs PROVE subs'[i].death = deaths'[i]
    <3>1. subs[i] \in Row /\ subs[i].death = deaths[i]
      BY <1>1 DEF IsTable, DeathsCounted
    <3>2. subs'[i] = IF i \in DOMAIN out THEN Judged(subs[i], out[i]) ELSE subs[i]
      BY <1>5 DEF WriteStatus, ApplyStatus
    <3>3. deaths'[i] = IF i \notin Judging(out) THEN deaths[i]
                       ELSE IF out[i].status = "dead" THEN deaths[i] + 1 ELSE 0
      BY <1>5, <2>1 DEF WriteStatus, CountVerdicts
    <3>4. CASE i \notin DOMAIN out
      BY <3>1, <3>2, <3>3, <3>4 DEF Judging
    <3>5. CASE i \in DOMAIN out
      <4>1. out[i] \in Verdicts
        BY <1>5, <3>5 DEF IsBatch
      <4>2. i \in Judging(out) <=> out[i].status # "sys_err"
        BY <3>5 DEF Judging
      <4>3. subs'[i] = Judged(subs[i], out[i])
        BY <3>2, <3>5
      <4>4. CASE out[i].status = "alive"
        BY <3>1, <3>3, <4>1, <4>2, <4>3, <4>4, JudgedRow
      <4>5. CASE out[i].status = "dead"
        <5>1. deaths'[i] = deaths[i] + 1
          BY <3>3, <4>2, <4>5
        <5>2. Judged(subs[i], out[i]).death = subs[i].death + 1
          BY <3>1, <4>1, <4>5, JudgedRow
        <5> QED BY <3>1, <4>3, <5>1, <5>2
      <4>6. CASE out[i].status = "sys_err"
        BY <3>1, <3>3, <4>1, <4>2, <4>3, <4>6, JudgedRow
      <4> QED BY <3>1, <4>1, <4>4, <4>5, <4>6, JudgedRow
    <3> QED BY <3>4, <3>5
  <2> QED BY <2>1, <2>2 DEF DeathsCounted
<1>6. ASSUME NEW found, IsBatch(found, Regions), WriteRows(ApplyRegions(subs, found))
      PROVE  DeathsCounted'
  BY <1>1, <1>2, <1>6, RegionsTable DEF WriteRows
<1>7. ASSUME NEW S, WriteRows(ApplyStreak(subs, S)) PROVE DeathsCounted'
  BY <1>1, <1>2, <1>7, StreakTable DEF WriteRows
<1>8. ASSUME NEW i \in Ids, NEW b \in BOOLEAN, ToggleStep(i, b) PROVE DeathsCounted'
  BY <1>1, <1>2, <1>8, ActiveTable DEF ToggleStep
<1>9. ASSUME NEW a \in Adders, InsertStep(a) PROVE DeathsCounted'
  <2> DEFINE id == lastId + 1
  <2>1. /\ DOMAIN subs' = DOMAIN Kept(a) \cup {id}
        /\ DOMAIN Kept(a) \subseteq DOMAIN subs
        /\ subs'[id] = NewRow(adder[a].key, adder[a].region, adder[a].speed)
        /\ deaths'[id] = 0
        /\ \A i \in DOMAIN Kept(a) : i # id => subs'[i] = subs[i]
        /\ \A i \in DOMAIN Kept(a) : i # id => deaths'[i] = deaths[i]
    BY <1>9, InsertTable
  <2>2. subs'[id].death = 0
    BY <2>1 DEF NewRow
  <2> HIDE DEF id
  <2> QED BY <2>1, <2>2 DEF DeathsCounted
<1> QED BY StepEffect, <1>3, <1>4, <1>5, <1>6, <1>7, <1>8, <1>9 DEF Effect

LEMMA VisibilityKept ==
  ASSUME TypeOK, VisibilityFollowsDeaths, [Next]_vars
  PROVE  VisibilityFollowsDeaths'
<1>1. IsTable(subs) /\ touched \subseteq DOMAIN subs
  BY DEF TypeOK, TableOK
<1>2. ASSUME \A i \in DOMAIN subs' \ touched' :
               /\ i \in DOMAIN subs \ touched
               /\ subs'[i].death = subs[i].death
               /\ subs'[i].active = subs[i].active
      PROVE  VisibilityFollowsDeaths'
  BY <1>2 DEF VisibilityFollowsDeaths
<1>3. CASE Lost
  BY <1>2, <1>3 DEF Lost
<1>4. ASSUME NEW S \in SUBSET Ids, Remove(S) PROVE VisibilityFollowsDeaths'
  <2>1. subs' = Without(subs, S) /\ touched' = touched \ S
    BY <1>4 DEF Remove
  <2>2. \A i \in DOMAIN subs' : i \in DOMAIN subs /\ i \notin S /\ subs'[i] = subs[i]
    BY <2>1 DEF Without, Restrict
  <2> QED BY <1>2, <2>1, <2>2
<1>5. ASSUME NEW out, IsBatch(out, Verdicts), WriteStatus(out) PROVE VisibilityFollowsDeaths'
  <2>1. DOMAIN subs' = DOMAIN subs /\ touched' = touched \ Judging(out)
    BY <1>1, <1>5, StatusTable DEF WriteStatus, CountVerdicts
  <2>2. ASSUME NEW i \in DOMAIN subs \ touched'
        PROVE  subs'[i].active <=> subs'[i].death < DeactivateDeaths
    <3>1. subs[i] \in Row /\ subs[i].death \in Nat
      BY <1>1 DEF IsTable, Row
    <3>2. subs'[i] = IF i \in DOMAIN out THEN Judged(subs[i], out[i]) ELSE subs[i]
      BY <1>5 DEF WriteStatus, ApplyStatus
    <3>3. i \notin touched => (subs[i].active <=> subs[i].death < DeactivateDeaths)
      BY DEF VisibilityFollowsDeaths
    <3>4. CASE i \notin DOMAIN out
      <4>1. i \notin touched
        BY <2>1, <3>4 DEF Judging
      <4> QED BY <3>2, <3>3, <3>4, <4>1
    <3>5. CASE i \in DOMAIN out
      <4>1. out[i] \in Verdicts /\ subs'[i] = Judged(subs[i], out[i])
        BY <1>5, <3>2, <3>5 DEF IsBatch
      <4>2. i \in Judging(out) <=> out[i].status # "sys_err"
        BY <3>5 DEF Judging
      <4>3. CASE out[i].status = "sys_err"
        <5>1. i \notin touched
          BY <2>1, <4>2, <4>3
        <5>2. Judged(subs[i], out[i]) = subs[i]
          BY <3>1, <4>1, <4>3, JudgedRow
        <5> QED BY <3>3, <4>1, <5>1, <5>2
      <4>4. CASE out[i].status # "sys_err"
        <5>1. Judged(subs[i], out[i]).active
                <=> Judged(subs[i], out[i]).death < DeactivateDeaths
          BY <3>1, <4>1, <4>4, JudgedVisible
        <5> QED BY <4>1, <5>1
      <4> QED BY <4>3, <4>4
    <3> QED BY <3>4, <3>5
  <2> QED BY <2>1, <2>2 DEF VisibilityFollowsDeaths
<1>6. ASSUME NEW found, IsBatch(found, Regions), WriteRows(ApplyRegions(subs, found))
      PROVE  VisibilityFollowsDeaths'
  BY <1>1, <1>2, <1>6, RegionsTable DEF WriteRows
<1>7. ASSUME NEW S, WriteRows(ApplyStreak(subs, S)) PROVE VisibilityFollowsDeaths'
  BY <1>1, <1>2, <1>7, StreakTable DEF WriteRows
<1>8. ASSUME NEW i \in Ids, NEW b \in BOOLEAN, ToggleStep(i, b) PROVE VisibilityFollowsDeaths'
  BY <1>1, <1>2, <1>8, ActiveTable DEF ToggleStep
<1>9. ASSUME NEW a \in Adders, InsertStep(a) PROVE VisibilityFollowsDeaths'
  <2> DEFINE id == lastId + 1
  <2>1. /\ DOMAIN subs' = DOMAIN Kept(a) \cup {id}
        /\ DOMAIN Kept(a) \subseteq DOMAIN subs
        /\ subs'[id] = NewRow(adder[a].key, adder[a].region, adder[a].speed)
        /\ \A i \in DOMAIN Kept(a) : i # id => subs'[i] = subs[i]
    BY <1>9, InsertTable
  <2>2. subs'[id].death = 0 /\ subs'[id].active = TRUE
    BY <2>1 DEF NewRow
  <2>3. \A i \in DOMAIN Kept(a) : i \in touched => i \in touched'
    BY <1>9 DEF InsertStep, Inserted, Kept, Without, Restrict
  <2>4. 0 < DeactivateDeaths
    BY SubTableAssumption
  <2> HIDE DEF id
  <2> QED BY <2>1, <2>2, <2>3, <2>4 DEF VisibilityFollowsDeaths
<1> QED BY StepEffect, <1>3, <1>4, <1>5, <1>6, <1>7, <1>8, <1>9 DEF Effect

\* No two rows carry one key, however the adds interleave.
THEOREM KeysUnique == Spec => []UniqueKeys
<1>1. Init => UniqueKeys
  BY InitRows DEF Rows
<1>2. TypeOK /\ UniqueKeys /\ [Next]_vars => UniqueKeys'
  BY UniqueKept
<1> QED BY <1>1, <1>2, TypeCorrect, PTL DEF Spec

\* The stored counter is the number of dead verdicts since the last alive one.
THEOREM CountersExact == Spec => []DeathsCounted
<1>1. Init => DeathsCounted
  BY InitRows DEF Rows
<1>2. TypeOK /\ DeathsCounted /\ [Next]_vars => DeathsCounted'
  BY DeathsKept
<1> QED BY <1>1, <1>2, TypeCorrect, PTL DEF Spec

\* A row no button has touched is visible exactly below the death threshold.
THEOREM VisibilityExact == Spec => []VisibilityFollowsDeaths
<1>1. Init => VisibilityFollowsDeaths
  BY InitRows DEF Rows
<1>2. TypeOK /\ VisibilityFollowsDeaths /\ [Next]_vars => VisibilityFollowsDeaths'
  BY VisibilityKept
<1> QED BY <1>1, <1>2, TypeCorrect, PTL DEF Spec
-----------------------------------------------------------------------------
(* Ids are never reused, so an id read long ago still means the same row:  *)
(* the snapshots agree with the table on the rows that are left, and hold  *)
(* only ids the sequence has handed out.                                   *)

Agrees(t) == \A i \in DOMAIN t : /\ i <= lastId
                                 /\ i \in DOMAIN subs => subs[i].key = t[i].key

IdsHeld ==
  /\ \A i \in DOMAIN subs : i <= lastId
  /\ \A c \in Probers : Agrees(probe[c].snap)
  /\ Agrees(desk.rows)

LEMMA KeysStable ==
  ASSUME TypeOK, [Next]_vars
  PROVE  \A i \in DOMAIN subs' :
           \/ i \in DOMAIN subs /\ subs'[i].key = subs[i].key
           \/ i = lastId + 1 /\ lastId' = lastId + 1
<1> DEFINE Goal == \A i \in DOMAIN subs' :
                     \/ i \in DOMAIN subs /\ subs'[i].key = subs[i].key
                     \/ i = lastId + 1 /\ lastId' = lastId + 1
<1>1. IsTable(subs)
  BY DEF TypeOK, TableOK
<1>3. CASE Lost
  BY <1>3 DEF Lost
<1>4. ASSUME NEW S \in SUBSET Ids, Remove(S) PROVE Goal
  BY <1>4 DEF Remove, Without, Restrict
<1>5. ASSUME NEW out, IsBatch(out, Verdicts), WriteStatus(out) PROVE Goal
  BY <1>1, <1>5, StatusTable DEF WriteStatus
<1>6. ASSUME NEW found, IsBatch(found, Regions), WriteRows(ApplyRegions(subs, found))
      PROVE  Goal
  BY <1>1, <1>6, RegionsTable DEF WriteRows
<1>7. ASSUME NEW S, WriteRows(ApplyStreak(subs, S)) PROVE Goal
  BY <1>1, <1>7, StreakTable DEF WriteRows
<1>8. ASSUME NEW i \in Ids, NEW b \in BOOLEAN, ToggleStep(i, b) PROVE Goal
  BY <1>1, <1>8, ActiveTable DEF ToggleStep
<1>9. ASSUME NEW a \in Adders, InsertStep(a) PROVE Goal
  <2>1. /\ DOMAIN subs' = DOMAIN Kept(a) \cup {lastId + 1}
        /\ DOMAIN Kept(a) \subseteq DOMAIN subs
        /\ \A i \in DOMAIN Kept(a) : i # lastId + 1 => subs'[i] = subs[i]
    BY <1>9, InsertTable
  <2>2. lastId' = lastId + 1
    BY <1>9 DEF InsertStep
  <2> QED BY <2>1, <2>2
<1> QED BY StepEffect, <1>3, <1>4, <1>5, <1>6, <1>7, <1>8, <1>9 DEF Effect

LEMMA SnapsStable ==
  ASSUME TypeOK, [Next]_vars, NEW c \in Probers
  PROVE  \/ \A i \in DOMAIN probe'[c].snap :
              i \in DOMAIN probe[c].snap /\ probe'[c].snap[i] = probe[c].snap[i]
         \/ /\ subs' = subs
            /\ \A i \in DOMAIN probe'[c].snap :
                 i \in DOMAIN subs /\ probe'[c].snap[i] = subs[i]
<1> DEFINE Goal == \/ \A i \in DOMAIN probe'[c].snap :
                        i \in DOMAIN probe[c].snap /\ probe'[c].snap[i] = probe[c].snap[i]
                   \/ /\ subs' = subs
                      /\ \A i \in DOMAIN probe'[c].snap :
                           i \in DOMAIN subs /\ probe'[c].snap[i] = subs[i]
<1>1. CASE UNCHANGED probe
  BY <1>1
<1>2. probe = [d \in Probers |-> probe[d]]
  BY DEF TypeOK, ProbeOK
<1>3. ASSUME NEW d \in Probers, NEW pc, NEW t, NEW out, NEW found,
             SetRun(d, Run(pc, t, out, found)),
             \A i \in DOMAIN t : i \in DOMAIN probe[d].snap /\ t[i] = probe[d].snap[i]
      PROVE  Goal
  <2>1. CASE c = d
    <3>1. probe'[c].snap = t
      BY <1>2, <1>3, <2>1 DEF SetRun, Run
    <3> QED BY <1>3, <2>1, <3>1
  <2>2. CASE c # d
    <3>1. probe'[c] = probe[c]
      BY <1>2, <1>3, <2>2 DEF SetRun
    <3> QED BY <3>1
  <2> QED BY <2>1, <2>2
<1>4. ASSUME NEW d \in Probers, SetRun(d, NoRun) PROVE Goal
  BY <1>3, <1>4 DEF NoRun, Empty
<1>5. ASSUME NEW d \in Probers, NEW pc, Goto(d, pc) PROVE Goal
  BY <1>3, <1>5 DEF Goto
<1>6. ASSUME NEW d \in Probers, NEW rows \in SUBSET DOMAIN subs, StartRun(d, rows) PROVE Goal
  <2>1. SetRun(d, Run("probing", Restrict(subs, rows), Empty, Empty)) /\ subs' = subs
    BY <1>6 DEF StartRun, Lost
  <2>2. CASE c = d
    <3>1. probe'[c].snap = Restrict(subs, rows)
      BY <1>2, <2>1, <2>2 DEF SetRun, Run
    <3> QED BY <2>1, <3>1 DEF Restrict
  <2>3. CASE c # d
    <3>1. probe'[c] = probe[c]
      BY <1>2, <2>1, <2>3 DEF SetRun
    <3> QED BY <3>1
  <2> QED BY <2>2, <2>3
<1>7. ASSUME NEW d \in Rechecks, Recheck(d) PROVE Goal
  <2>0. d \in Probers
    BY DEF Probers
  <2>1. CASE RecheckStart(d)
    BY <1>6, <2>0, <2>1 DEF RecheckStart
  <2>2. CASE RecheckTake(d)
    <3>1. PICK S : \E out \in [S -> Verdicts] :
            \E F \in SUBSET Alive(out) : \E found \in [F -> Regions \ Unknown] :
              SetRun(d, Run("status", probe[d].snap, out, found))
      BY <2>2 DEF RecheckTake
    <3> QED BY <1>3, <2>0, <3>1
  <2>3. CASE RecheckStatus(d)
    BY <1>5, <2>0, <2>3 DEF RecheckStatus
  <2>4. CASE RecheckRegions(d)
    <3> DEFINE left == Restrict(probe[d].snap, DOMAIN probe[d].snap \ DOMAIN probe[d].out)
    <3>1. \A i \in DOMAIN left : i \in DOMAIN probe[d].snap /\ left[i] = probe[d].snap[i]
      BY DEF Restrict
    <3>2. SetRun(d, Run("probing", left, Empty, Empty))
      BY <2>4 DEF RecheckRegions
    <3> HIDE DEF left
    <3> QED BY <1>3, <2>0, <3>1, <3>2
  <2>5. CASE RecheckDone(d) \/ RunAbort(d)
    BY <1>4, <2>0, <2>5 DEF RecheckDone, RunAbort
  <2> QED BY <1>7, <2>1, <2>2, <2>3, <2>4, <2>5 DEF Recheck
<1>8. ASSUME NEW d \in Stabs, Stability(d) PROVE Goal
  <2>0. d \in Probers
    BY DEF Probers
  <2>1. CASE StabStart(d)
    BY <1>6, <2>0, <2>1 DEF StabStart
  <2>2. CASE StabJudge(d)
    <3>1. PICK S : \E out \in [S -> Verdicts] :
            SetRun(d, IF S = {} THEN NoRun ELSE Run("streak", probe[d].snap, out, Empty))
      BY <2>2 DEF StabJudge
    <3> QED BY <1>3, <1>4, <2>0, <3>1
  <2>3. CASE StabStreak(d) \/ StabStatus(d) \/ StabDelete(d)
    BY <1>5, <2>0, <2>3 DEF StabStreak, StabStatus, StabDelete
  <2>4. CASE StabCleanup(d) \/ RunAbort(d)
    BY <1>4, <2>0, <2>4 DEF StabCleanup, RunAbort
  <2> QED BY <1>8, <2>1, <2>2, <2>3, <2>4 DEF Stability
<1>9. ASSUME NEW a \in Adders, Add(a) PROVE UNCHANGED probe
  BY <1>9, AddType
<1>10. ASSUME Crawl \/ Desk PROVE UNCHANGED probe
  BY <1>10, CrawlType, DeskType
<1> QED BY <1>1, <1>7, <1>8, <1>9, <1>10 DEF Next, vars

LEMMA RowsStable ==
  ASSUME TypeOK, [Next]_vars
  PROVE  \/ UNCHANGED desk
         \/ DOMAIN desk'.rows = {}
         \/ /\ subs' = subs
            /\ \A i \in DOMAIN desk'.rows : i \in DOMAIN subs /\ desk'.rows[i] = subs[i]
<1> DEFINE Goal == \/ UNCHANGED desk
                   \/ DOMAIN desk'.rows = {}
                   \/ /\ subs' = subs
                      /\ \A i \in DOMAIN desk'.rows :
                           i \in DOMAIN subs /\ desk'.rows[i] = subs[i]
<1>1. ASSUME NEW op, NEW rows \in SUBSET DOMAIN subs, DeskRead(op, rows) PROVE Goal
  BY <1>1 DEF DeskRead, Lost, Restrict
<1>2. ASSUME NEW op, DeskDone(op) PROVE Goal
  BY <1>2 DEF DeskDone, NoDesk, Empty
<1>3. ASSUME Desk PROVE Goal
  <2>1. UnknownRows \in SUBSET DOMAIN subs
    BY DEF UnknownRows
  <2>2. CASE ToggleRead
    <3>1. PICK i \in DOMAIN subs : DeskRead("toggle", {i})
      BY <2>2 DEF ToggleRead
    <3> QED BY <1>1, <3>1
  <2>3. CASE MoveRead \/ UnknownRead
    BY <1>1, <2>1, <2>3 DEF MoveRead, UnknownRead
  <2>4. CASE ToggleWrite \/ MoveWrite \/ UnknownWrite
    BY <1>2, <2>4 DEF ToggleWrite, MoveWrite, UnknownWrite
  <2>5. CASE DeleteRows \/ ClearBlacklist \/ GeoRead \/ GeoWrite
    BY <2>5 DEF DeleteRows, ClearBlacklist, GeoRead, GeoWrite
  <2>6. CASE DeskFail
    BY <2>6 DEF DeskFail, NoDesk, Empty
  <2> QED BY <1>3, <2>2, <2>3, <2>4, <2>5, <2>6 DEF Desk
<1>4. ASSUME NEW a \in Adders, Add(a) PROVE UNCHANGED desk
  BY <1>4, AddType
<1>5. ASSUME Crawl PROVE UNCHANGED desk
  BY <1>5, CrawlType
<1>6. ASSUME NEW c \in Rechecks, Recheck(c) PROVE UNCHANGED desk
  BY <1>6, RecheckType
<1>7. ASSUME NEW c \in Stabs, Stability(c) PROVE UNCHANGED desk
  BY <1>7, StabilityType
<1> QED BY <1>3, <1>4, <1>5, <1>6, <1>7 DEF Next, vars

LEMMA InitIds == Init => IdsHeld
<1> SUFFICES ASSUME Init PROVE IdsHeld
  OBVIOUS
<1>1. \A i \in DOMAIN subs : i <= lastId
  BY SubPoolAssumption DEF Init
<1>2. \A c \in Probers : Agrees(probe[c].snap)
  BY DEF Init, NoRun, Run, Empty, Agrees
<1>3. Agrees(desk.rows)
  BY DEF Init, NoDesk, Empty, Agrees
<1> QED BY <1>1, <1>2, <1>3 DEF IdsHeld

LEMMA IdsKept ==
  ASSUME TypeOK, IdsHeld, [Next]_vars
  PROVE  IdsHeld'
<1>1. lastId \in Nat /\ lastId' \in Nat /\ lastId' >= lastId
  BY LastIdGrows DEF TypeOK, TableOK
<1>2. DOMAIN subs \subseteq Nat /\ DOMAIN desk.rows \subseteq Nat
  BY DEF TypeOK, TableOK, DeskOK, IsTable, Ids
<1>3. \A i \in DOMAIN subs' :
        \/ i \in DOMAIN subs /\ subs'[i].key = subs[i].key
        \/ i = lastId + 1 /\ lastId' = lastId + 1
  BY KeysStable
<1>4. \A i \in DOMAIN subs' : i <= lastId'
  BY <1>1, <1>2, <1>3 DEF IdsHeld
<1>5. ASSUME NEW i \in Nat, NEW row, i <= lastId, i \in DOMAIN subs => subs[i].key = row.key
      PROVE  i <= lastId' /\ (i \in DOMAIN subs' => subs'[i].key = row.key)
  BY <1>1, <1>3, <1>5
<1>6. ASSUME NEW c \in Probers PROVE Agrees(probe[c].snap)'
  <2>1. DOMAIN probe[c].snap \subseteq Nat
    BY DEF TypeOK, ProbeOK, IsRun, IsTable, Ids
  <2>2. Agrees(probe[c].snap)
    BY DEF IdsHeld
  <2>3. CASE \A i \in DOMAIN probe'[c].snap :
               i \in DOMAIN probe[c].snap /\ probe'[c].snap[i] = probe[c].snap[i]
    BY <1>5, <2>1, <2>2, <2>3 DEF Agrees
  <2>4. CASE /\ subs' = subs
             /\ \A i \in DOMAIN probe'[c].snap :
                  i \in DOMAIN subs /\ probe'[c].snap[i] = subs[i]
    BY <1>4, <2>4 DEF Agrees
  <2> QED BY <2>3, <2>4, SnapsStable
<1>7. Agrees(desk.rows)'
  <2>1. Agrees(desk.rows)
    BY DEF IdsHeld
  <2>2. CASE UNCHANGED desk
    BY <1>2, <1>5, <2>1, <2>2 DEF Agrees
  <2>3. CASE DOMAIN desk'.rows = {}
    BY <2>3 DEF Agrees
  <2>4. CASE /\ subs' = subs
             /\ \A i \in DOMAIN desk'.rows : i \in DOMAIN subs /\ desk'.rows[i] = subs[i]
    BY <1>4, <2>4 DEF Agrees
  <2> QED BY <2>2, <2>3, <2>4, RowsStable
<1> QED BY <1>4, <1>6, <1>7 DEF IdsHeld

\* Verdicts and flags are written by id to the rows they were meant for.
THEOREM VerdictsReachTheirRows == Spec => []NoForeignVerdict
<1>1. Init => IdsHeld
  BY InitIds
<1>2. TypeOK /\ IdsHeld /\ [Next]_vars => IdsHeld'
  BY IdsKept
<1>3. IdsHeld => NoForeignVerdict
  BY DEF IdsHeld, Agrees, NoForeignVerdict
<1> QED BY <1>1, <1>2, <1>3, TypeCorrect, PTL DEF Spec
-----------------------------------------------------------------------------
(* The blacklist.  BanWindow is not inductive: an add that was past its    *)
(* check when its key was banned will insert the key later, so calls in    *)
(* flight are counted like rows.                                           *)

Slipped == \A k \in banned : InFlight(k) \/ k \in KeysOf(subs) => k \in slip

LEMMA NewKeysInFlight ==
  ASSUME TypeOK, [Next]_vars
  PROVE  \A k \in KeysOf(subs') : k \in KeysOf(subs) \/ InFlight(k)
<1> SUFFICES ASSUME NEW i \in DOMAIN subs'
             PROVE  subs'[i].key \in KeysOf(subs) \/ InFlight(subs'[i].key)
  BY DEF KeysOf
<1>1. CASE i \in DOMAIN subs /\ subs'[i].key = subs[i].key
  BY <1>1 DEF KeysOf
<1>2. CASE i = lastId + 1 /\ lastId' = lastId + 1
  <2>1. lastId \in Nat
    BY DEF TypeOK, TableOK
  <2>2. PICK a \in Adders : AddWrite(a)
    BY <1>2, <2>1, AddStepsId
  <2>3. CASE adder[a].key \in KeysOf(Kept(a))
    <3>1. subs' = subs
      BY <2>2, <2>3 DEF AddWrite, Lost
    <3> QED BY <3>1 DEF KeysOf
  <2>4. CASE adder[a].key \notin KeysOf(Kept(a))
    <3>1. InsertStep(a)
      BY <2>2, <2>4 DEF AddWrite, InsertStep
    <3>2. subs'[i] = NewRow(adder[a].key, adder[a].region, adder[a].speed)
      BY <1>2, <3>1, InsertTable
    <3>3. subs'[i].key = adder[a].key
      BY <3>2 DEF NewRow
    <3> QED BY <2>2, <3>3 DEF AddWrite, InFlight
  <2> QED BY <2>3, <2>4
<1> QED BY <1>1, <1>2, KeysStable

LEMMA SlippedKept ==
  ASSUME TypeOK, Slipped, [Next]_vars
  PROVE  Slipped'
<1>1. \A k \in KeysOf(subs') : k \in KeysOf(subs) \/ InFlight(k)
  BY NewKeysInFlight
<1>2. ASSUME UNCHANGED <<adder, banned, slip>> PROVE Slipped'
  BY <1>1, <1>2 DEF Slipped, InFlight
<1>3. ASSUME NEW a \in Adders, Add(a) PROVE Slipped'
  <2>1. UNCHANGED <<banned, slip>>
    BY <1>3, AddType
  <2>2. \A k \in banned : InFlight(k)' => InFlight(k)
    <3>1. adder = [b \in Adders |-> adder[b]]
      BY DEF TypeOK, AdderOK
    <3>2. CASE \E k \in Keys, r \in Regions, s \in Speeds \ {0} : AddVet(a, k, r, s)
      BY <3>1, <3>2 DEF AddVet, InFlight
    <3>3. CASE EndCall(a)
      BY <3>1, <3>3 DEF EndCall, NoCall, InFlight
    <3>4. ASSUME NEW p, NEW w, Advance(a, p, w), adder[a].pc # "idle"
          PROVE  \A k \in banned : InFlight(k)' => InFlight(k)
      <4>1. \A b \in Adders : adder'[b].key = adder[b].key /\ (b # a => adder'[b] = adder[b])
        <5>1. adder[a] \in [pc: {"idle", "vetted", "new", "full", "write"}, key: Keys,
                            region: Regions, speed: Speeds \ {0}, worst: Nat]
          BY DEF TypeOK, AdderOK
        <5> QED BY <3>1, <3>4, <5>1 DEF Advance
      <4> QED BY <3>4, <4>1 DEF InFlight
    <3> QED BY <1>3, <3>2, <3>3, <3>4
            DEF Add, AddLook, AddCount, AddRank, AddWrite, WriteFrame, AddFail
  <2> QED BY <1>1, <2>1, <2>2 DEF Slipped
<1>4. ASSUME Crawl PROVE Slipped'
  <2>1. UNCHANGED <<banned, slip>>
    BY <1>4, CrawlType
  <2>2. adder = [b \in Adders |-> adder[b]]
    BY DEF TypeOK, AdderOK
  <2>3. \A k \in banned : InFlight(k)' => InFlight(k)
    BY <1>4, <2>2 DEF Crawl, CrawlStart, CrawlDrained, CrawlCleanup, CrawlEnforce, CrawlAbort,
                     InFlight, NoCall
  <2> QED BY <1>1, <2>1, <2>3 DEF Slipped
<1>5. ASSUME NEW c \in Rechecks, Recheck(c) PROVE Slipped'
  BY <1>2, <1>5, RecheckType
<1>6. ASSUME NEW c \in Stabs, Stability(c) PROVE Slipped'
  BY <1>2, <1>6, StabilityType
<1>7. ASSUME Desk PROVE Slipped'
  <2>1. UNCHANGED adder
    BY <1>7, DeskType
  <2>2. ASSUME NEW rows, Ban(rows) PROVE Slipped'
    BY <1>1, <2>1, <2>2 DEF Ban, Slipped, InFlight
  <2>3. CASE MoveWrite \/ UnknownWrite
    BY <2>2, <2>3 DEF MoveWrite, UnknownWrite
  <2>4. CASE ClearBlacklist
    BY <2>4 DEF ClearBlacklist, Slipped
  <2>5. CASE \/ ToggleRead \/ ToggleWrite \/ MoveRead \/ UnknownRead \/ DeskFail
             \/ DeleteRows \/ GeoRead \/ GeoWrite
    BY <1>2, <2>1, <2>5 DEF ToggleRead, ToggleWrite, MoveRead, UnknownRead, DeskRead,
                           DeskFail, DeleteRows, GeoRead, GeoWrite
  <2> QED BY <1>7, <2>3, <2>4, <2>5 DEF Desk
<1> QED BY <1>2, <1>3, <1>4, <1>5, <1>6, <1>7 DEF Next, vars

\* A banned key is in the pool only if it slipped through the window between
\* the blacklist check and the insert, or escaped the DELETE of its ban.
THEOREM BansHold == Spec => []BanWindow
<1>1. Init => Slipped
  BY DEF Init, Slipped
<1>2. TypeOK /\ Slipped /\ [Next]_vars => Slipped'
  BY SlippedKept
<1>3. Slipped => BanWindow
  BY DEF Slipped, BanWindow
<1> QED BY <1>1, <1>2, <1>3, TypeCorrect, PTL DEF Spec

-----------------------------------------------------------------------------
(* What is held of the rows, and the promise the pool makes about it. *)

LEMMA HeldInit == Init => Promise!Init
<1> SUFFICES ASSUME Init PROVE Promise!Init
  OBVIOUS
<1>1. subs \in InitPools /\ DOMAIN subs = 1..lastId /\ lastId \in Nat
  BY SubPoolAssumption DEF Init
<1>2. IsTable(subs) /\ IsFresh(subs)
  BY <1>1, SubPoolAssumption
<1>3. \A i \in 1..lastId : subs[i].key \in Keys
  BY <1>1, <1>2 DEF IsTable, Row
<1> QED BY <1>1, <1>2, <1>3 DEF Promise!Init, HeldKeys, IsFresh

LEMMA RowsLeave ==
  ASSUME TypeOK, [Next]_vars, lastId' = lastId
  PROVE  DOMAIN subs' \in SUBSET DOMAIN HeldKeys /\ Promise!Leave(DOMAIN subs')
<1>1. lastId \in Nat
  BY DEF TypeOK, TableOK
<1>2. \A i \in DOMAIN subs' : i \in DOMAIN subs /\ subs'[i].key = subs[i].key
  BY <1>1, KeysStable
<1> QED BY <1>2 DEF Promise!Leave, Promise!Stay, HeldKeys

LEMMA KeyEnters ==
  ASSUME TypeOK, IdsHeld, NEW a \in Adders, InsertStep(a)
  PROVE  /\ DOMAIN Kept(a) \in SUBSET DOMAIN HeldKeys
         /\ Promise!Enter(adder[a].key, DOMAIN Kept(a))
<1> DEFINE stay == DOMAIN Kept(a)
           id == lastId + 1
<1>1. /\ stay = DOMAIN subs \ {adder[a].worst}
      /\ \A i \in stay : Kept(a)[i] = subs[i]
  BY DEF Kept, Without, Restrict
<1>2. lastId \in Nat /\ DOMAIN subs \subseteq Nat
  BY DEF TypeOK, TableOK, IsTable, Ids
<1>3. id \notin stay
  BY <1>1, <1>2 DEF IdsHeld
<1>4. /\ lastId' = id
      /\ DOMAIN subs' = stay \cup {id}
      /\ subs'[id].key = adder[a].key
      /\ \A i \in stay : subs'[i] = subs[i]
  <2>1. lastId' = id
    BY DEF InsertStep
  <2>2. /\ DOMAIN subs' = stay \cup {id}
        /\ subs'[id] = NewRow(adder[a].key, adder[a].region, adder[a].speed)
        /\ \A i \in stay : i # id => subs'[i] = subs[i]
    BY InsertTable
  <2>3. subs'[id].key = adder[a].key
    BY <2>2 DEF NewRow
  <2> HIDE DEF stay, id
  <2> QED BY <1>3, <2>1, <2>2, <2>3
<1>5. adder[a].key \notin {subs[i].key : i \in stay}
  BY <1>1 DEF InsertStep, KeysOf
<1> HIDE DEF stay, id
<1>6. stay \subseteq DOMAIN HeldKeys /\ \A i, j \in DOMAIN HeldKeys \ stay : i = j
  BY <1>1 DEF HeldKeys
<1>7. \A i \in stay : HeldKeys[i] = subs[i].key
  BY <1>1 DEF HeldKeys
<1>8. adder[a].key \notin {HeldKeys[i] : i \in stay}
  BY <1>5, <1>7
<1>9. HeldKeys' = [i \in stay \cup {id} |-> IF i = id THEN adder[a].key ELSE HeldKeys[i]]
  BY <1>3, <1>4, <1>7 DEF HeldKeys
<1> QED BY <1>4, <1>6, <1>8, <1>9 DEF Promise!Enter, stay, id

\* Whatever everybody does to the table, in whatever order: an id names one
\* key for ever, a key has one row, and an add takes at most one row out, in
\* the transaction that puts its own in.  Snapshots, verdicts and buttons,
\* which remember ids, rest on it.
THEOREM PromiseKept == Spec => PoolSpec
<1>1. Init => Promise!Init
  BY HeldInit
<1>2. ASSUME TypeOK, IdsHeld, [Next]_vars
      PROVE  [Promise!Next]_<<HeldKeys, lastId>>
  <2>1. CASE lastId' = lastId
    BY <1>2, <2>1, RowsLeave DEF Promise!Next
  <2>2. CASE lastId' # lastId
    <3>1. PICK a \in Adders : AddWrite(a)
      BY <1>2, <2>2, AddStepsId
    <3>2. CASE adder[a].key \in KeysOf(Kept(a))
      <4>1. lastId' = lastId + 1 /\ subs' = subs
        BY <3>1, <3>2 DEF AddWrite, Lost
      <4> QED BY <4>1 DEF Promise!Next, Promise!Refuse, HeldKeys
    <3>3. CASE adder[a].key \notin KeysOf(Kept(a))
      <4>1. InsertStep(a)
        BY <3>1, <3>3 DEF AddWrite, InsertStep
      <4>2. adder[a].key \in Keys
        BY <1>2 DEF TypeOK, AdderOK
      <4> QED BY <1>2, <4>1, <4>2, KeyEnters DEF Promise!Next
    <3> QED BY <3>2, <3>3
  <2> QED BY <2>1, <2>2
<1>3. TypeOK /\ IdsHeld /\ [Next]_vars => IdsHeld'
  BY IdsKept
<1> QED BY <1>1, <1>2, <1>3, InitIds, TypeCorrect, PTL DEF Spec, PoolSpec, Promise!Spec

\* What PoolPromise says of the steps that spend an id, in the pool's words.
EvictsOneForOne ==
  [][lastId' # lastId =>
       \A i, j \in DOMAIN subs \ DOMAIN subs' : i = j /\ lastId' \in DOMAIN subs']_vars

\* A transaction that spends an id removes at most one row, and only with an
\* insert.
THEOREM AddsNeverShrink == Spec => EvictsOneForOne
<1>1. TypeOK /\ [Next]_vars =>
        [lastId' # lastId => \A i, j \in DOMAIN subs \ DOMAIN subs' :
                               i = j /\ lastId' \in DOMAIN subs']_vars
  <2> SUFFICES ASSUME TypeOK, Next, lastId' # lastId,
                      NEW i \in DOMAIN subs \ DOMAIN subs', NEW j \in DOMAIN subs \ DOMAIN subs'
               PROVE  i = j /\ lastId' \in DOMAIN subs'
    OBVIOUS
  <2>1. PICK a \in Adders : AddWrite(a)
    BY AddStepsId
  <2>2. InsertStep(a)
    BY <2>1 DEF AddWrite, InsertStep, Lost
  <2>3. DOMAIN Kept(a) = DOMAIN subs \ {adder[a].worst}
    BY DEF Kept, Without, Restrict
  <2>4. DOMAIN subs' = DOMAIN Kept(a) \cup {lastId + 1} /\ lastId' = lastId + 1
    BY <2>2, InsertTable DEF InsertStep
  <2> QED BY <2>3, <2>4
<1> QED BY <1>1, TypeCorrect, PTL DEF Spec, EvictsOneForOne
-----------------------------------------------------------------------------
(* enforce_limits. *)

LEMMA TrimmedRows ==
  ASSUME NEW t, NEW u \in Trimmed(t)
  PROVE  /\ DOMAIN u \subseteq DOMAIN t
         /\ \A i \in DOMAIN t : t[i].region \in Unknown => i \in DOMAIN u
         /\ \A r \in Regions \ Unknown :
              DOMAIN u \cap InRegion(t, r) \in Survivors(t, r)
BY DEF Trimmed, Restrict

LEMMA TrimStep ==
  ASSUME TypeOK, [Next]_vars, crawl.pc = "enforce", crawl' = NoCrawl
  PROVE  \/ subs' = subs
         \/ \E t \in Trimmed(subs) : subs' = Without(subs, DOMAIN subs \ DOMAIN t)
<1>1. crawl' # crawl
  BY DEF NoCrawl, Crawling
<1>2. ASSUME NEW a \in Adders, Add(a) PROVE FALSE
  BY <1>1, <1>2 DEF Add, AddVet, TakeLink, AddLook, AddCount, AddRank, AddWrite, WriteFrame,
                    AddFail, AddFrame
<1>3. CASE Crawl
  <2>1. CrawlEnforce \/ CrawlAbort
    BY <1>3 DEF Crawl, CrawlStart, CrawlDrained, CrawlCleanup, NoCrawl, Crawling
  <2> QED BY <2>1 DEF CrawlEnforce, CrawlAbort, Remove, Lost
<1>4. ASSUME NEW c \in Rechecks, Recheck(c) PROVE FALSE
  BY <1>1, <1>4, RecheckType
<1>5. ASSUME NEW c \in Stabs, Stability(c) PROVE FALSE
  BY <1>1, <1>5, StabilityType
<1>6. ASSUME Desk PROVE FALSE
  BY <1>1, <1>6, DeskType
<1> QED BY <1>1, <1>2, <1>3, <1>4, <1>5, <1>6 DEF Next, vars

\* enforce_limits ranks hidden rows last: it never drops a row that users see
\* and keeps one of the same region that they do not.
THEOREM TrimSparesVisible == Spec => TrimKeepsVisible
<1>1. ASSUME TypeOK, [Next]_vars, crawl.pc = "enforce",
             NEW i \in DOMAIN subs \ DOMAIN subs', NEW j \in DOMAIN subs \cap DOMAIN subs',
             crawl' = NoCrawl, subs[i].region = subs[j].region, subs[i].active
      PROVE  subs[j].active
  <2>1. PICK t \in Trimmed(subs) : subs' = Without(subs, DOMAIN subs \ DOMAIN t)
    BY <1>1, TrimStep
  <2> DEFINE r == subs[i].region
  <2>2. i \notin DOMAIN t /\ j \in DOMAIN t
    BY <2>1 DEF Without, Restrict
  <2>3. /\ \A n \in DOMAIN subs : subs[n].region \in Unknown => n \in DOMAIN t
        /\ \A s \in Regions \ Unknown :
             DOMAIN t \cap InRegion(subs, s) \in Survivors(subs, s)
    BY TrimmedRows
  <2>4. r \in Regions \ Unknown
    BY <1>1, <2>2, <2>3 DEF TypeOK, TableOK, IsTable, Row
  <2>5. i \in InRegion(subs, r) /\ j \in InRegion(subs, r)
    BY <1>1 DEF InRegion
  <2>6. ~WorseThan(subs[j], subs[i])
    BY <2>2, <2>3, <2>4, <2>5 DEF Survivors
  <2> QED BY <1>1, <2>6 DEF WorseThan
<1>2. TypeOK /\ [Next]_vars =>
        [crawl.pc = "enforce" =>
           \A i \in DOMAIN subs \ DOMAIN subs', j \in DOMAIN subs \cap DOMAIN subs' :
             (crawl' = NoCrawl /\ subs[i].region = subs[j].region /\ subs[i].active)
                => subs[j].active]_vars
  BY <1>1
<1> QED BY <1>2, TypeCorrect, PTL DEF Spec, TrimKeepsVisible
(* How many rows a region holds. *)

LEMMA RowsFinite ==
  ASSUME TypeOK, IdsHeld
  PROVE  IsFiniteSet(DOMAIN subs)
<1>1. lastId \in Nat /\ \A i \in DOMAIN subs : i \in Nat /\ i <= lastId
  BY DEF TypeOK, TableOK, IsTable, Ids, IdsHeld
<1> QED BY <1>1, FS_BoundedSetOfNaturals

LEMMA RegionFinite ==
  ASSUME TypeOK, IdsHeld, NEW r
  PROVE  /\ IsFiniteSet(InRegion(subs, r))
         /\ Cardinality(InRegion(subs, r)) \in Nat
<1>1. InRegion(subs, r) \subseteq DOMAIN subs
  BY DEF InRegion
<1> QED BY <1>1, RowsFinite, FS_Subset, FS_CardinalityType

LEMMA Fewer ==
  ASSUME TypeOK, IdsHeld, NEW r, NEW S \in SUBSET InRegion(subs, r)
  PROVE  /\ Cardinality(S) \in Nat
         /\ Cardinality(S) <= Cardinality(InRegion(subs, r))
BY RegionFinite, FS_Subset, FS_CardinalityType

LEMMA OneFewer ==
  ASSUME TypeOK, IdsHeld, NEW r, NEW w \in InRegion(subs, r),
         NEW S \in SUBSET (InRegion(subs, r) \ {w})
  PROVE  /\ Cardinality(S) \in Nat
         /\ Cardinality(S) + 1 <= Cardinality(InRegion(subs, r))
<1> DEFINE all == InRegion(subs, r)
<1>1. IsFiniteSet(all) /\ Cardinality(all) \in Nat
  BY RegionFinite
<1> HIDE DEF all
<1>2. IsFiniteSet(all \ {w}) /\ Cardinality(all \ {w}) = Cardinality(all) - 1
  BY <1>1, FS_RemoveElement DEF all
<1>3. IsFiniteSet(S) /\ Cardinality(S) <= Cardinality(all \ {w})
  BY <1>2, FS_Subset DEF all
<1>4. Cardinality(S) \in Nat
  BY <1>3, FS_CardinalityType
<1> QED BY <1>1, <1>2, <1>3, <1>4 DEF all

\* A trim that goes through and removes rows has brought the cap back.
TrimCaps == [][crawl.pc = "enforce" /\ crawl' = NoCrawl => subs' = subs \/ RegionCap']_vars

\* After an enforce_limits that goes through, no known region is over
\* MAX_CONFIGS_PER_REGION, however far the adds had taken it.
THEOREM TrimRestoresCap == Spec => TrimCaps
<1>1. ASSUME TypeOK, IdsHeld, [Next]_vars, crawl.pc = "enforce", crawl' = NoCrawl,
             subs' # subs, NEW r \in Regions \ Unknown
      PROVE  Cardinality(InRegion(subs', r)) <= MaxPerRegion
  <2>1. PICK t \in Trimmed(subs) : subs' = Without(subs, DOMAIN subs \ DOMAIN t)
    BY <1>1, TrimStep
  <2>2. /\ DOMAIN t \subseteq DOMAIN subs
        /\ DOMAIN t \cap InRegion(subs, r) \in Survivors(subs, r)
    BY <1>1, TrimmedRows
  <2>3. InRegion(subs', r) = DOMAIN t \cap InRegion(subs, r)
    BY <2>1, <2>2 DEF InRegion, Without, Restrict
  <2>4. Cardinality(InRegion(subs, r)) \in Nat /\ MaxPerRegion \in Nat
    BY <1>1, RegionFinite, SubTableAssumption
  <2> QED BY <2>2, <2>3, <2>4 DEF Survivors
<1>2. TypeOK /\ IdsHeld /\ [Next]_vars =>
        [crawl.pc = "enforce" /\ crawl' = NoCrawl => subs' = subs \/ RegionCap']_vars
  BY <1>1 DEF RegionCap
<1>3. TypeOK /\ IdsHeld /\ [Next]_vars => IdsHeld'
  BY IdsKept
<1> QED BY <1>2, <1>3, InitIds, TypeCorrect, PTL DEF Spec, TrimCaps
-----------------------------------------------------------------------------
(* Adds that take turns.  What an adder found when it looked its server up *)
(* or counted its region stays true until it inserts, because every other  *)
(* add under way is of another server, or of another region.               *)

LEMMA TurnsTypes == TurnsSpec => [](TypeOK /\ IdsHeld)
<1>1. TurnsInit => TypeOK /\ IdsHeld
  BY InitType, InitIds DEF TurnsInit
<1>2. TypeOK /\ IdsHeld /\ [TurnsNext]_turnVars => TypeOK' /\ IdsHeld'
  BY TypeKept, IdsKept DEF TurnsNext, turnVars
<1> QED BY <1>1, <1>2, PTL DEF TurnsSpec

LEMMA OneActs ==
  ASSUME TypeOK, [Next]_vars, NEW a \in Adders
  PROVE  adder'[a] = adder[a] \/ adder'[a].pc = "idle" \/ Add(a)
<1>0. adder = [b \in Adders |-> adder[b]]
  BY DEF TypeOK, AdderOK
<1>1. ASSUME NEW b \in Adders, Add(b), b # a PROVE adder'[a] = adder[a]
  BY <1>0, <1>1 DEF Add, AddVet, AddLook, AddCount, AddRank, AddWrite, WriteFrame, AddFail,
                    EndCall, Advance
<1>2. ASSUME Crawl PROVE adder'[a] = adder[a] \/ adder'[a].pc = "idle"
  BY <1>2 DEF Crawl, CrawlStart, CrawlDrained, CrawlCleanup, CrawlEnforce, CrawlAbort, NoCall
<1>3. ASSUME NEW c \in Rechecks, Recheck(c) PROVE adder'[a] = adder[a]
  BY <1>3, RecheckType
<1>4. ASSUME NEW c \in Stabs, Stability(c) PROVE adder'[a] = adder[a]
  BY <1>4, StabilityType
<1>5. ASSUME Desk PROVE adder'[a] = adder[a]
  BY <1>5, DeskType
<1> QED BY <1>1, <1>2, <1>3, <1>4, <1>5 DEF Next, vars

\* What an add that goes on does: the table stays, the key and the region too.
LEMMA GoesOn ==
  ASSUME TypeOK, NEW a \in Adders, Add(a), adder'[a].pc \notin {"idle", "vetted"}
  PROVE  /\ AddLook(a) \/ AddCount(a) \/ AddRank(a)
         /\ subs' = subs
         /\ adder'[a].key = adder[a].key /\ adder'[a].region = adder[a].region
<1>0. /\ adder = [b \in Adders |-> adder[b]]
      /\ adder[a] \in [pc: {"idle", "vetted", "new", "full", "write"}, key: Keys,
                        region: Regions, speed: Speeds \ {0}, worst: Nat]
  BY DEF TypeOK, AdderOK
<1>1. ~EndCall(a)
  BY <1>0 DEF EndCall, NoCall
<1>2. \A k \in Keys, r \in Regions, s \in Speeds \ {0} : ~AddVet(a, k, r, s)
  BY <1>0 DEF AddVet
<1>3. AddLook(a) \/ AddCount(a) \/ AddRank(a)
  BY <1>1, <1>2 DEF Add, AddWrite, WriteFrame, AddFail
<1>4. subs' = subs
  BY <1>3 DEF AddLook, AddCount, AddRank, Lost
<1>5. \E pc, w : Advance(a, pc, w)
  BY <1>1, <1>3 DEF AddLook, AddCount, AddRank
<1>6. adder'[a].key = adder[a].key /\ adder'[a].region = adder[a].region
  BY <1>0, <1>5 DEF Advance
<1> QED BY <1>3, <1>4, <1>6

\* A row that was not there is the row of an add, which ends with it.
LEMMA NewRows ==
  ASSUME TypeOK, IdsHeld, [Next]_vars, NEW i \in DOMAIN subs', i \notin DOMAIN subs
  PROVE  /\ i = lastId + 1
         /\ \E b \in Adders : /\ adder[b].pc = "write" /\ adder'[b].pc = "idle"
                             /\ InsertStep(b)
                             /\ subs'[i].key = adder[b].key
                             /\ subs'[i].region = adder[b].region
<1>1. lastId \in Nat /\ adder = [b \in Adders |-> adder[b]]
  BY DEF TypeOK, TableOK, AdderOK
<1>2. i = lastId + 1 /\ lastId' = lastId + 1
  BY KeysStable
<1>3. PICK b \in Adders : AddWrite(b)
  BY <1>1, <1>2, AddStepsId
<1>4. subs' # subs
  OBVIOUS
<1>5. InsertStep(b)
  BY <1>3, <1>4 DEF AddWrite, InsertStep, Lost
<1>6. subs'[i] = NewRow(adder[b].key, adder[b].region, adder[b].speed)
  BY <1>2, <1>5, InsertTable
<1>7. adder[b].pc = "write" /\ adder'[b].pc = "idle"
  BY <1>1, <1>3 DEF AddWrite, WriteFrame, EndCall, NoCall
<1> QED BY <1>2, <1>5, <1>6, <1>7 DEF NewRow

LookedUp ==
  \A a \in Adders : adder[a].pc \in {"new", "full", "write"} =>
    \A i \in DOMAIN subs : ~LikeServer(adder[a].key, subs[i].key)

LEMMA LookedUpKept ==
  ASSUME TypeOK, IdsHeld, LookedUp, ~Rivals, [Next]_vars
  PROVE  LookedUp'
<1> SUFFICES ASSUME NEW a \in Adders, adder'[a].pc \in {"new", "full", "write"},
                    NEW i \in DOMAIN subs'
             PROVE  ~LikeServer(adder'[a].key, subs'[i].key)
  BY DEF LookedUp
<1>1. CASE adder'[a] = adder[a]
  <2>1. CASE i \in DOMAIN subs
    <3>1. subs'[i].key = subs[i].key
      BY <2>1, KeysStable DEF IdsHeld, TypeOK, TableOK
    <3> QED BY <1>1, <2>1, <3>1 DEF LookedUp
  <2>2. CASE i \notin DOMAIN subs
    <3>1. PICK b \in Adders : /\ adder[b].pc = "write" /\ adder'[b].pc = "idle"
                             /\ subs'[i].key = adder[b].key
      BY <2>2, NewRows
    <3>2. a # b /\ a \in UnderWay /\ b \in UnderWay
      BY <1>1, <3>1 DEF UnderWay
    <3> QED BY <1>1, <3>1, <3>2 DEF Rivals
  <2> QED BY <2>1, <2>2
<1>2. CASE Add(a)
  <2>1. /\ AddLook(a) \/ AddCount(a) \/ AddRank(a)
        /\ subs' = subs /\ adder'[a].key = adder[a].key
    BY <1>2, GoesOn
  <2>2. CASE AddLook(a)
    <3>1. ~EndCall(a)
      BY DEF EndCall, NoCall, TypeOK, AdderOK
    <3>2. ~\E l \in KeysOf(subs) : LikeServer(adder[a].key, l)
      BY <2>2, <3>1 DEF AddLook
    <3> QED BY <2>1, <3>2 DEF KeysOf
  <2>3. CASE AddCount(a) \/ AddRank(a)
    <3>1. adder[a].pc \in {"new", "full"}
      BY <2>3 DEF AddCount, AddRank
    <3> QED BY <2>1, <3>1 DEF LookedUp
  <2> QED BY <2>1, <2>2, <2>3
<1> QED BY <1>1, <1>2, OneActs

LEMMA ServerUniqueKept ==
  ASSUME TypeOK, IdsHeld, ServerUnique, LookedUp, [Next]_vars
  PROVE  ServerUnique'
<1> SUFFICES ASSUME NEW i \in DOMAIN subs', NEW j \in DOMAIN subs', i < j
             PROVE  ~LikeServer(subs'[j].key, subs'[i].key)
  BY DEF ServerUnique
<1>0. lastId \in Nat /\ \A n \in DOMAIN subs : n \in Nat /\ n <= lastId
  BY DEF TypeOK, TableOK, IsTable, Ids, IdsHeld
<1>1. \A n \in DOMAIN subs' : n \in DOMAIN subs => subs'[n].key = subs[n].key
  BY <1>0, KeysStable
<1>2. i \in DOMAIN subs
  <2> SUFFICES ASSUME i \notin DOMAIN subs PROVE FALSE
    OBVIOUS
  <2>1. i = lastId + 1
    BY NewRows
  <2>2. j \in DOMAIN subs \/ j = lastId + 1
    BY NewRows
  <2> QED BY <1>0, <2>1, <2>2
<1>3. CASE j \in DOMAIN subs
  BY <1>1, <1>2, <1>3 DEF ServerUnique
<1>4. CASE j \notin DOMAIN subs
  <2>1. PICK b \in Adders : adder[b].pc = "write" /\ subs'[j].key = adder[b].key
    BY <1>4, NewRows
  <2> QED BY <1>1, <1>2, <2>1 DEF LookedUp
<1> QED BY <1>3, <1>4

ServerInv == ~rivals => ServerUnique /\ LookedUp /\ ~Rivals

LEMMA ServerInvInit == TurnsInit => ServerInv
BY DEF TurnsInit, Init, NoCall, ServerInv, LookedUp, Rivals, UnderWay

LEMMA ServerInvKept ==
  ASSUME TypeOK, IdsHeld, ServerInv, [TurnsNext]_turnVars
  PROVE  ServerInv'
<1>1. CASE TurnsNext
  <2>1. rivals' = (rivals \/ Rivals') /\ [Next]_vars
    BY <1>1 DEF TurnsNext, Remember
  <2> SUFFICES ASSUME ~rivals' PROVE ServerUnique' /\ LookedUp' /\ ~Rivals'
    BY DEF ServerInv
  <2>2. ServerUnique /\ LookedUp /\ ~Rivals /\ ~Rivals'
    BY <2>1 DEF ServerInv
  <2> QED BY <2>1, <2>2, ServerUniqueKept, LookedUpKept
<1>2. CASE UNCHANGED turnVars
  BY <1>2 DEF turnVars, vars, ServerInv, ServerUnique, LookedUp, Rivals, UnderWay
<1> QED BY <1>1, <1>2

\* The LIKE look-up, made in a statement long before the commit of the insert,
\* keeps its word against everything but an add of the same server that
\* overlaps it.
THEOREM TurnsKeepServers == TurnsSpec => []ServerOnce
<1>1. ServerInv => ServerOnce
  BY DEF ServerInv, ServerOnce
<1>2. TypeOK /\ IdsHeld /\ ServerInv /\ [TurnsNext]_turnVars => ServerInv'
  BY ServerInvKept
<1> QED BY <1>1, <1>2, ServerInvInit, TurnsTypes, PTL DEF TurnsSpec
\* An add about to write has found a place: the region was short of its cap,
\* or the row to replace was one of it.  If that row goes away meanwhile, it
\* leaves its place behind.
Room ==
  \A a \in Adders : adder[a].pc = "write" /\ adder[a].region \notin Unknown =>
    \/ Cardinality(InRegion(subs, adder[a].region)) < MaxPerRegion
    \/ adder[a].worst \in InRegion(subs, adder[a].region)

\* An add that is about to insert into r.
Entering(b, r) == /\ adder[b].pc = "write" /\ adder'[b].pc = "idle"
                  /\ adder[b].region = r
                  /\ InsertStep(b)

\* A region grows only by an add into it.
LEMMA RegionGrows ==
  ASSUME TypeOK, IdsHeld, [Next]_vars, ~Moved, NEW r,
         \A b \in Adders : ~Entering(b, r)
  PROVE  InRegion(subs', r) \subseteq InRegion(subs, r)
<1> SUFFICES ASSUME NEW i \in DOMAIN subs', subs'[i].region = r
             PROVE  i \in InRegion(subs, r)
  BY DEF InRegion
<1>1. i \in DOMAIN subs
  BY NewRows DEF Entering
<1> QED BY <1>1 DEF Moved, InRegion

LEMMA RegionEntered ==
  ASSUME TypeOK, IdsHeld, [Next]_vars, NEW b \in Adders, NEW r, Entering(b, r)
  PROVE  /\ InRegion(subs', r) = (InRegion(subs, r) \ {adder[b].worst}) \cup {lastId + 1}
         /\ lastId + 1 \notin InRegion(subs, r)
         /\ \A q : q # r => InRegion(subs', q) \subseteq InRegion(subs, q)
<1> DEFINE id == lastId + 1
<1>1. DOMAIN Kept(b) = DOMAIN subs \ {adder[b].worst}
  BY DEF Kept, Without, Restrict
<1>2. lastId \in Nat /\ \A i \in DOMAIN subs : i \in Nat /\ i <= lastId
  BY DEF TypeOK, TableOK, IsTable, Ids, IdsHeld
<1>3. id \notin DOMAIN subs
  BY <1>2
<1>4. /\ DOMAIN subs' = DOMAIN Kept(b) \cup {id}
      /\ subs'[id] = NewRow(adder[b].key, adder[b].region, adder[b].speed)
      /\ \A i \in DOMAIN Kept(b) : i # id => subs'[i] = subs[i]
  BY InsertTable DEF Entering
<1>5. subs'[id].region = r
  BY <1>4 DEF NewRow, Entering
<1> HIDE DEF id
<1>6. \A i \in DOMAIN subs \ {adder[b].worst} : i \in DOMAIN subs' /\ subs'[i] = subs[i]
  BY <1>1, <1>3, <1>4
<1> QED BY <1>1, <1>3, <1>4, <1>5, <1>6 DEF InRegion, id

LEMMA RoomKept ==
  ASSUME TypeOK, IdsHeld, RegionCap, Room, ~Packed, ~Moved, [Next]_vars
  PROVE  Room'
<1> SUFFICES ASSUME NEW a \in Adders, adder'[a].pc = "write",
                    adder'[a].region \notin Unknown
             PROVE  \/ Cardinality(InRegion(subs', adder'[a].region)) < MaxPerRegion
                    \/ adder'[a].worst \in InRegion(subs', adder'[a].region)
  BY DEF Room
<1>0. /\ adder = [b \in Adders |-> adder[b]]
      /\ adder[a] \in [pc: {"idle", "vetted", "new", "full", "write"}, key: Keys,
                        region: Regions, speed: Speeds \ {0}, worst: Nat]
      /\ MaxPerRegion \in Nat
  BY SubTableAssumption DEF TypeOK, AdderOK
<1> DEFINE r == adder[a].region
<1>1. CASE adder'[a] = adder[a]
  <2>1. \A b \in Adders : ~Entering(b, r)
    BY <1>1 DEF Entering, Packed, UnderWay
  <2>2. InRegion(subs', r) \subseteq InRegion(subs, r)
    BY <2>1, RegionGrows
  <2>3. CASE Cardinality(InRegion(subs, r)) < MaxPerRegion
    <3>1. /\ Cardinality(InRegion(subs', r)) \in Nat
          /\ Cardinality(InRegion(subs', r)) <= Cardinality(InRegion(subs, r))
      BY <2>2, Fewer
    <3>2. Cardinality(InRegion(subs, r)) \in Nat
      BY RegionFinite
    <3> QED BY <1>0, <1>1, <2>3, <3>1, <3>2
  <2>4. CASE adder[a].worst \in InRegion(subs, r) /\ adder[a].worst \notin InRegion(subs', r)
    <3>1. /\ Cardinality(InRegion(subs', r)) \in Nat
          /\ Cardinality(InRegion(subs', r)) + 1 <= Cardinality(InRegion(subs, r))
      BY <2>2, <2>4, OneFewer
    <3>2. Cardinality(InRegion(subs, r)) \in Nat
      BY RegionFinite
    <3>3. Cardinality(InRegion(subs, r)) <= MaxPerRegion
      BY <1>0, <1>1 DEF RegionCap
    <3> QED BY <1>0, <1>1, <3>1, <3>2, <3>3
  <2> QED BY <1>1, <2>3, <2>4 DEF Room
<1>2. CASE Add(a)
  <2>1. /\ AddLook(a) \/ AddCount(a) \/ AddRank(a)
        /\ subs' = subs /\ adder'[a].region = r
    BY <1>2, GoesOn
  <2>2. ~EndCall(a)
    BY <1>0 DEF EndCall, NoCall
  <2>3. CASE AddLook(a)
    BY <1>0, <2>2, <2>3 DEF AddLook, Advance
  <2>4. CASE AddCount(a)
    <3>1. ~Advance(a, "full", 0)
      BY <1>0 DEF Advance
    <3>2. ~(Cardinality(InRegion(subs, r)) >= MaxPerRegion)
      BY <2>1, <2>4, <3>1 DEF AddCount
    <3>3. Cardinality(InRegion(subs, r)) \in Nat
      BY RegionFinite
    <3>4. Cardinality(InRegion(subs, r)) < MaxPerRegion
      BY <1>0, <3>2, <3>3
    <3> QED BY <2>1, <3>4
  <2>5. CASE AddRank(a)
    <3>1. PICK w \in WorstIn(subs, r) : Advance(a, "write", w)
      BY <2>2, <2>5 DEF AddRank
    <3>2. adder'[a].worst = w
      BY <1>0, <3>1 DEF Advance
    <3> QED BY <2>1, <3>2 DEF WorstIn
  <2> QED BY <2>1, <2>3, <2>4, <2>5
<1> QED BY <1>1, <1>2, OneActs

LEMMA RegionCapKept ==
  ASSUME TypeOK, IdsHeld, RegionCap, Room, ~Moved, [Next]_vars
  PROVE  RegionCap'
<1> SUFFICES ASSUME NEW r \in Regions \ Unknown
             PROVE  Cardinality(InRegion(subs', r)) <= MaxPerRegion
  BY DEF RegionCap
<1> DEFINE all == InRegion(subs, r)
<1>0. /\ IsFiniteSet(all) /\ Cardinality(all) \in Nat /\ MaxPerRegion \in Nat
      /\ Cardinality(all) <= MaxPerRegion
  BY RegionFinite, SubTableAssumption DEF RegionCap
<1>1. CASE \A b \in Adders : ~Entering(b, r)
  <2>1. InRegion(subs', r) \subseteq all
    BY <1>1, RegionGrows
  <2>2. /\ Cardinality(InRegion(subs', r)) \in Nat
        /\ Cardinality(InRegion(subs', r)) <= Cardinality(all)
    BY <2>1, Fewer
  <2> QED BY <1>0, <2>2
<1>2. ASSUME NEW b \in Adders, Entering(b, r)
      PROVE  Cardinality(InRegion(subs', r)) <= MaxPerRegion
  <2> DEFINE w == adder[b].worst
             rest == all \ {w}
  <2>1. InRegion(subs', r) = rest \cup {lastId + 1} /\ lastId + 1 \notin rest
    BY <1>2, RegionEntered
  <2>2. IsFiniteSet(rest) /\ Cardinality(rest) \in Nat
    BY <1>0, FS_Subset, FS_CardinalityType
  <2>3. Cardinality(rest) + 1 <= MaxPerRegion
    <3>1. CASE w \in all
      <4>1. Cardinality(rest) + 1 <= Cardinality(all)
        BY <3>1, OneFewer
      <4> QED BY <1>0, <2>2, <4>1
    <3>2. CASE w \notin all
      <4>1. Cardinality(all) < MaxPerRegion
        BY <1>2, <3>2 DEF Room, Entering
      <4>2. rest = all
        BY <3>2
      <4> QED BY <1>0, <4>1, <4>2
    <3> QED BY <3>1, <3>2
  <2> HIDE DEF rest
  <2>4. Cardinality(rest \cup {lastId + 1}) = Cardinality(rest) + 1
    BY <2>1, <2>2, FS_AddElement
  <2> QED BY <2>1, <2>3, <2>4
<1> QED BY <1>1, <1>2

CapInv == ~packed => RegionCap /\ Room /\ ~Packed

LEMMA CapInvInit == TurnsInit => CapInv
BY DEF TurnsInit, Init, NoCall, CapInv, Room, Packed, UnderWay

LEMMA CapInvKept ==
  ASSUME TypeOK, IdsHeld, CapInv, [TurnsNext]_turnVars
  PROVE  CapInv'
<1>1. CASE TurnsNext
  <2>1. packed' = (packed \/ Packed' \/ Moved) /\ [Next]_vars
    BY <1>1 DEF TurnsNext, Remember
  <2> SUFFICES ASSUME ~packed' PROVE RegionCap' /\ Room' /\ ~Packed'
    BY DEF CapInv
  <2>2. RegionCap /\ Room /\ ~Packed /\ ~Packed' /\ ~Moved
    BY <2>1 DEF CapInv
  <2> QED BY <2>1, <2>2, RegionCapKept, RoomKept
<1>2. CASE UNCHANGED turnVars
  BY <1>2 DEF turnVars, vars, CapInv, RegionCap, Room, Packed, UnderWay
<1> QED BY <1>1, <1>2

\* The region is counted, and the row to replace chosen, in statements before
\* the insert; whatever is deleted or trimmed between, the cap holds unless
\* two adds into the region overlap or rows are moved into it.
THEOREM TurnsKeepCap == TurnsSpec => []CapKept
<1>1. CapInv => CapKept
  BY DEF CapInv, CapKept
<1>2. TypeOK /\ IdsHeld /\ CapInv /\ [TurnsNext]_turnVars => CapInv'
  BY CapInvKept
<1> QED BY <1>1, <1>2, CapInvInit, TurnsTypes, PTL DEF TurnsSpec
-----------------------------------------------------------------------------
(* A collector run has many coroutines and no lock between them.  It drops  *)
(* the links whose server it has met before it hands them out, and so its   *)
(* adds take turns by themselves.                                           *)

Apart(k, l) == ~SameServer(k, l)

Turns ==
  /\ crawl.pc # "adding" => UnderWay = {}
  /\ \A k, l \in crawl.links : k = l \/ Apart(k, l)
  /\ \A a \in UnderWay, k \in crawl.links : Apart(adder[a].key, k)
  /\ \A a, b \in UnderWay : a = b \/ Apart(adder[a].key, adder[b].key)

LEMMA LikeIsSame ==
  ASSUME NEW k \in Keys, NEW l \in Keys, LikeServer(k, l)
  PROVE  SameServer(k, l)
BY SubTableAssumption DEF LikeServer, SameServer

LEMMA SameTurns == \A k, l : SameServer(k, l) => SameServer(l, k)
BY DEF SameServer

LEMMA AddTurnsKept ==
  ASSUME ImportAdders = {}, TypeOK, Turns, NEW a \in Adders, Add(a)
  PROVE  Turns'
<1>0. /\ adder = [b \in Adders |-> adder[b]]
      /\ adder[a] \in [pc: {"idle", "vetted", "new", "full", "write"}, key: Keys,
                        region: Regions, speed: Speeds \ {0}, worst: Nat]
      /\ a \in CrawlAdders
  BY DEF TypeOK, AdderOK, Adders
<1>1. ASSUME NEW k \in Keys, NEW r \in Regions, NEW s \in Speeds \ {0}, AddVet(a, k, r, s)
      PROVE  Turns'
  <2>1. /\ crawl.pc = "adding" /\ k \in crawl.links
        /\ crawl' = Crawling("adding", crawl.links \ {k})
    BY <1>0, <1>1 DEF AddVet, TakeLink
  <2>2. /\ a \notin UnderWay
        /\ adder'[a].key = k
        /\ \A b \in Adders : b # a => adder'[b] = adder[b]
    BY <1>0, <1>1 DEF AddVet, UnderWay
  <2>3. crawl'.pc = "adding" /\ crawl'.links = crawl.links \ {k}
    BY <2>1 DEF Crawling
  <2>4. UnderWay' \subseteq UnderWay \cup {a} /\ UnderWay \subseteq Adders
    BY <2>2 DEF UnderWay
  <2>5. \A l \in crawl.links \ {k} : Apart(k, l)
    BY <2>1 DEF Turns
  <2>6. \A b \in UnderWay : Apart(adder[b].key, k) /\ Apart(k, adder[b].key)
    BY <2>1, SameTurns DEF Turns, Apart
  <2>7. \A b \in UnderWay' : b = a \/ (b \in UnderWay /\ adder'[b].key = adder[b].key)
    BY <2>2, <2>4
  <2>8. \A b \in UnderWay', l \in crawl'.links : Apart(adder'[b].key, l)
    BY <2>2, <2>3, <2>5, <2>7 DEF Turns
  <2>9. \A b, c \in UnderWay' : b = c \/ Apart(adder'[b].key, adder'[c].key)
    BY <2>2, <2>6, <2>7 DEF Turns
  <2> QED BY <2>3, <2>8, <2>9 DEF Turns
<1>2. ASSUME UNCHANGED crawl, adder[a].pc # "idle",
             EndCall(a) \/ \E pc, w : Advance(a, pc, w)
      PROVE  Turns'
  <2>1. \A b \in UnderWay' : b \in UnderWay /\ adder'[b].key = adder[b].key
    <3>1. CASE EndCall(a)
      BY <1>0, <3>1 DEF UnderWay, EndCall, NoCall
    <3>2. ASSUME NEW pc, NEW w, Advance(a, pc, w)
          PROVE  \A b \in UnderWay' : b \in UnderWay /\ adder'[b].key = adder[b].key
      <4>1. \A b \in Adders : adder'[b].key = adder[b].key /\ (b # a => adder'[b] = adder[b])
        BY <1>0, <3>2 DEF Advance
      <4> QED BY <1>2, <4>1 DEF UnderWay
    <3> QED BY <1>2, <3>1, <3>2
  <2> QED BY <1>2, <2>1 DEF Turns
<1>3. ASSUME AddLook(a) \/ AddCount(a) \/ AddRank(a) \/ AddWrite(a) \/ AddFail(a)
      PROVE  Turns'
  BY <1>2, <1>3 DEF AddLook, AddCount, AddRank, AddWrite, WriteFrame, AddFail, AddFrame
<1> QED BY <1>1, <1>3 DEF Add

LEMMA CrawlTurnsStep ==
  ASSUME ImportAdders = {}, TypeOK, Turns, Crawl
  PROVE  Turns'
<1>1. CASE CrawlStart
  <2>1. UnderWay = {} /\ UnderWay' = {}
    BY <1>1 DEF CrawlStart, NoCrawl, Crawling, Turns, UnderWay
  <2>2. \A k, l \in crawl'.links : k = l \/ Apart(k, l)
    BY <1>1 DEF CrawlStart, Crawling, Apart
  <2> QED BY <2>1, <2>2 DEF Turns
<1>2. CASE CrawlDrained
  <2>1. UnderWay' = {} /\ crawl'.links = {}
    BY <1>2 DEF CrawlDrained, Crawling, UnderWay, Adders
  <2> QED BY <2>1 DEF Turns
<1>3. CASE CrawlCleanup \/ CrawlEnforce
  <2>1. UnderWay' = {} /\ crawl'.links = {}
    BY <1>3 DEF CrawlCleanup, CrawlEnforce, NoCrawl, Crawling, Turns, UnderWay
  <2> QED BY <2>1 DEF Turns
<1>4. CASE CrawlAbort
  <2>1. UnderWay' = {} /\ crawl'.links = {}
    BY <1>4 DEF CrawlAbort, NoCrawl, Crawling, NoCall, UnderWay, Adders
  <2> QED BY <2>1 DEF Turns
<1> QED BY <1>1, <1>2, <1>3, <1>4 DEF Crawl

LEMMA TurnsKept ==
  ASSUME ImportAdders = {}, TypeOK, Turns, [Next]_vars
  PROVE  Turns'
<1>1. ASSUME UNCHANGED <<adder, crawl>> PROVE Turns'
  BY <1>1 DEF Turns, UnderWay
<1>2. ASSUME NEW a \in Adders, Add(a) PROVE Turns'
  BY <1>2, AddTurnsKept
<1>3. ASSUME Crawl PROVE Turns'
  BY <1>3, CrawlTurnsStep
<1>4. ASSUME NEW c \in Rechecks, Recheck(c) PROVE Turns'
  BY <1>1, <1>4, RecheckType
<1>5. ASSUME NEW c \in Stabs, Stability(c) PROVE Turns'
  BY <1>1, <1>5, StabilityType
<1>6. ASSUME Desk PROVE Turns'
  BY <1>1, <1>6, DeskType
<1> QED BY <1>1, <1>2, <1>3, <1>4, <1>5, <1>6 DEF Next, vars

LEMMA TurnsApart ==
  ASSUME TypeOK, Turns
  PROVE  ~Rivals
<1> SUFFICES ASSUME NEW a \in UnderWay, NEW b \in UnderWay, a # b,
                    LikeServer(adder[a].key, adder[b].key)
             PROVE  FALSE
  BY DEF Rivals
<1>1. adder[a].key \in Keys /\ adder[b].key \in Keys
  BY DEF TypeOK, AdderOK, UnderWay
<1> QED BY <1>1, LikeIsSame DEF Turns, Apart

\* However many coroutines a collector run has, and whatever rechecks,
\* stability runs and buttons do beside it: while no import is under way, the
\* pool keeps one row for a server.
THEOREM CrawlKeepsServers ==
  ASSUME ImportAdders = {}
  PROVE  TurnsSpec => []ServerUnique
<1>1. TurnsInit => Turns /\ ~rivals
  BY DEF TurnsInit, Init, NoCall, NoCrawl, Crawling, Turns, UnderWay
<1>2. TypeOK /\ Turns /\ [TurnsNext]_turnVars => Turns'
  BY TurnsKept DEF TurnsNext, turnVars
<1>3. TypeOK /\ Turns => ~Rivals
  BY TurnsApart
<1>4. ~rivals /\ ~Rivals' /\ [TurnsNext]_turnVars => ~rivals'
  BY DEF TurnsNext, Remember, turnVars
<1>5. ServerOnce /\ ~rivals => ServerUnique
  BY DEF ServerOnce
<1> QED BY <1>1, <1>2, <1>3, <1>4, <1>5, TurnsTypes, TurnsKeepServers, PTL DEF TurnsSpec
=============================================================================
