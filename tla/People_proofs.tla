---------------------------- MODULE People_proofs ----------------------------
(***************************************************************************)
(* Proofs about users, groups and filters, for any users, countries, tags  *)
(* and handlers: a filter is what the presses have made of it, and the     *)
(* probe removes nobody who has not blocked the bot.  And about what is    *)
(* sent to them: a broadcast comes to a user once at most.                 *)
(***************************************************************************)
EXTENDS People, Broadcast, FiniteSetTheorems, TLAPS

Marks == [Regions -> {"free", "on", "off"}]

LEMMA FilterFacts ==
  /\ All \notin SUBSET (Regions \cup {Nothing}) /\ Nothing \notin Regions
  /\ All \in Filter /\ {Nothing} \in Filter /\ {Nothing} # All
BY PeopleAssumption DEF Filter

LEMMA ToggledMember == \A S, x, y : y \in Toggled(S, x) <=> (y \in S) # (y = x)
BY DEF Toggled

\* What a press selects: it flips its country and leaves the others.
LEMMA SelectedMember ==
  ASSUME NEW t, NEW f \in Filter, NEW r \in Regions, NEW list \in SUBSET Regions
  PROVE  /\ Selected(t, f, r, list) \in SUBSET (Regions \cup {Nothing})
         /\ f = All => \A x \in Regions : x \in Selected(t, f, r, list) <=> x \in list /\ x # r
         /\ f # All => \A x \in Regions : x \in Selected(t, f, r, list) <=> (x \in f) # (x = r)
<1>1. CASE f = All BY <1>1 DEF Selected
<1>2. CASE f # All /\ t \in Groups /\ f = {Nothing} BY <1>2, FilterFacts DEF Selected
<1>3. CASE f # All /\ ~(t \in Groups /\ f = {Nothing})
  <2>1. Selected(t, f, r, list) = Toggled(f, r) BY <1>3 DEF Selected
  <2>2. f \in SUBSET (Regions \cup {Nothing}) BY <1>3 DEF Filter
  <2> QED BY <1>3, <2>1, <2>2 DEF Toggled
<1> QED BY <1>1, <1>2, <1>3

\* What a filter shows after it.
LEMMA FlippedShows ==
  ASSUME NEW t, NEW f \in Filter, NEW r \in Regions, NEW list \in SUBSET Regions
  PROVE  LET new == Flipped(t, f, r, list)
             chosen == Selected(t, f, r, list)
         IN  /\ new \in Filter
             /\ new = All => chosen = list
             /\ new # All => \A x \in Regions : x \in Shown(new) <=> x \in chosen
<1> DEFINE new == Flipped(t, f, r, list)
           chosen == Selected(t, f, r, list)
           Goal == /\ new \in Filter
                   /\ new = All => chosen = list
                   /\ new # All => \A x \in Regions : x \in Shown(new) <=> x \in chosen
<1>0. chosen \in SUBSET (Regions \cup {Nothing}) BY SelectedMember
<1>1. new = IF chosen = {} THEN {Nothing} ELSE IF chosen = list THEN All ELSE chosen
  BY DEF Flipped
<1> SUFFICES Goal OBVIOUS
<1> HIDE DEF chosen, new
<1>2. CASE chosen = {}
  <2>1. new = {Nothing} /\ new # All /\ new \in Filter BY <1>1, <1>2, FilterFacts
  <2>2. \A x \in Regions : x \notin Shown(new) BY <2>1 DEF Shown
  <2> QED BY <1>2, <2>1, <2>2
<1>3. CASE chosen # {} /\ chosen = list BY <1>1, <1>3, FilterFacts
<1>4. CASE chosen # {} /\ chosen # list
  <2>1. new = chosen /\ new # All BY <1>0, <1>1, <1>4, FilterFacts
  <2>2. new \in Filter BY <1>0, <2>1 DEF Filter
  <2>3. \A x \in Regions : x \in Shown(new) <=> x \in chosen BY <2>1, FilterFacts DEF Shown
  <2> QED BY <2>1, <2>2, <2>3
<1> QED BY <1>2, <1>3, <1>4

\* A filter agrees with marks.
Agrees(m, f) ==
  \A x \in Regions : /\ m[x] = "off" => x \notin Shown(f)
                     /\ m[x] = "on" => x \in Shown(f)

\* The heart of ShownAsPressed: a press keeps the agreement.
LEMMA PressAgrees ==
  ASSUME NEW t \in Owners, mark[t] \in Marks, NEW f \in Filter, Agrees(mark[t], f),
         NEW r \in Regions, NEW list \in SUBSET Regions
  PROVE  LET new == Flipped(t, f, r, list)
         IN  /\ Marked(t, f, r, list, new) \in Marks
             /\ Agrees(Marked(t, f, r, list, new), new)
<1> DEFINE new == Flipped(t, f, r, list)
           chosen == Selected(t, f, r, list)
           m == Marked(t, f, r, list, new)
<1>0. /\ new = All => chosen = list
      /\ new # All => \A x \in Regions : x \in Shown(new) <=> x \in chosen
  BY FlippedShows
<1>1. /\ f = All => \A x \in Regions : x \in chosen <=> x \in list /\ x # r
      /\ f # All => \A x \in Regions : x \in chosen <=> (x \in f) # (x = r)
  BY SelectedMember
<1>2. /\ f = All => Shown(f) = Regions
      /\ f # All => \A x \in Regions : x \in Shown(f) <=> x \in f
      /\ new = All => Shown(new) = Regions
  BY FilterFacts DEF Shown
<1>3. \A x \in Regions :
        m[x] = IF x \in list \/ (f # All /\ new # All)
               THEN IF x # r THEN mark[t][x] ELSE IF r \in Shown(f) THEN "off" ELSE "on"
               ELSE "free"
  BY DEF Marked
<1>4. m \in Marks BY DEF Marked, Marks
<1> HIDE DEF new, chosen, m
<1>5. ASSUME NEW x \in Regions, x \in list \/ (f # All /\ new # All)
      PROVE  /\ x # r => (x \in Shown(new) <=> x \in Shown(f))
             /\ x = r => (x \in Shown(new) <=> x \notin Shown(f))
  <2>1. CASE f = All
    <3>1. x \in list /\ x \in Shown(f) BY <1>2, <1>5, <2>1
    <3>2. CASE new = All BY <1>0, <1>1, <1>2, <2>1, <3>1, <3>2
    <3>3. CASE new # All BY <1>0, <1>1, <2>1, <3>1, <3>3
    <3> QED BY <3>2, <3>3
  <2>2. CASE f # All
    <3>1. x \in chosen <=> (x \in Shown(f)) # (x = r) BY <1>1, <1>2, <2>2
    <3>2. CASE new = All
      <4>1. x \in chosen /\ x \in Shown(new) BY <1>0, <1>2, <1>5, <3>2
      <4> QED BY <3>1, <4>1
    <3>3. CASE new # All BY <1>0, <3>1, <3>3
    <3> QED BY <3>2, <3>3
  <2> QED BY <2>1, <2>2
<1>6. Agrees(m, new)
  <2> SUFFICES ASSUME NEW x \in Regions
               PROVE  /\ m[x] = "off" => x \notin Shown(new)
                      /\ m[x] = "on" => x \in Shown(new)
    BY DEF Agrees
  <2>1. CASE ~(x \in list \/ (f # All /\ new # All)) BY <1>3, <2>1
  <2>2. CASE (x \in list \/ (f # All /\ new # All)) /\ x # r
    BY <1>3, <1>5, <2>2 DEF Agrees
  <2>3. CASE (x \in list \/ (f # All /\ new # All)) /\ x = r
    BY <1>3, <1>5, <2>3
  <2> QED BY <2>1, <2>2, <2>3
<1> QED BY <1>4, <1>6 DEF m, new
-----------------------------------------------------------------------------
(* Types.                                                                    *)

LEMMA PeopleInitType == PeopleInit => PeopleTypeOK
BY PeopleAssumption
   DEF PeopleInit, PeopleTypeOK, Filter, Pending, Free, NoGroup, Asleep, Unmarked

LEMMA ClearedType ==
  ASSUME PeopleTypeOK, NEW T, Cleared(T)
  PROVE  /\ countries' \in [Owners -> Filter] /\ tags' \in [Owners -> SUBSET Tags]
         /\ wanted' \in [Owners -> SUBSET Tags] /\ mark' \in [Owners -> Marks]
<1>1. All \in Filter /\ Unmarked \in Marks BY DEF Filter, Marks, Unmarked
<1> QED BY <1>1 DEF PeopleTypeOK, Cleared, Marks

LEMMA DeleteUsersType ==
  ASSUME PeopleTypeOK, NEW S, DeleteUsers(S)
  PROVE  /\ users' \subseteq Users
         /\ group' \in [Groups -> [owner: Users \cup {NoUser},
                                   name: Names \cup {"none", "deleted"}]]
         /\ countries' \in [Owners -> Filter] /\ tags' \in [Owners -> SUBSET Tags]
         /\ wanted' \in [Owners -> SUBSET Tags] /\ mark' \in [Owners -> Marks]
<1> DEFINE gone == {g \in Groups : group[g].owner \in S}
<1>1. Cleared(S \cup gone) /\ users' = users \ S
      /\ group' = [g \in Groups |-> IF g \in gone THEN Deleted ELSE group[g]]
  BY DEF DeleteUsers
<1>2. Deleted \in [owner: Users \cup {NoUser}, name: Names \cup {"none", "deleted"}]
  BY DEF Deleted
<1> HIDE DEF gone
<1> QED BY <1>1, <1>2, ClearedType DEF PeopleTypeOK

LEMMA PeopleNextType == PeopleTypeOK /\ [PeopleNext]_peopleVars => PeopleTypeOK'
<1> SUFFICES ASSUME PeopleTypeOK, [PeopleNext]_peopleVars PROVE PeopleTypeOK'
  OBVIOUS
<1> USE DEF Filters, Table
<1>0. Users \subseteq Owners /\ Groups \subseteq Owners /\ Live \subseteq Owners
  BY DEF Owners, Live, PeopleTypeOK
<1>1. /\ All \in Filter /\ {Nothing} \in Filter
      /\ Free \in Pending
  BY DEF Filter, Free, Pending
<1>2. ASSUME NEW u \in Users, Start(u) PROVE PeopleTypeOK'
  BY <1>2, ClearedType DEF Start, PeopleTypeOK, Marks
<1>3. ASSUME NEW h \in Handlers, NEW u \in Users, NEW n \in Names, Create(h, u, n)
      PROVE  PeopleTypeOK'
  <2>1. [kind |-> "create", owner |-> u, name |-> n] \in Pending BY DEF Pending
  <2> QED BY <1>3, <2>1 DEF Create, PeopleTypeOK
<1>4. ASSUME NEW h \in Handlers, Insert(h) PROVE PeopleTypeOK'
  <2>1. handler[h].owner \in Users /\ handler[h].name \in Names
    BY <1>4 DEF Insert, PeopleTypeOK, Pending
  <2>2. handler' \in [Handlers -> Pending] BY <1>1, <1>4 DEF Insert, PeopleTypeOK
  <2>3. CASE UNCHANGED <<group, Filters>> BY <1>4, <2>2, <2>3 DEF Insert, PeopleTypeOK
  <2>4. CASE \E g \in Groups :
               /\ group' = [group EXCEPT ![g] = [owner |-> handler[h].owner,
                                                 name |-> handler[h].name]]
               /\ Cleared({g})
    <3>1. PICK g \in Groups :
            /\ group' = [group EXCEPT ![g] = [owner |-> handler[h].owner, name |-> handler[h].name]]
            /\ Cleared({g})
      BY <2>4
    <3>2. group' \in [Groups -> [owner: Users \cup {NoUser}, name: Names \cup {"none", "deleted"}]]
      BY <2>1, <3>1 DEF PeopleTypeOK
    <3> QED BY <1>4, <2>2, <3>1, <3>2, ClearedType DEF Insert, PeopleTypeOK, Marks
  <2> QED BY <1>4, <2>3, <2>4 DEF Insert
<1>5. ASSUME NEW g \in Groups, DeleteGroup(g) PROVE PeopleTypeOK'
  <2>1. Deleted \in [owner: Users \cup {NoUser}, name: Names \cup {"none", "deleted"}]
    BY DEF Deleted
  <2> QED BY <1>5, <2>1, ClearedType DEF DeleteGroup, PeopleTypeOK, Marks
<1>6. ASSUME NEW h \in Handlers, NEW t \in Owners, NEW r \in Regions, Read(h, t, r)
      PROVE  PeopleTypeOK'
  <2>1. ASSUME NEW f \in CountriesRead(t), NEW list \in {listed, {}}
        PROVE  [kind |-> "country", target |-> t, region |-> r, seen |-> f, list |-> list]
                 \in Pending
    <3>1. f \in Filter /\ list \in SUBSET Regions
      BY <1>1, <2>1 DEF CountriesRead, PeopleTypeOK
    <3> QED BY <3>1 DEF Pending
  <2>2. PICK f \in CountriesRead(t), list \in {listed, {}} :
          handler' = [handler EXCEPT ![h] = [kind |-> "country", target |-> t, region |-> r,
                                             seen |-> f, list |-> list]]
    BY <1>6 DEF Read
  <2>3. handler' \in [Handlers -> Pending] BY <2>1, <2>2 DEF PeopleTypeOK
  <2> QED BY <1>6, <2>3 DEF Read, PeopleTypeOK
<1>7. ASSUME NEW h \in Handlers, Write(h) PROVE PeopleTypeOK'
  <2> DEFINE p == handler[h]
             t == p.target
             new == Flipped(t, p.seen, p.region, p.list)
  <2>1. t \in Owners /\ p.seen \in Filter /\ p.region \in Regions /\ p.list \in SUBSET Regions
    BY <1>7 DEF Write, PeopleTypeOK, Pending
  <2>2. new \in Filter BY <2>1, FlippedShows
  <2>3. Unmarked \in Marks /\ Marked(t, p.seen, p.region, p.list, new) \in Marks
    BY <2>1 DEF Marked, Unmarked, Marks, PeopleTypeOK
  <2>4. handler' \in [Handlers -> Pending] BY <1>1, <1>7 DEF Write, PeopleTypeOK
  <2>5. countries' \in [Owners -> Filter] /\ mark' \in [Owners -> Marks]
    <3>1. CASE /\ countries' = [countries EXCEPT ![t] = new]
               /\ mark' = [mark EXCEPT ![t] = IF p.seen # countries[t] THEN Unmarked
                                              ELSE Marked(t, p.seen, p.region, p.list, new)]
      <4> HIDE DEF new, t, p
      <4> QED BY <2>1, <2>2, <2>3, <3>1 DEF PeopleTypeOK, Marks
    <3>2. CASE /\ UNCHANGED countries
               /\ mark' = IF t \in users THEN [mark EXCEPT ![t] = Unmarked] ELSE mark
      BY <2>1, <2>3, <3>2 DEF PeopleTypeOK, Marks
    <3> QED BY <1>7, <3>1, <3>2 DEF Write
  <2> QED BY <1>7, <2>4, <2>5 DEF Write, PeopleTypeOK, Marks
<1>8. ASSUME NEW t \in Owners, NEW f \in {All, {Nothing}}, SetAll(t, f) PROVE PeopleTypeOK'
  <2>1. [r \in Regions |-> IF f = All THEN "on" ELSE "off"] \in Marks BY DEF Marks
  <2> QED BY <1>1, <1>8, <2>1 DEF SetAll, PeopleTypeOK, Marks
<1>9. ASSUME NEW h \in Handlers, NEW t \in Owners, NEW x \in Tags, ReadTags(h, t, x)
      PROVE  PeopleTypeOK'
  <2>1. ASSUME NEW seen \in TagsRead(t)
        PROVE  [kind |-> "tag", target |-> t, tag |-> x, seen |-> seen] \in Pending
    <3>1. seen \in SUBSET Tags BY <2>1 DEF TagsRead, PeopleTypeOK
    <3> QED BY <3>1 DEF Pending
  <2> QED BY <1>9, <2>1 DEF ReadTags, PeopleTypeOK
<1>10. ASSUME NEW h \in Handlers, WriteTags(h) PROVE PeopleTypeOK'
  <2> DEFINE p == handler[h]
             t == p.target
  <2>1. t \in Owners /\ p.seen \in SUBSET Tags /\ p.tag \in Tags
    BY <1>10 DEF WriteTags, PeopleTypeOK, Pending
  <2>2. handler' \in [Handlers -> Pending] BY <1>1, <1>10 DEF WriteTags, PeopleTypeOK
  <2>3. tags' \in [Owners -> SUBSET Tags] /\ wanted' \in [Owners -> SUBSET Tags]
    <3>1. \A S \in SUBSET Tags : Toggled(S, p.tag) \in SUBSET Tags BY <2>1 DEF Toggled
    <3>2. tags \in [Owners -> SUBSET Tags] /\ wanted \in [Owners -> SUBSET Tags]
      BY DEF PeopleTypeOK
    <3>3. CASE /\ tags' = [tags EXCEPT ![t] = Toggled(p.seen, p.tag)]
               /\ wanted' = [wanted EXCEPT ![t] =
                               Toggled(IF p.seen = tags[t] THEN @ ELSE p.seen, p.tag)]
      <4>1. (IF p.seen = tags[t] THEN wanted[t] ELSE p.seen) \in SUBSET Tags
        BY <2>1, <3>2
      <4>2. Toggled(IF p.seen = tags[t] THEN wanted[t] ELSE p.seen, p.tag) \in SUBSET Tags
        BY <3>1, <4>1
      <4> QED BY <2>1, <3>1, <3>2, <3>3, <4>2
    <3>4. CASE /\ UNCHANGED tags
               /\ wanted' = IF t \in users THEN [wanted EXCEPT ![t] = tags[t]] ELSE wanted
      BY <2>1, <3>2, <3>4
    <3> QED BY <1>10, <3>3, <3>4 DEF WriteTags
  <2> QED BY <1>10, <2>2, <2>3 DEF WriteTags, PeopleTypeOK
<1>11. CASE ListChanges BY <1>11 DEF ListChanges, PeopleTypeOK
<1>12. ASSUME NEW u \in Users, Blocks(u) \/ Returns(u) PROVE PeopleTypeOK'
  BY <1>12 DEF Blocks, Returns, PeopleTypeOK
<1>13. CASE ProbeStart BY <1>13 DEF ProbeStart, PeopleTypeOK
<1>14. ASSUME NEW u \in Users, AskTelegram(u) PROVE PeopleTypeOK'
  BY <1>14 DEF AskTelegram, PeopleTypeOK
<1>15. CASE Flush
  <2>1. probe' \in [pc: {"idle", "asks", "flush"}, todo: SUBSET Users, buffer: SUBSET Users]
    BY <1>15 DEF Flush, AfterFlush, Asleep, PeopleTypeOK
  <2> QED BY <1>15, <2>1, DeleteUsersType DEF Flush, PeopleTypeOK, Marks
<1>16. CASE ProbeDies BY <1>16 DEF ProbeDies, Asleep, PeopleTypeOK
<1>17. CASE UNCHANGED peopleVars BY <1>17 DEF peopleVars, PeopleTypeOK
<1> QED BY <1>2, <1>3, <1>4, <1>5, <1>6, <1>7, <1>8, <1>9, <1>10, <1>11, <1>12, <1>13, <1>14,
           <1>15, <1>16, <1>17
        DEF PeopleNext, Buttons

\* Users, groups, filters, handlers and the probe keep their shape.
THEOREM TypeCorrect == PeopleSpec => []PeopleTypeOK
<1> QED BY PeopleInitType, PeopleNextType, PTL DEF PeopleSpec
-----------------------------------------------------------------------------
(* The probe: whom it will remove it has been told about in this run, and    *)
(* they are in the table.                                                    *)

ProbeInv ==
  /\ probe.buffer \subseteq condemned
  /\ probe.todo \cup probe.buffer \subseteq users
  /\ probe.todo \cap probe.buffer = {}

LEMMA ProbeInit == PeopleInit => ProbeInv
BY DEF PeopleInit, ProbeInv, Asleep

LEMMA ProbeNext ==
  PeopleTypeOK /\ ProbeInv /\ [PeopleNext]_peopleVars => ProbeInv' /\ users \ users' \subseteq condemned
<1> SUFFICES ASSUME PeopleTypeOK, ProbeInv, [PeopleNext]_peopleVars
             PROVE  ProbeInv' /\ users \ users' \subseteq condemned
  OBVIOUS
<1> USE DEF ProbeInv, Table
<1>1. ASSUME UNCHANGED <<users, probe, condemned>>
      PROVE  ProbeInv' /\ users \ users' \subseteq condemned
  BY <1>1
<1>2. ASSUME NEW u \in Users, Start(u) PROVE ProbeInv' /\ users \ users' \subseteq condemned
  BY <1>2 DEF Start
<1>3. CASE ProbeStart BY <1>3 DEF ProbeStart
<1>4. ASSUME NEW u \in Users, AskTelegram(u)
      PROVE  ProbeInv' /\ users \ users' \subseteq condemned
  <2>1. PICK told \in {{}, {u} \cap away} :
          LET buffer == probe.buffer \cup told
          IN  /\ probe' = [pc |-> IF Cardinality(buffer) >= BufferSize \/ probe.todo = {u}
                                  THEN "flush" ELSE "asks",
                           todo |-> probe.todo \ {u}, buffer |-> buffer]
              /\ condemned' = condemned \cup (told \cap users)
    BY <1>4 DEF AskTelegram
  <2>2. probe'.todo = probe.todo \ {u} /\ probe'.buffer = probe.buffer \cup told BY <2>1
  <2>3. u \in probe.todo /\ users' = users BY <1>4 DEF AskTelegram
  <2> QED BY <2>1, <2>2, <2>3
<1>5. CASE Flush
  <2>1. probe'.todo \subseteq probe.todo /\ probe'.buffer = {}
    BY <1>5 DEF Flush, AfterFlush, Asleep
  <2>2. users' \in {users, users \ probe.buffer} BY <1>5 DEF Flush, DeleteUsers
  <2>3. UNCHANGED condemned BY <1>5 DEF Flush
  <2> QED BY <2>1, <2>2, <2>3
<1>6. CASE ProbeDies BY <1>6 DEF ProbeDies, Asleep
<1>7. CASE ListChanges BY <1>1, <1>7 DEF ListChanges
<1>8. CASE \/ \E g \in Groups : DeleteGroup(g)
           \/ \E h \in Handlers :
                \/ \E u \in Users, n \in Names : Create(h, u, n)
                \/ \E t \in Owners, r \in Regions : Read(h, t, r)
                \/ \E t \in Owners, x \in Tags : ReadTags(h, t, x)
                \/ Insert(h) \/ Write(h) \/ WriteTags(h)
           \/ \E t \in Owners, f \in {All, {Nothing}} : SetAll(t, f)
  BY <1>1, <1>8 DEF DeleteGroup, Create, Read, ReadTags, Insert, Write, WriteTags, SetAll
<1>9. ASSUME NEW u \in Users, Blocks(u) \/ Returns(u)
      PROVE  ProbeInv' /\ users \ users' \subseteq condemned
  BY <1>1, <1>9 DEF Blocks, Returns
<1>10. CASE UNCHANGED peopleVars BY <1>1, <1>10 DEF peopleVars
<1> QED BY <1>2, <1>3, <1>4, <1>5, <1>6, <1>7, <1>8, <1>9, <1>10 DEF PeopleNext, Buttons

\* No row is removed but those that Telegram called blocked in the same run:
\* however users block the bot, return and register while it runs.
THEOREM RemovesBlocked == PeopleSpec => DeletesBlocked
<1>1. PeopleTypeOK /\ ProbeInv /\ [PeopleNext]_peopleVars
        => [users \ users' \subseteq condemned]_peopleVars
  BY ProbeNext
<1>2. PeopleSpec => []ProbeInv
  BY ProbeInit, ProbeNext, TypeCorrect, PTL DEF PeopleSpec
<1> QED BY <1>1, <1>2, TypeCorrect, PTL DEF PeopleSpec, DeletesBlocked
-----------------------------------------------------------------------------
(* The filters.                                                              *)

Pressed(t) == wanted[t] = tags[t] /\ Agrees(mark[t], countries[t])

LEMMA PressedIs == ShownAsPressed <=> \A t \in Live : Pressed(t)
BY DEF ShownAsPressed, Pressed, Agrees

\* A row that begins or ends has nothing to disagree about.
LEMMA ClearedPressed ==
  ASSUME PeopleTypeOK, NEW T, Cleared(T), NEW t \in Owners, t \in T \/ Pressed(t)
  PROVE  Pressed(t)'
BY DEF PeopleTypeOK, Cleared, Pressed, Agrees, Unmarked

LEMMA UnmarkedAgrees == \A f : Agrees(Unmarked, f)
BY DEF Agrees, Unmarked

LEMMA PressedInit == PeopleInit => ShownAsPressed
BY PeopleAssumption DEF PeopleInit, ShownAsPressed, Unmarked, NoGroup, Live, Owners

LEMMA PressedNext ==
  PeopleTypeOK /\ ShownAsPressed /\ [PeopleNext]_peopleVars => ShownAsPressed'
<1> SUFFICES ASSUME PeopleTypeOK, ShownAsPressed, [PeopleNext]_peopleVars
             PROVE  ShownAsPressed'
  OBVIOUS
<1> USE DEF Filters, Table
<1>0. /\ \A t \in Live : Pressed(t)
      /\ Live \subseteq Owners /\ Live' \subseteq Owners
  BY PressedIs, PeopleNextType DEF Live, Owners, PeopleTypeOK
<1>1. ASSUME \A t \in Live' : Pressed(t)' PROVE ShownAsPressed'
  BY <1>1 DEF ShownAsPressed, Pressed, Agrees
<1>2. ASSUME UNCHANGED Filters, Live' \subseteq Live PROVE ShownAsPressed'
  BY <1>0, <1>1, <1>2 DEF Pressed, Agrees, Shown
<1>3. ASSUME NEW T, Cleared(T), Live' \subseteq Live \cup T PROVE ShownAsPressed'
  BY <1>0, <1>1, <1>3, ClearedPressed
<1>4. ASSUME NEW u \in Users, Start(u) PROVE ShownAsPressed'
  <2>1. CASE u \in users
    BY <1>2, <1>4, <2>1 DEF Start, Live
  <2>2. CASE u \notin users
    BY <1>3, <1>4, <2>2 DEF Start, Live
  <2> QED BY <2>1, <2>2
<1>5. ASSUME NEW h \in Handlers, Insert(h) PROVE ShownAsPressed'
  <2>1. CASE UNCHANGED <<group, Filters>> BY <1>2, <1>5, <2>1 DEF Insert, Live
  <2>2. CASE \E g \in Groups :
               /\ group' = [group EXCEPT ![g] = [owner |-> handler[h].owner,
                                                 name |-> handler[h].name]]
               /\ Cleared({g})
    <3>1. PICK g \in Groups :
            /\ group' = [group EXCEPT ![g] = [owner |-> handler[h].owner, name |-> handler[h].name]]
            /\ Cleared({g})
      BY <2>2
    <3>2. Live' \subseteq Live \cup {g} BY <1>5, <3>1 DEF Insert, Live, PeopleTypeOK
    <3> QED BY <1>3, <3>1, <3>2
  <2> QED BY <1>5, <2>1, <2>2 DEF Insert
<1>6. ASSUME NEW g \in Groups, DeleteGroup(g) PROVE ShownAsPressed'
  <2>1. Live' \subseteq Live BY <1>6 DEF DeleteGroup, Live, Deleted, PeopleTypeOK
  <2> QED BY <1>3, <1>6, <2>1 DEF DeleteGroup
<1>7. ASSUME NEW h \in Handlers, Write(h) PROVE ShownAsPressed'
  <2> DEFINE p == handler[h]
             t == p.target
             new == Flipped(t, p.seen, p.region, p.list)
             m == IF p.seen # countries[t] THEN Unmarked
                  ELSE Marked(t, p.seen, p.region, p.list, new)
  <2>1. /\ t \in Owners /\ p.seen \in Filter /\ p.region \in Regions
        /\ p.list \in SUBSET Regions
    BY <1>7 DEF Write, PeopleTypeOK, Pending
  <2>2. Live' = Live /\ UNCHANGED <<tags, wanted>> BY <1>7 DEF Write, Live
  <2>3. mark \in [Owners -> Marks] /\ countries \in [Owners -> Filter]
    BY DEF PeopleTypeOK, Marks
  <2>4. CASE t \in Live /\ countries' = [countries EXCEPT ![t] = new] /\ mark' = [mark EXCEPT ![t] = m]
    <3>1. Agrees(m, new)
      <4>1. CASE p.seen # countries[t] BY <4>1, UnmarkedAgrees
      <4>2. CASE p.seen = countries[t]
        <5>1. mark[t] \in Marks /\ Agrees(mark[t], p.seen)
          BY <1>0, <2>1, <2>3, <2>4, <4>2 DEF Pressed
        <5> QED BY <2>1, <4>2, <5>1, PressAgrees
      <4> QED BY <4>1, <4>2
    <3> HIDE DEF m, new, t
    <3>2. mark'[t] = m /\ countries'[t] = new BY <2>1, <2>3, <2>4
    <3>3. \A o \in Owners \ {t} : mark'[o] = mark[o] /\ countries'[o] = countries[o]
      BY <2>3, <2>4
    <3>4. \A o \in Live : wanted'[o] = tags'[o] BY <1>0, <2>2 DEF Pressed
    <3>5. \A o \in Live : Agrees(mark'[o], countries'[o])
      BY <1>0, <3>1, <3>2, <3>3 DEF Pressed
    <3> QED BY <1>1, <2>2, <3>4, <3>5 DEF Pressed, Agrees, Shown
  <2>5. CASE UNCHANGED countries /\ mark' = IF t \in users THEN [mark EXCEPT ![t] = Unmarked] ELSE mark
    <3>1. \A o \in Owners : mark'[o] \in {mark[o], Unmarked}
      BY <2>1, <2>3, <2>5
    <3>2. \A o \in Live : wanted'[o] = tags'[o] BY <1>0, <2>2 DEF Pressed
    <3>3. \A o \in Live : Agrees(mark'[o], countries'[o])
      BY <1>0, <2>5, <3>1, UnmarkedAgrees DEF Pressed
    <3> QED BY <1>1, <2>2, <3>2, <3>3 DEF Pressed, Agrees, Shown
  <2> QED BY <1>7, <2>4, <2>5 DEF Write
<1>8. ASSUME NEW t \in Owners, NEW f \in {All, {Nothing}}, SetAll(t, f) PROVE ShownAsPressed'
  <2> DEFINE m == [r \in Regions |-> IF f = All THEN "on" ELSE "off"]
  <2>1. Agrees(m, f) BY FilterFacts DEF Agrees, Shown
  <2>2. \A o \in Owners : \/ mark'[o] = m /\ countries'[o] = f
                          \/ mark'[o] = mark[o] /\ countries'[o] = countries[o]
    BY <1>8 DEF SetAll, PeopleTypeOK
  <2>3. Live' = Live /\ UNCHANGED <<tags, wanted>> BY <1>8 DEF SetAll, Live
  <2>4. \A o \in Live : wanted'[o] = tags'[o] BY <1>0, <2>3 DEF Pressed
  <2>5. \A o \in Live : Agrees(mark'[o], countries'[o])
    BY <1>0, <2>1, <2>2 DEF Pressed
  <2> QED BY <1>1, <2>3, <2>4, <2>5 DEF Pressed, Agrees, Shown
<1>9. ASSUME NEW h \in Handlers, WriteTags(h) PROVE ShownAsPressed'
  <2> DEFINE p == handler[h]
             t == p.target
  <2>1. t \in Owners BY <1>9 DEF WriteTags, PeopleTypeOK, Pending
  <2>2. Live' = Live /\ UNCHANGED <<countries, mark>> BY <1>9 DEF WriteTags, Live
  <2>3. tags \in [Owners -> SUBSET Tags] /\ wanted \in [Owners -> SUBSET Tags]
    BY DEF PeopleTypeOK
  <2>4. \A o \in Live : wanted[o] = tags[o] BY <1>0 DEF Pressed
  <2>5. \A o \in Live : wanted'[o] = tags'[o]
    <3>1. CASE /\ t \in Live /\ tags' = [tags EXCEPT ![t] = Toggled(p.seen, p.tag)]
               /\ wanted' = [wanted EXCEPT ![t] =
                               Toggled(IF p.seen = tags[t] THEN @ ELSE p.seen, p.tag)]
      <4>1. (IF p.seen = tags[t] THEN wanted[t] ELSE p.seen) = p.seen BY <2>4, <3>1
      <4> HIDE DEF t, p
      <4>2. wanted'[t] = tags'[t] BY <2>1, <2>3, <3>1, <4>1
      <4>3. \A o \in Owners \ {t} : wanted'[o] = wanted[o] /\ tags'[o] = tags[o]
        BY <2>3, <3>1
      <4> QED BY <1>0, <2>4, <4>2, <4>3
    <3>2. CASE /\ UNCHANGED tags
               /\ wanted' = IF t \in users THEN [wanted EXCEPT ![t] = tags[t]] ELSE wanted
      BY <1>0, <2>1, <2>3, <2>4, <3>2
    <3> QED BY <1>9, <3>1, <3>2 DEF WriteTags
  <2>6. \A o \in Live : Agrees(mark[o], countries[o]) BY <1>0 DEF Pressed
  <2> QED BY <1>1, <2>2, <2>5, <2>6 DEF Pressed, Agrees, Shown
<1>10. CASE Flush
  <2>1. CASE UNCHANGED <<users, group, Filters>> BY <1>2, <2>1 DEF Live
  <2>2. CASE DeleteUsers(probe.buffer)
    <3> DEFINE gone == {g \in Groups : group[g].owner \in probe.buffer}
    <3>1. Cleared(probe.buffer \cup gone) BY <2>2 DEF DeleteUsers
    <3>2. \A g \in Groups : group'[g] \in {group[g], Deleted} BY <2>2 DEF DeleteUsers
    <3>3. users' \subseteq users BY <2>2 DEF DeleteUsers
    <3>4. Live' \subseteq Live BY <3>2, <3>3 DEF Live, Deleted
    <3> QED BY <1>3, <3>1, <3>4
  <2> QED BY <1>10, <2>1, <2>2 DEF Flush
<1>11. CASE \/ ListChanges \/ ProbeStart \/ ProbeDies
            \/ \E u \in Users : AskTelegram(u) \/ Blocks(u) \/ Returns(u)
            \/ \E h \in Handlers :
                 \/ \E u \in Users, n \in Names : Create(h, u, n)
                 \/ \E t \in Owners, r \in Regions : Read(h, t, r)
                 \/ \E t \in Owners, x \in Tags : ReadTags(h, t, x)
  BY <1>2, <1>11 DEF ListChanges, ProbeStart, ProbeDies, AskTelegram, Blocks, Returns, Create,
     Read, ReadTags, Live
<1>12. CASE UNCHANGED peopleVars BY <1>2, <1>12 DEF peopleVars, Live
<1> QED BY <1>4, <1>5, <1>6, <1>7, <1>8, <1>9, <1>10, <1>11, <1>12 DEF PeopleNext, Buttons

\* A filter is what the presses have made of it, for any number of countries,
\* of presses in between and of lists that came and went.
THEOREM FiltersAsPressed == PeopleSpec => []ShownAsPressed
<1> QED BY PressedInit, PressedNext, TypeCorrect, PTL DEF PeopleSpec
-----------------------------------------------------------------------------
(* The broadcast.  A draft that somebody sends has left the editor, and no   *)
(* message becomes a draft twice: so a draft has one sender, who owes it to  *)
(* the users still on his list.                                              *)

CallType == [pc : {"none", "opening", "asking", "editing", "counting", "listing", "sending", "pause"},
             what : Drafts \cup {NoDraft}, keys : BOOLEAN,
             todo : SUBSET Readers, next : Readers \cup {NoReader},
             sent : Nat, blocked : Nat, failed : Nat]

Got(d) == {u \in Readers : copies[d][u] > 0}
Unsent(d) == faces[d] = {} /\ \A u \in Readers : copies[d][u] = 0
SentOnce(d) == (\A u \in Readers : copies[d][u] <= 1) /\ \A j, k \in faces[d] : j = k
Holds(c) == call[c].pc \in {"listing", "sending", "pause"}

\* What is true of a sender's own draft and numbers.
Owes(c) ==
  /\ call[c].what \in used \ {draft}
  /\ \A b \in Calls : Holds(b) /\ b # c => call[b].what # call[c].what
  /\ faces[call[c].what] \subseteq {call[c].keys}
  /\ \A u \in Readers : copies[call[c].what][u] > 0 => call[c].pc # "listing" /\ u \notin call[c].todo
  /\ call[c].pc = "pause" => call[c].next \in call[c].todo
  /\ call[c].sent <= Cardinality(Got(call[c].what))
  /\ Cardinality(Got(call[c].what)) <= call[c].sent + call[c].failed

CastInv ==
  /\ draft # NoDraft => draft \in used
  /\ \A d \in Drafts : /\ SentOnce(d)
                       /\ d \notin used \/ d = draft => Unsent(d)
  /\ \A c \in Calls : Holds(c) => Owes(c)

LEMMA NoCallTyped == NoCall \in CallType
BY DEF NoCall, CallType

LEMMA CastTypeInit == CastInit => CastTypeOK
<1> SUFFICES ASSUME CastInit PROVE CastTypeOK
  OBVIOUS
<1>1. call \in [Calls -> CallType] BY NoCallTyped DEF CastInit
<1> QED BY <1>1 DEF CastInit, CastTypeOK, CallType

\* Handlers and what they leave in their call.
LEMMA CallsTyped ==
  ASSUME call \in [Calls -> CallType], draft \in Drafts \cup {NoDraft}, buttons \in BOOLEAN, CastNext
  PROVE  call' \in [Calls -> CallType]
<1>1. ASSUME NEW c \in Calls, Ended(c) PROVE call' \in [Calls -> CallType]
  BY <1>1, NoCallTyped DEF Ended
<1>2. ASSUME NEW c \in Calls, NEW pc \in {"opening", "asking", "editing", "counting"}, Pends(c, pc)
      PROVE  call' \in [Calls -> CallType]
  BY <1>2 DEF Pends, CallType
<1>3. ASSUME NEW c \in Calls, NEW u \in Readers, Copy(c, u) PROVE call' \in [Calls -> CallType]
  <2> DEFINE k == call[c]
  <2>1. k \in CallType OBVIOUS
  <2>2. CASE Flooded(c, u) BY <2>1, <2>2 DEF Flooded, CallType
  <2> DEFINE counted == {[k EXCEPT !.sent = @ + 1], [k EXCEPT !.failed = @ + 1],
                         [k EXCEPT !.blocked = @ + 1]}
  <2>3. CASE \E new \in counted : Past(c, u, new)
    <3>1. PICK new \in counted : Past(c, u, new)
      BY <2>3
    <3>2. new \in CallType BY <2>1, <3>1 DEF CallType
    <3>3. [new EXCEPT !.pc = "sending", !.todo = @ \ {u}, !.next = NoReader] \in CallType
      BY <3>2 DEF CallType
    <3> QED BY <3>1, <3>3 DEF Past
  <2> QED BY <1>3, <2>2, <2>3 DEF Copy, Sent, Failed, Forbidden
<1>4. ASSUME NEW c \in Calls, Confirm(c) PROVE call' \in [Calls -> CallType]
  <2>1. [NoCall EXCEPT !.pc = "listing", !.what = draft, !.keys = buttons] \in CallType
    BY NoCallTyped DEF CallType
  <2> QED BY <1>4, <2>1 DEF Confirm, Holding
<1>5. ASSUME NEW c \in Calls, Listed(c) PROVE call' \in [Calls -> CallType]
  BY <1>5, <1>1 DEF Listed, CallType
<1>6. CASE BotStops BY <1>6, NoCallTyped DEF BotStops
<1>7. CASE \/ \E d \in Drafts : GotMessage(d)
           \/ ClearButtons \/ BackToEditor \/ Elsewhere
  BY <1>7 DEF GotMessage, ClearButtons, BackToEditor, Elsewhere
<1> QED BY <1>1, <1>2, <1>3, <1>4, <1>5, <1>6, <1>7
     DEF CastNext, NewCast, AskButtons, GotButtons, ChooseAudience, SetState, Raises, Report

LEMMA CastTypeNext == CastTypeOK /\ [CastNext]_castVars => CastTypeOK'
<1> SUFFICES ASSUME CastTypeOK, [CastNext]_castVars PROVE CastTypeOK'
  OBVIOUS
<1>0. /\ call \in [Calls -> CallType] /\ draft \in Drafts \cup {NoDraft} /\ buttons \in BOOLEAN
      /\ copies \in [Drafts -> [Readers -> Nat]] /\ faces \in [Drafts -> SUBSET BOOLEAN]
  BY DEF CastTypeOK, CallType
<1>1. call' \in [Calls -> CallType] BY <1>0, CallsTyped DEF castVars
<1>2. CASE Erased /\ UNCHANGED history
  BY <1>1, <1>2 DEF Erased, history, CastTypeOK, CallType
<1>3. ASSUME NEW c \in Calls, NEW u \in Readers, Copy(c, u) PROVE CastTypeOK'
  <2>1. UNCHANGED <<editorVars, used>>
    BY <1>3 DEF Copy, Sent, Failed, Forbidden, Flooded, Past, history
  <2>2. copies' \in [Drafts -> [Readers -> Nat]] /\ faces' \in [Drafts -> SUBSET BOOLEAN]
    <3>1. CASE UNCHANGED <<copies, faces>> BY <3>1, <1>0
    <3>2. CASE Arrives(c, u)
      <4>1. call[c].keys \in BOOLEAN BY <1>0 DEF CallType
      <4> DEFINE d == call[c].what
      <4>2. copies' = [copies EXCEPT ![d] = [copies[d] EXCEPT ![u] = copies[d][u] + 1]]
        BY <3>2 DEF Arrives
      <4>4. d \in Drafts => [copies[d] EXCEPT ![u] = copies[d][u] + 1] \in [Readers -> Nat]
        BY <1>0
      <4>5. copies' \in [Drafts -> [Readers -> Nat]]
        <5> HIDE DEF d
        <5> QED BY <1>0, <4>2, <4>4
      <4>3. faces' \in [Drafts -> SUBSET BOOLEAN] BY <3>2, <1>0, <4>1 DEF Arrives
      <4> QED BY <4>5, <4>3
    <3> QED BY <1>3, <3>1, <3>2 DEF Copy, Sent, Failed, Forbidden, Flooded, Lost, history
  <2> QED BY <1>1, <2>1, <2>2 DEF editorVars, CastTypeOK, CallType
<1>4. CASE \E c \in Calls : \/ AskButtons(c) \/ GotButtons(c) \/ ChooseAudience(c)
                            \/ SetState(c) \/ Raises(c) \/ Listed(c) \/ Report(c)
  <2>1. /\ fsm' \in {"none", "waiting", "adding", "confirm", "other"}
        /\ buttons' \in BOOLEAN /\ draft' = draft /\ UNCHANGED history
    BY <1>4 DEF AskButtons, GotButtons, ChooseAudience, SetState, After, Raises, Listed, Report,
       editorVars, CastTypeOK
  <2> QED BY <1>1, <2>1 DEF history, CastTypeOK, CallType
<1>5. CASE \/ \E d \in Drafts : GotMessage(d)
           \/ ClearButtons \/ BackToEditor \/ Elsewhere
  BY <1>1, <1>5, <1>2 DEF GotMessage, ClearButtons, BackToEditor, Elsewhere, history, CastTypeOK,
     CallType
<1>6. CASE UNCHANGED castVars BY <1>6 DEF castVars, CastTypeOK
<1> QED BY <1>2, <1>3, <1>4, <1>5, <1>6 DEF CastNext, NewCast, Confirm, BotStops

LEMMA CastInvInit == CastInit => CastInv
BY DEF CastInit, CastInv, SentOnce, Unsent, Holds, NoCall

\* A step that only ends calls, or begins some that send nothing.
LEMMA NoSenderMoves ==
  ASSUME CastInv, used \subseteq Drafts, UNCHANGED history, draft' \in {draft, NoDraft},
         \A b \in Calls : call'[b] = call[b] \/ ~Holds(b)'
  PROVE  CastInv'
<1>1. \A d \in Drafts : SentOnce(d)' /\ (d \notin used' \/ d = draft' => Unsent(d)')
  BY BroadcastAssumption DEF CastInv, SentOnce, Unsent, history
<1>2. ASSUME NEW c \in Calls, Holds(c)' PROVE Owes(c)'
  <2>1. call'[c] = call[c] /\ Holds(c) /\ Owes(c) BY <1>2 DEF Holds, CastInv
  <2>2. \A b \in Calls : Holds(b)' => call'[b] = call[b] /\ Holds(b) BY DEF Holds
  <2>4. Got(call[c].what)' = Got(call[c].what) BY <2>1 DEF Got, history
  <2>5. call'[c].what \in used' \ {draft'}
    BY <2>1, BroadcastAssumption DEF Owes, history
  <2> QED BY <2>1, <2>2, <2>4, <2>5 DEF Owes, history
<1> QED BY <1>1, <1>2 DEF CastInv, history

\* A message that becomes the draft has been none before, and the draft that it
\* takes the place of is sent by nobody.
LEMMA NewDraft == ASSUME CastTypeOK, CastInv, NEW d \in Drafts, GotMessage(d) PROVE CastInv'
<1>1. /\ d \notin used /\ draft' = d /\ used' = used \cup {d}
      /\ UNCHANGED <<call, copies, faces>>
  BY DEF GotMessage
<1>2. ASSUME NEW c \in Calls, Holds(c)' PROVE Owes(c)'
  <2>1. Holds(c) /\ Owes(c) BY <1>1, <1>2 DEF Holds, CastInv
  <2>2. Got(call[c].what)' = Got(call[c].what) BY <1>1 DEF Got
  <2> QED BY <1>1, <2>1, <2>2 DEF Owes, Holds
<1>3. \A e \in Drafts : SentOnce(e)' /\ (e \notin used' \/ e = draft' => Unsent(e)')
  BY <1>1 DEF CastInv, SentOnce, Unsent
<1> QED BY <1>1, <1>2, <1>3 DEF CastInv

\* Who confirms takes the draft away from the editor, and nobody else sends it.
LEMMA NewSender == ASSUME CastTypeOK, CastInv, NEW c \in Calls, Confirm(c) PROVE CastInv'
<1>0. call \in [Calls -> CallType] /\ draft \in Drafts /\ draft \in used
  BY DEF CastTypeOK, CallType, Confirm, CastInv
<1>1. /\ call[c] = NoCall /\ draft' = NoDraft /\ UNCHANGED history
      /\ call' = [call EXCEPT ![c] = [NoCall EXCEPT !.pc = "listing", !.what = draft, !.keys = buttons]]
  BY DEF Confirm, Holding, Erased
<1>2. /\ call'[c].pc = "listing" /\ call'[c].what = draft /\ call'[c].keys = buttons
      /\ call'[c].sent = 0 /\ call'[c].failed = 0
  BY <1>0, <1>1 DEF NoCall
<1>3. \A b \in Calls : b # c => call'[b] = call[b] /\ (Holds(b)' <=> Holds(b))
  BY <1>0, <1>1 DEF Holds
<1>4. Unsent(draft) BY <1>0 DEF CastInv
<1>5. Owes(c)'
  <2>1. Cardinality(Got(call[c].what)') = 0
    BY <1>1, <1>2, <1>4, FS_EmptySet DEF Got, Unsent, history
  <2>2. \A b \in Calls : Holds(b)' /\ b # c => call'[b].what # draft
    BY <1>3 DEF CastInv, Owes
  <2>3. faces'[draft] = {} /\ \A u \in Readers : copies'[draft][u] = 0
    BY <1>1, <1>4 DEF Unsent, history
  <2> QED BY <1>0, <1>1, <1>2, <2>1, <2>2, <2>3, BroadcastAssumption DEF Owes, history
<1>6. ASSUME NEW b \in Calls, b # c, Holds(b)' PROVE Owes(b)'
  <2>1. Holds(b) /\ Owes(b) /\ call'[b] = call[b] BY <1>3, <1>6 DEF CastInv
  <2>2. call[b].what # draft BY <2>1 DEF Owes
  <2>3. \A e \in Calls : Holds(e)' /\ e # b => call'[e].what # call[b].what
    BY <1>2, <1>3, <2>1, <2>2 DEF Owes
  <2>4. Got(call[b].what)' = Got(call[b].what) BY <2>1, <1>1 DEF Got, history
  <2>5. call[b].what \in used' \ {draft'}
    BY <1>1, <2>1, BroadcastAssumption DEF Owes, history, CastTypeOK
  <2> QED BY <1>1, <2>1, <2>3, <2>4, <2>5 DEF Owes, history
<1>7. \A e \in Drafts : SentOnce(e)' /\ (e \notin used' \/ e = draft' => Unsent(e)')
  BY <1>1, BroadcastAssumption DEF CastInv, SentOnce, Unsent, history
<1>8. draft' # NoDraft => draft' \in used' BY <1>1
<1> QED BY <1>5, <1>6, <1>7, <1>8 DEF CastInv

\* The call of one sender changes, and nothing else: his draft and his numbers
\* stay.
LEMMA SameSender ==
  ASSUME CastTypeOK, CastInv, NEW c \in Calls, NEW k \in CallType, Holds(c),
         UNCHANGED <<draft, history>>, call' = [call EXCEPT ![c] = k],
         k.pc \in {"sending", "pause"}, k.what = call[c].what, k.keys = call[c].keys,
         k.sent = call[c].sent, k.failed = call[c].failed,
         k.todo \subseteq call[c].todo \/ call[c].pc = "listing",
         k.pc = "pause" => k.next \in k.todo
  PROVE  CastInv'
<1>0. call \in [Calls -> CallType] BY DEF CastTypeOK, CallType
<1>1. call'[c] = k /\ \A b \in Calls : b # c => call'[b] = call[b] BY <1>0
<1>2. \A b \in Calls : (Holds(b)' <=> Holds(b)) /\ call'[b].what = call[b].what
  BY <1>1 DEF Holds
<1>3. ASSUME NEW b \in Calls, Holds(b)' PROVE Owes(b)'
  <2>1. Owes(b) /\ Holds(b) BY <1>2, <1>3 DEF CastInv
  <2>2. Got(call[b].what)' = Got(call[b].what) BY <1>2 DEF Got, history
  <2>3. CASE b # c BY <1>1, <1>2, <2>1, <2>2, <2>3 DEF Owes, history
  <2>4. CASE b = c
    <3>1. \A u \in Readers : copies[k.what][u] > 0 => u \notin k.todo
      BY <2>1, <2>4 DEF Owes
    <3> QED BY <1>1, <1>2, <2>1, <2>2, <2>4, <3>1 DEF Owes, history
  <2> QED BY <2>3, <2>4
<1>4. \A e \in Drafts : SentOnce(e)' /\ (e \notin used' \/ e = draft' => Unsent(e)')
  BY DEF CastInv, SentOnce, Unsent, history
<1> QED BY <1>3, <1>4 DEF CastInv, history

\* The numbers of a sender's next call, after the user u.
LEMMA PastKeeps ==
  ASSUME CastTypeOK, CastInv, NEW c \in Calls, NEW u \in Readers, NEW new \in CallType,
         Holds(c), call[c].pc # "listing", u \in call[c].todo, Past(c, u, new),
         new.what = call[c].what, new.keys = call[c].keys, new.todo = call[c].todo,
         \/ /\ Lost /\ new.sent = call[c].sent
            /\ new.failed >= call[c].failed
         \/ /\ Arrives(c, u)
            /\ \/ new.sent = call[c].sent + 1 /\ new.failed = call[c].failed
               \/ new.sent = call[c].sent /\ new.failed = call[c].failed + 1
  PROVE  CastInv'
<1> DEFINE d == call[c].what
<1>0. /\ call \in [Calls -> CallType] /\ call[c] \in CallType /\ used \subseteq Drafts
      /\ copies \in [Drafts -> [Readers -> Nat]] /\ faces \in [Drafts -> SUBSET BOOLEAN]
  BY DEF CastTypeOK, CallType
<1>1. Owes(c) /\ d \in Drafts /\ d \in used /\ d # draft BY <1>0 DEF CastInv, Owes
<1>2. /\ call'[c].pc = "sending" /\ call'[c].what = d /\ call'[c].keys = call[c].keys
      /\ call'[c].todo = call[c].todo \ {u}
      /\ call'[c].sent = new.sent /\ call'[c].failed = new.failed
  BY <1>0 DEF Past, CallType
<1>3. \A b \in Calls : b # c => call'[b] = call[b] /\ (Holds(b)' <=> Holds(b))
  BY <1>0 DEF Past, Holds
<1>4. draft' = draft /\ used' = used BY DEF Past, editorVars
<1>5. \A e \in Drafts : e # d => copies'[e] = copies[e] /\ faces'[e] = faces[e]
  BY <1>0, <1>1 DEF Lost, Arrives
<1>6. copies[d][u] = 0 BY <1>0, <1>1 DEF Owes
<1>7. \/ /\ copies'[d] = copies[d] /\ faces'[d] = faces[d]
         /\ new.sent = call[c].sent /\ new.failed >= call[c].failed
      \/ /\ copies'[d] = [copies[d] EXCEPT ![u] = 1] /\ faces'[d] = faces[d] \cup {call[c].keys}
         /\ \/ new.sent = call[c].sent + 1 /\ new.failed = call[c].failed
            \/ new.sent = call[c].sent /\ new.failed = call[c].failed + 1
  <2>1. CASE Lost /\ new.sent = call[c].sent /\ new.failed >= call[c].failed
    BY <2>1 DEF Lost
  <2>2. CASE /\ Arrives(c, u)
             /\ \/ new.sent = call[c].sent + 1 /\ new.failed = call[c].failed
                \/ new.sent = call[c].sent /\ new.failed = call[c].failed + 1
    <3>1. copies' = [copies EXCEPT ![d] = [copies[d] EXCEPT ![u] = copies[d][u] + 1]]
          /\ faces' = [faces EXCEPT ![d] = faces[d] \cup {call[c].keys}]
      BY <2>2 DEF Arrives
    <3> QED BY <1>0, <1>1, <1>6, <2>2, <3>1
  <2> QED BY <2>1, <2>2
<1>8. faces'[d] \subseteq {call[c].keys} BY <1>1, <1>7 DEF Owes
<1>9. \A v \in Readers : /\ copies'[d][v] \in {0, 1}
                         /\ copies'[d][v] > 0 => v \notin call[c].todo \ {u}
  <2>1. \A v \in Readers : copies[d][v] \in {0, 1}
    <3> HIDE DEF d
    <3>1. SentOnce(d) /\ copies[d] \in [Readers -> Nat] BY <1>0, <1>1 DEF CastInv
    <3> QED BY <3>1 DEF SentOnce
  <2> QED BY <1>0, <1>1, <1>7, <2>1 DEF Owes
<1>10. /\ new.sent <= Cardinality(Got(d)')
       /\ Cardinality(Got(d)') <= new.sent + new.failed
  <2>1. IsFiniteSet(Got(d)) /\ u \notin Got(d) /\ Cardinality(Got(d)) \in Nat
    BY <1>6, BroadcastAssumption, FS_Subset, FS_CardinalityType DEF Got
  <2>2. call[c].sent <= Cardinality(Got(d)) /\ Cardinality(Got(d)) <= call[c].sent + call[c].failed
    BY <1>1 DEF Owes
  <2>3. /\ new.sent \in Nat /\ new.failed \in Nat
        /\ call[c].sent \in Nat /\ call[c].failed \in Nat
    BY <1>0 DEF CallType
  <2>4. CASE /\ copies'[d] = copies[d]
             /\ new.sent = call[c].sent /\ new.failed >= call[c].failed
    <3>1. Got(d)' = Got(d) BY <1>2, <2>4 DEF Got
    <3> QED BY <2>1, <2>2, <2>3, <2>4, <3>1
  <2>5. CASE /\ copies'[d] = [copies[d] EXCEPT ![u] = 1]
             /\ \/ new.sent = call[c].sent + 1 /\ new.failed = call[c].failed
                \/ new.sent = call[c].sent /\ new.failed = call[c].failed + 1
    <3>1. Got(d)' = Got(d) \cup {u} BY <1>0, <1>1, <1>2, <2>5 DEF Got
    <3>2. Cardinality(Got(d)') = Cardinality(Got(d)) + 1 BY <2>1, <3>1, FS_AddElement
    <3> QED BY <2>1, <2>2, <2>3, <2>5, <3>2
  <2> QED BY <1>7, <2>4, <2>5
<1>11. Owes(c)'
  <2>1. \A b \in Calls : Holds(b)' /\ b # c => call'[b].what # d
    BY <1>1, <1>3 DEF Owes
  <2> QED BY <1>1, <1>2, <1>4, <1>8, <1>9, <1>10, <2>1 DEF Owes
<1>12. ASSUME NEW b \in Calls, b # c, Holds(b)' PROVE Owes(b)'
  <2>1. Holds(b) /\ Owes(b) /\ call'[b] = call[b] BY <1>3, <1>12 DEF CastInv
  <2>2. call[b].what # d /\ call[b].what \in Drafts BY <1>0, <1>1, <1>12, <2>1 DEF Owes
  <2>3. \A e \in Calls : Holds(e)' /\ e # b => call'[e].what # call[b].what
    BY <1>2, <1>3, <2>1, <2>2 DEF Owes
  <2>4. copies'[call[b].what] = copies[call[b].what] /\ faces'[call[b].what] = faces[call[b].what]
    BY <1>5, <2>2
  <2>5. Got(call[b].what)' = Got(call[b].what) BY <2>1, <2>4 DEF Got
  <2> QED BY <1>4, <2>1, <2>3, <2>4, <2>5 DEF Owes
<1>13. \A e \in Drafts : SentOnce(e)' /\ (e \notin used' \/ e = draft' => Unsent(e)')
  <2>2. ASSUME NEW e \in Drafts, e # d PROVE SentOnce(e)' /\ (Unsent(e) => Unsent(e)')
    BY <1>5, <2>2 DEF CastInv, SentOnce, Unsent
  <2>3. \A e \in Drafts : SentOnce(e)'
    <3> TAKE e \in Drafts
    <3>1. CASE e = d BY <1>2, <1>8, <1>9, <3>1 DEF SentOnce
    <3>2. CASE e # d BY <2>2, <3>2
    <3> QED BY <3>1, <3>2
  <2>4. \A e \in Drafts : e \notin used' \/ e = draft' => e # d /\ Unsent(e)
    BY <1>1, <1>4 DEF CastInv
  <2> QED BY <2>2, <2>3, <2>4
<1> QED BY <1>4, <1>11, <1>12, <1>13 DEF CastInv

LEMMA CastInvNext ==
  CastTypeOK /\ CastTypeOK' /\ CastInv /\ [CastNext]_castVars => CastInv'
<1> SUFFICES ASSUME CastTypeOK, CastTypeOK', CastInv, [CastNext]_castVars PROVE CastInv'
  OBVIOUS
<1>0. call \in [Calls -> CallType] /\ used \subseteq Drafts BY DEF CastTypeOK, CallType
<1>1. CASE \E c \in Calls : \/ NewCast(c) \/ AskButtons(c) \/ GotButtons(c)
                            \/ ChooseAudience(c) \/ SetState(c) \/ Raises(c) \/ Report(c)
  <2>1. PICK c \in Calls : \/ NewCast(c) \/ AskButtons(c) \/ GotButtons(c) \/ ChooseAudience(c)
                           \/ SetState(c) \/ Raises(c) \/ Report(c)
    BY <1>1
  <2>2. UNCHANGED history /\ draft' \in {draft, NoDraft}
    BY <2>1 DEF NewCast, Erased, AskButtons, GotButtons, ChooseAudience, SetState, Raises, Report,
       editorVars
  <2>3. \/ Ended(c)
        \/ \E pc \in {"opening", "asking", "editing", "counting"} : Pends(c, pc)
    BY <2>1 DEF NewCast, AskButtons, GotButtons, ChooseAudience, SetState, Raises, Report
  <2>4. \A b \in Calls : call'[b] = call[b] \/ ~Holds(b)'
    BY <1>0, <2>3 DEF Ended, Pends, Holds, NoCall, CallType
  <2> QED BY <1>0, <2>2, <2>4, NoSenderMoves
<1>2. CASE ClearButtons \/ BackToEditor \/ Elsewhere \/ BotStops \/ UNCHANGED castVars
  <2>1. UNCHANGED history /\ draft' \in {draft, NoDraft}
    BY <1>2 DEF ClearButtons, BackToEditor, Elsewhere, BotStops, Erased, castVars, history
  <2>2. \A b \in Calls : call'[b] = call[b] \/ ~Holds(b)'
    BY <1>2 DEF ClearButtons, BackToEditor, Elsewhere, BotStops, castVars, Holds, NoCall
  <2> QED BY <1>0, <2>1, <2>2, NoSenderMoves
<1>3. ASSUME NEW c \in Calls, Listed(c) PROVE CastInv'
  <2>1. CASE Ended(c)
    <3>1. \A b \in Calls : call'[b] = call[b] \/ ~Holds(b)'
      BY <1>0, <2>1 DEF Ended, Holds, NoCall
    <3>2. UNCHANGED history /\ draft' = draft BY <1>3 DEF Listed, editorVars
    <3> QED BY <1>0, <3>1, <3>2, NoSenderMoves
  <2>2. CASE ~Ended(c)
    <3>1. PICK list \in SUBSET Readers :
            call' = [call EXCEPT ![c] = [call[c] EXCEPT !.pc = "sending", !.todo = list]]
      BY <1>3, <2>2, <1>0 DEF Listed
    <3> DEFINE k == [call[c] EXCEPT !.pc = "sending", !.todo = list]
    <3>2. /\ k \in CallType /\ k.pc = "sending" /\ k.what = call[c].what /\ k.keys = call[c].keys
          /\ k.sent = call[c].sent /\ k.failed = call[c].failed
      BY <1>0 DEF CallType
    <3>3. call[c].pc = "listing" /\ Holds(c) /\ UNCHANGED <<draft, history>>
      BY <1>3 DEF Listed, Holds, editorVars
    <3> HIDE DEF k
    <3>4. call' = [call EXCEPT ![c] = k] BY <3>1 DEF k
    <3> QED BY <3>2, <3>3, <3>4, SameSender
  <2> QED BY <2>1, <2>2
<1>4. ASSUME NEW c \in Calls, NEW u \in Readers, Flooded(c, u) PROVE CastInv'
  <2> DEFINE k == [call[c] EXCEPT !.pc = "pause", !.next = u]
  <2>1. /\ call[c].pc = "sending" /\ u \in call[c].todo /\ Holds(c)
        /\ UNCHANGED <<draft, history>>
    BY <1>4 DEF Flooded, Sending, Holds, editorVars
  <2>2. /\ k \in CallType /\ k.pc = "pause" /\ k.what = call[c].what /\ k.keys = call[c].keys
        /\ k.sent = call[c].sent /\ k.failed = call[c].failed
        /\ k.todo = call[c].todo /\ k.next = u
    BY <1>0 DEF CallType
  <2>3. call' = [call EXCEPT ![c] = k] BY <1>0, <1>4 DEF Flooded
  <2> HIDE DEF k
  <2> QED BY <2>1, <2>2, <2>3, SameSender
<1>5. ASSUME NEW c \in Calls, NEW u \in Readers, Copy(c, u), ~Flooded(c, u) PROVE CastInv'
  <2>1. Holds(c) /\ call[c].pc # "listing" /\ u \in call[c].todo
    BY <1>5 DEF Copy, Sending, Forbidden, Holds, CastInv, Owes
  <2> DEFINE OfDraft(new) ==
        /\ new \in CallType
        /\ new.what = call[c].what /\ new.keys = call[c].keys /\ new.todo = call[c].todo
  <2>2. CASE Sent(c, u)
    <3> DEFINE new == [call[c] EXCEPT !.sent = @ + 1]
    <3>1. OfDraft(new) /\ new.sent = call[c].sent + 1 /\ new.failed = call[c].failed
      BY <1>0 DEF CallType
    <3>2. Past(c, u, new) /\ Arrives(c, u) BY <2>2 DEF Sent
    <3> HIDE DEF new
    <3> QED BY <2>1, <3>1, <3>2, PastKeeps
  <2>3. CASE Failed(c, u)
    <3> DEFINE new == [call[c] EXCEPT !.failed = @ + 1]
    <3>1. /\ OfDraft(new) /\ new.sent = call[c].sent /\ new.failed = call[c].failed + 1
          /\ new.failed >= call[c].failed
      BY <1>0 DEF CallType
    <3>2. Past(c, u, new) /\ (Arrives(c, u) \/ Lost) BY <2>3 DEF Failed
    <3> HIDE DEF new
    <3> QED BY <2>1, <3>1, <3>2, PastKeeps
  <2>4. CASE Forbidden(c, u)
    <3> DEFINE new == [call[c] EXCEPT !.blocked = @ + 1]
    <3>1. /\ OfDraft(new) /\ new.sent = call[c].sent /\ new.failed = call[c].failed
          /\ new.failed >= call[c].failed
      BY <1>0 DEF CallType
    <3>2. Past(c, u, new) /\ Lost BY <2>4 DEF Forbidden
    <3> HIDE DEF new
    <3> QED BY <2>1, <3>1, <3>2, PastKeeps
  <2> QED BY <1>5, <2>2, <2>3, <2>4 DEF Copy
<1> QED BY <1>1, <1>2, <1>3, <1>4, <1>5, NewDraft, NewSender DEF CastNext

\* The state of the editor and of the senders keeps its types.
THEOREM CastTypeCorrect == CastSpec => []CastTypeOK
<1> QED BY CastTypeInit, CastTypeNext, PTL DEF CastSpec

LEMMA SentAsOwed == CastTypeOK /\ CastInv => OneCopyEach
<1> SUFFICES ASSUME CastTypeOK, CastInv PROVE OneCopyEach
  OBVIOUS
<1>1. ASSUME NEW d \in Drafts
      PROVE  (\A u \in Readers : copies[d][u] <= 1) /\ Cardinality(faces[d]) <= 1
  <2>1. SentOnce(d) BY DEF CastInv
  <2>2. CASE faces[d] = {} BY <2>1, <2>2, FS_EmptySet DEF SentOnce
  <2>3. CASE faces[d] # {}
    <3>1. PICK k \in faces[d] : TRUE BY <2>3
    <3>2. faces[d] = {k} BY <2>1, <3>1 DEF SentOnce
    <3>3. Cardinality(faces[d]) = 1 BY <3>2, FS_Singleton
    <3> QED BY <2>1, <3>3 DEF SentOnce
  <2> QED BY <2>2, <2>3
<1>2. \A c \in Calls : Sends(c) => Owes(c) BY DEF CastInv, Sends, Holds
<1> QED BY <1>1, <1>2 DEF OneCopyEach, Owes, Got

\* However the confirmation button is pressed, for any number of users, drafts
\* and handlers: a draft comes to a user once at most.
THEOREM CopiedOnce == CastSpec => []OneCopyEach
<1>1. CastSpec => []CastInv
  BY CastInvInit, CastInvNext, CastTypeCorrect, PTL DEF CastSpec
<1> QED BY <1>1, SentAsOwed, CastTypeCorrect, PTL
=============================================================================
