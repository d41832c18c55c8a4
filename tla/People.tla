------------------------------- MODULE People -------------------------------
(***************************************************************************)
(* The users table, their groups and their filters (database/repo/users.py *)
(* and groups.py), the buttons that change them (handlers/user) and the    *)
(* task that removes users who have blocked the bot (tasks/user_probe.py). *)
(* The bot handles updates concurrently.  A button that toggles reads the  *)
(* filter, and the countries there are servers in, and writes a whole new  *)
(* filter afterwards.                                                      *)
(***************************************************************************)
EXTENDS Naturals, FiniteSets

CONSTANTS
  Users,
  Groups,      \* ids of user_groups: given once, by the order of inserts
  Names,       \* what a group can be called
  Regions,
  Tags,
  Handlers,    \* toggles and creations under way at the same time
  BufferSize,  \* USER_PROBE_BUFFER_SIZE
  All,         \* country_filter is NULL: every country
  Nothing,     \* "__EMPTY__"
  NoUser

ASSUME PeopleAssumption ==
  /\ Nothing \notin Regions /\ (\A F \in SUBSET (Regions \cup {Nothing}) : F # All)
  /\ NoUser \notin Users
  /\ Users \cap Groups = {} /\ BufferSize \in Nat \ {0}

VARIABLES
  users,      \* ids in the users table
  group,      \* group[g]: owner and name of a row of user_groups
  countries,  \* country_filter of users and groups
  tags,       \* tags_filter
  listed,     \* what get_regions answers
  handler,    \* handler[h]: what a handler has read and will write
  away,       \* users who have blocked the bot
  probe,      \* the run of probe_blocked_users_task
  mark,       \* history: what the presses have made of a country
  wanted,     \* history: the tags the presses have switched on
  condemned   \* history: rows the run was told to be blocked

peopleVars == <<users, group, countries, tags, listed, handler, away, probe, mark, wanted,
                condemned>>

Owners == Users \cup Groups
NoGroup == [owner |-> NoUser, name |-> "none"]
Deleted == [owner |-> NoUser, name |-> "deleted"]
Live == users \cup {g \in Groups : group[g].owner # NoUser}
OwnerOf(t) == IF t \in Users THEN t ELSE group[t].owner
Unmarked == [r \in Regions |-> "free"]
Free == [kind |-> "free"]
Asleep == [pc |-> "idle", todo |-> {}, buffer |-> {}]

PeopleInit ==
  /\ users = {} /\ group = [g \in Groups |-> NoGroup]
  /\ countries = [t \in Owners |-> All] /\ tags = [t \in Owners |-> {}]
  /\ listed \in SUBSET Regions
  /\ handler = [h \in Handlers |-> Free]
  /\ away = {} /\ probe = Asleep
  /\ mark = [t \in Owners |-> Unmarked] /\ wanted = [t \in Owners |-> {}]
  /\ condemned = {}

\* in_(...): the marker stands for no country and hides none.
Shown(f) == IF f = All THEN Regions ELSE f \ {Nothing}

\* A row begins, or ends, with nothing filtered.
Cleared(T) ==
  /\ countries' = [t \in Owners |-> IF t \in T THEN All ELSE countries[t]]
  /\ tags' = [t \in Owners |-> IF t \in T THEN {} ELSE tags[t]]
  /\ mark' = [t \in Owners |-> IF t \in T THEN Unmarked ELSE mark[t]]
  /\ wanted' = [t \in Owners |-> IF t \in T THEN {} ELSE wanted[t]]
Filters == <<countries, tags, mark, wanted>>
-----------------------------------------------------------------------------
(* Users and groups. *)

\* cmd_start, add_user: nothing happens to a row there is.
Start(u) ==
  /\ u \notin away
  /\ users' = users \cup {u}
  /\ IF u \in users THEN UNCHANGED <<Filters, condemned>>
     ELSE Cleared({u}) /\ condemned' = condemned \ {u}
  /\ UNCHANGED <<group, listed, handler, away, probe>>

\* create_group_finish and create_group: the name is looked up, then inserted.
Create(h, u, n) ==
  /\ handler[h] = Free /\ u \notin away
  /\ ~\E g \in Groups : group[g] = [owner |-> u, name |-> n]
  /\ handler' = [handler EXCEPT ![h] = [kind |-> "create", owner |-> u, name |-> n]]
  /\ UNCHANGED <<users, group, listed, away, probe, condemned, Filters>>

\* The foreign key refuses a group whose owner is gone.
Insert(h) ==
  /\ handler[h].kind = "create"
  /\ handler' = [handler EXCEPT ![h] = Free]
  /\ LET u == handler[h].owner
     IN  \/ /\ u \in users
            /\ \E g \in Groups :
                 /\ group[g] = NoGroup
                 /\ group' = [group EXCEPT ![g] = [owner |-> u, name |-> handler[h].name]]
                 /\ Cleared({g})
         \/ u \notin users /\ UNCHANGED <<group, Filters>>
  /\ UNCHANGED <<users, listed, away, probe, condemned>>

\* delete_group, by its id.
DeleteGroup(g) ==
  /\ g \in Live /\ group[g].owner \notin away
  /\ group' = [group EXCEPT ![g] = Deleted]
  /\ Cleared({g})
  /\ UNCHANGED <<users, listed, handler, away, probe, condemned>>
-----------------------------------------------------------------------------
(* Toggles. *)

CanPress(h, t) == handler[h] = Free /\ t \in Live /\ OwnerOf(t) \notin away

\* A user's filter that cannot be read is taken for none, a group's stops the
\* handler; a list of countries that cannot be read is an empty one.
CountriesRead(t) == {countries[t]} \cup (IF t \in Users THEN {All} ELSE {})
TagsRead(t) == {tags[t]} \cup (IF t \in Users THEN {{}} ELSE {})

\* get_regions, then get_user_filter or get_user_groups.
Read(h, t, r) ==
  /\ CanPress(h, t)
  /\ \E f \in CountriesRead(t), list \in {listed, {}} :
       handler' = [handler EXCEPT ![h] = [kind |-> "country", target |-> t, region |-> r,
                                          seen |-> f, list |-> list]]
  /\ UNCHANGED <<users, group, listed, away, probe, condemned, Filters>>

Toggled(S, x) == (S \ {x}) \cup ({x} \ S)

Selected(t, f, r, list) ==
  IF f = All THEN list \ {r}
  ELSE IF t \in Groups /\ f = {Nothing} THEN {r}
  ELSE Toggled(f, r)

\* Mutant: an empty selection is written as it is, which reads as NULL.
FlippedBare(t, f, r, list) ==
  LET new == Selected(t, f, r, list)
  IN  IF new \in {{}, list} THEN All ELSE new

\* toggle_country; toggle_group_country drops the marker with the first
\* country, but in a filter with countries the marker changes nothing.
Flipped(t, f, r, list) ==
  LET new == Selected(t, f, r, list)
  IN  IF new = {} THEN {Nothing} ELSE IF new = list THEN All ELSE new

\* What the press has made of the marks.  A filter that was "all", or becomes
\* it, keeps no memory of the countries without a server.
Marked(t, f, r, list, new) ==
  [x \in Regions |->
     LET now == IF x # r THEN mark[t][x] ELSE IF r \in Shown(f) THEN "off" ELSE "on"
     IN  IF x \in list \/ (f # All /\ new # All) THEN now ELSE "free"]

\* update_user_filter says nothing of a statement that fails, nor of a row
\* that is gone; update_group_countries raises.  Where presses overlapped, or a
\* read or a write failed, the history begins anew.
Write(h) ==
  /\ handler[h].kind = "country"
  /\ handler' = [handler EXCEPT ![h] = Free]
  /\ LET p == handler[h]
         t == p.target
         new == Flipped(t, p.seen, p.region, p.list)
     IN  \/ /\ t \in Live
            /\ countries' = [countries EXCEPT ![t] = new]
            /\ mark' = [mark EXCEPT ![t] = IF p.seen # countries[t] THEN Unmarked
                                           ELSE Marked(t, p.seen, p.region, p.list, new)]
         \/ /\ UNCHANGED countries
            /\ mark' = IF t \in users THEN [mark EXCEPT ![t] = Unmarked] ELSE mark
  /\ UNCHANGED <<users, group, tags, wanted, listed, away, probe, condemned>>

\* set_all_on, set_all_off and their like for groups: nothing is read first.
SetAll(t, f) ==
  /\ t \in Live /\ OwnerOf(t) \notin away
  /\ countries' = [countries EXCEPT ![t] = f]
  /\ mark' = [mark EXCEPT ![t] = [r \in Regions |-> IF f = All THEN "on" ELSE "off"]]
  /\ UNCHANGED <<users, group, tags, wanted, listed, handler, away, probe, condemned>>

\* toggle_tag and toggle_group_tag.
ReadTags(h, t, x) ==
  /\ CanPress(h, t)
  /\ \E seen \in TagsRead(t) :
       handler' = [handler EXCEPT ![h] = [kind |-> "tag", target |-> t, tag |-> x, seen |-> seen]]
  /\ UNCHANGED <<users, group, listed, away, probe, condemned, Filters>>

WriteTags(h) ==
  /\ handler[h].kind = "tag"
  /\ handler' = [handler EXCEPT ![h] = Free]
  /\ LET p == handler[h]
         t == p.target
     IN  \/ /\ t \in Live
            /\ tags' = [tags EXCEPT ![t] = Toggled(p.seen, p.tag)]
            /\ wanted' = [wanted EXCEPT ![t] =
                            Toggled(IF p.seen = tags[t] THEN @ ELSE p.seen, p.tag)]
         \/ /\ UNCHANGED tags
            /\ wanted' = IF t \in users THEN [wanted EXCEPT ![t] = tags[t]] ELSE wanted
  /\ UNCHANGED <<users, group, countries, mark, listed, away, probe, condemned>>
-----------------------------------------------------------------------------
(* The probe. *)
Table == <<group, Filters, listed, handler, away>>

\* get_all_users; the lock keeps a second run out.
ProbeStart ==
  /\ probe.pc = "idle" /\ users # {}
  /\ probe' = [pc |-> "asks", todo |-> users, buffer |-> {}]
  /\ condemned' = {}
  /\ UNCHANGED <<users, Table>>

\* send_chat_action.  Any other failure, and a flood limit that lasts, is no
\* reason to remove somebody.
AskTelegram(u) ==
  /\ probe.pc = "asks" /\ u \in probe.todo
  /\ \E told \in {{}, {u} \cap away} :
       LET buffer == probe.buffer \cup told
       IN  /\ probe' = [pc |-> IF Cardinality(buffer) >= BufferSize \/ probe.todo = {u}
                               THEN "flush" ELSE "asks",
                        todo |-> probe.todo \ {u}, buffer |-> buffer]
           /\ condemned' = condemned \cup (told \cap users)
  /\ UNCHANGED <<users, Table>>

\* delete_users: groups and users in one transaction.
DeleteUsers(S) ==
  LET gone == {g \in Groups : group[g].owner \in S}
  IN  /\ users' = users \ S
      /\ group' = [g \in Groups |-> IF g \in gone THEN Deleted ELSE group[g]]
      /\ Cleared(S \cup gone)

AfterFlush(buffer) ==
  probe' = IF probe.todo = {} THEN Asleep
           ELSE [pc |-> "asks", todo |-> probe.todo, buffer |-> buffer]

\* Mutant: the buffer keeps what has been flushed.
FlushKeeps ==
  /\ probe.pc = "flush"
  /\ AfterFlush(probe.buffer)
  /\ DeleteUsers(probe.buffer) \/ UNCHANGED <<users, group, Filters>>
  /\ UNCHANGED <<listed, handler, away, condemned>>

\* flush_blocked empties the buffer first.  A transaction that fails, by the
\* foreign key if a group was created in between, removes nobody.
Flush ==
  /\ probe.pc = "flush"
  /\ AfterFlush({})
  /\ DeleteUsers(probe.buffer) \/ UNCHANGED <<users, group, Filters>>
  /\ UNCHANGED <<listed, handler, away, condemned>>

\* The worker dies, or the time limit strikes.
ProbeDies ==
  /\ probe.pc # "idle"
  /\ probe' = Asleep
  /\ UNCHANGED <<users, Table, condemned>>
-----------------------------------------------------------------------------
(* The others. *)

Blocks(u) ==
  /\ u \notin away /\ away' = away \cup {u}
  /\ UNCHANGED <<users, group, Filters, listed, handler, probe, condemned>>
Returns(u) ==
  /\ u \in away /\ away' = away \ {u}
  /\ UNCHANGED <<users, group, Filters, listed, handler, probe, condemned>>

\* Servers come and go, and the list of the bot's process follows in a minute.
ListChanges ==
  /\ listed' \in SUBSET Regions
  /\ listed' # listed
  /\ UNCHANGED <<users, group, Filters, handler, away, probe, condemned>>

Buttons ==
  \/ \E u \in Users : Start(u)
  \/ \E g \in Groups : DeleteGroup(g)
  \/ \E h \in Handlers :
       \/ \E u \in Users, n \in Names : Create(h, u, n)
       \/ \E t \in Owners, r \in Regions : Read(h, t, r)
       \/ \E t \in Owners, x \in Tags : ReadTags(h, t, x)
       \/ Insert(h) \/ Write(h) \/ WriteTags(h)
  \/ \E t \in Owners, f \in {All, {Nothing}} : SetAll(t, f)

PeopleNext ==
  \/ Buttons \/ ListChanges
  \/ \E u \in Users : AskTelegram(u) \/ Blocks(u) \/ Returns(u)
  \/ ProbeStart \/ Flush \/ ProbeDies

PeopleSpec == PeopleInit /\ [][PeopleNext]_peopleVars
-----------------------------------------------------------------------------
Filter == {All} \cup SUBSET (Regions \cup {Nothing})

Pending == [kind: {"free"}] \cup [kind: {"create"}, owner: Users, name: Names]
           \cup [kind: {"tag"}, target: Owners, tag: Tags, seen: SUBSET Tags]
           \cup [kind: {"country"}, target: Owners, region: Regions, seen: Filter,
                 list: SUBSET Regions]

PeopleTypeOK ==
  /\ users \subseteq Users /\ away \subseteq Users /\ condemned \subseteq Users
  /\ group \in [Groups -> [owner: Users \cup {NoUser}, name: Names \cup {"none", "deleted"}]]
  /\ countries \in [Owners -> Filter]
  /\ tags \in [Owners -> SUBSET Tags] /\ wanted \in [Owners -> SUBSET Tags]
  /\ listed \subseteq Regions
  /\ handler \in [Handlers -> Pending]
  /\ probe \in [pc: {"idle", "asks", "flush"}, todo: SUBSET Users, buffer: SUBSET Users]
  /\ mark \in [Owners -> [Regions -> {"free", "on", "off"}]]

\* A filter is what the presses have made of it: a country last switched off
\* is hidden, one last switched on is shown, and so are the tags, unless two
\* presses overlapped, a read or a write failed, or the filter was or became
\* "all" at a press while the country had no server.
ShownAsPressed ==
  \A t \in Live :
    /\ wanted[t] = tags[t]
    /\ \A r \in Regions : /\ mark[t][r] = "off" => r \notin Shown(countries[t])
                          /\ mark[t][r] = "on" => r \in Shown(countries[t])

\* The probe removes no row but one that Telegram called blocked in this run:
\* in particular none of a user who was removed and has registered again.
DeletesBlocked == [][users \ users' \subseteq condemned]_peopleVars
=============================================================================
