------------------------------ MODULE MCAround ------------------------------
(* Components around the pool, which share no state with each other, in one  *)
(* run.  The part that moves is chosen at the start; the others rest.        *)
EXTENDS RecheckControl, CheckClient, People, Broadcast, MCServing

CONSTANTS l1, l2, l3, l4, u1, q1, h1, Parts

VARIABLE part

AroundInit ==
  /\ part \in Parts
  /\ ControlInit
  /\ ClientInit /\ (chain => part \in {"vless", "kinds"})
  /\ PeopleInit /\ (listed = {} \/ part \in {"user", "overlap", "group"})
  /\ ServingInit
  /\ CastInit

\* vless: a stability run and a collector run judge a link each.
\* kinds: a trojan link and another one.
Judged(L) == \A l \in Links \ L : check'[l] = Fresh /\ l \notin dead'

\* user: the countries of a user, while servers come and go.
\* overlap: the same, with two presses at a time and servers everywhere.
\* group: those of a group, that comes and goes.
\* tags: the tags of both.
\* probe: users and groups come and go, and nobody has a filter.
Kinds(S) == \A h \in Handlers : handler'[h].kind \in S \cup {"free"}
OneUser == users' \subseteq {u1} /\ away' = away /\ probe' = probe
OneHandler == \A h \in Handlers \ {h1} : handler'[h] = Free
NoCountries == countries' = [t \in Owners |-> All] /\ listed' = listed
UserPart == OneUser /\ OneHandler /\ group' = group /\ Kinds({"country"})
OverlapPart == OneUser /\ listed' = Regions /\ group' = group /\ Kinds({"country"})
GroupPart == OneUser /\ OneHandler /\ countries'[u1] = All /\ Kinds({"country", "create"})
             /\ \A h \in Handlers : handler'[h].kind = "country" => handler'[h].target # u1
TagsPart == OneUser /\ NoCountries /\ Kinds({"tag", "create"})
ProbePart == NoCountries /\ Kinds({"create"})

\* alone: one client, while the settings and the rows change.
\* callers: two, who share the cache.
AlonePart == /\ Cardinality(handed') <= 1 /\ ~cache'.fresh
             /\ \E h \in Holders : protocol'[h] = "none"
             /\ \A q \in Requests \ {q1} : request'[q] = Unasked
CallersPart == /\ visible' = visible /\ protocol' = protocol /\ limit' = limit
               /\ handed' = handed /\ \A q \in Requests : request'[q].of = "user"

AroundNext ==
  /\ UNCHANGED part
  /\ \/ /\ part = "control" /\ ControlNext
        /\ UNCHANGED <<clientVars, peopleVars, servingVars, castVars>>
     \/ /\ ClientNext
        /\ \/ part = "vless" /\ Judged({l1, l2})
           \/ part = "kinds" /\ Judged({l3, l4})
        /\ UNCHANGED <<controlVars, peopleVars, servingVars, castVars>>
     \/ /\ PeopleNext
        /\ \/ part = "user" /\ UserPart
           \/ part = "overlap" /\ OverlapPart
           \/ part = "group" /\ GroupPart
           \/ part = "tags" /\ TagsPart
           \/ part = "probe" /\ ProbePart
        /\ UNCHANGED <<controlVars, clientVars, servingVars, castVars>>
     \/ /\ ServingNext
        /\ \/ part = "alone" /\ AlonePart
           \/ part = "callers" /\ CallersPart
        /\ UNCHANGED <<controlVars, clientVars, peopleVars, castVars>>
     \/ /\ part = "broadcast" /\ CastNext
        /\ UNCHANGED <<controlVars, clientVars, peopleVars, servingVars>>

AroundSpec ==
  /\ AroundInit
  /\ [][AroundNext]_<<part, controlVars, clientVars, peopleVars, servingVars, castVars>>

CallerAt == [l \in Links |-> IF l \in {l1, l3} THEN "stability" ELSE "collector"]
KindAt == [l \in Links |-> IF l = l3 THEN "trojan" ELSE IF l = l4 THEN "other" ELSE "vless"]
=============================================================================
