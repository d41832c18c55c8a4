--------------------------- MODULE Serving_proofs ----------------------------
(***************************************************************************)
(* Proofs about the subscription server, for any rows, settings, clients   *)
(* and external links: what a caller is answered with.                     *)
(***************************************************************************)
EXTENDS Serving, TLAPS

Stages == {"idle", "user", "group", "keys", "fallback", "links", "fetch", "done"}
Asks == [pc: Stages, of: Holders, given: BOOLEAN, types: SUBSET (Supported \cup {"unheard-of"}),
         asks: SUBSET Supported, meant: SUBSET Supported, limit: Nat,
         schemes: SUBSET Supported]

LEMMA AllowedType == \A types : Allowed(types) \subseteq Supported
BY DEF Allowed, Active, Supported

LEMMA UrlTypesType == \A p \in Protocols : UrlTypes(p) \subseteq Supported
BY DEF UrlTypes, Protocols, Quic, Supported

LEMMA SchemesType == \A S \in SUBSET Rows : Schemes(S) \subseteq Supported
BY ServingAssumption DEF Schemes, Active, Supported

\* A limit only ever leaves rows out.
LEMMA FirstSubset == \A S, n : First(S, n) \subseteq S
BY DEF First

LEMMA SettledType == ASSUME NEW c \in Asks, NEW p PROVE Settled(c, p) \in Asks
<1> DEFINE meant == Allowed(SettingsTypes(p))
           asks == IF c.types = {} THEN meant ELSE Allowed(c.types)
<1>1. meant \in SUBSET Supported /\ asks \in SUBSET Supported BY AllowedType
<1>2. Settled(c, p) = [c EXCEPT !.pc = "keys", !.types = {}, !.asks = asks,
                                !.meant = IF c.given THEN meant ELSE asks]
  BY DEF Settled
<1> HIDE DEF meant, asks
<1> QED BY <1>1, <1>2 DEF Asks, Stages

LEMMA EffectiveType == \A n \in Nat : Effective(n) \in Nat
BY DEF Effective

LEMMA NowType ==
  ASSUME request \in [Requests -> Asks], NEW q \in Requests, NEW c \in Asks, Now(q, c)
  PROVE  /\ request' \in [Requests -> Asks]
         /\ request'[q] = c
         /\ \A p \in Requests \ {q} : request'[p] = request[p]
BY DEF Now

LEMMA UnaskedType == Unasked \in Asks
BY DEF Unasked, Asks, Stages, Holders

-----------------------------------------------------------------------------
(* Respond: the last step, whatever the external links come from.            *)

LEMMA RespondResult ==
  ASSUME request \in [Requests -> Asks], NEW q \in Requests,
         NEW links \in SUBSET request[q].asks, Respond(q, links)
  PROVE  /\ request' \in [Requests -> Asks]
         /\ request'[q].schemes \subseteq request'[q].asks
         /\ \A p \in Requests \ {q} : request'[p] = request[p]
<1> DEFINE c(client) == [request[q] EXCEPT !.pc = "done", !.limit = 0,
             !.schemes = {s \in (@ \cap request[q].asks) \cup links : Readable(client, s)}]
<1>1. PICK client \in Clients : Now(q, c(client)) BY DEF Respond
<1>2. {s \in (request[q].schemes \cap request[q].asks) \cup links : Readable(client, s)}
        \in SUBSET request[q].asks
  OBVIOUS
<1>3. c(client) \in Asks /\ c(client).schemes \subseteq c(client).asks
  BY <1>2 DEF Asks, Stages
<1> QED BY <1>1, <1>3, NowType

\* What the invariant asks of a request.
ServingInv == ServingTypeOK /\ ServedAsAsked

LEMMA ServingInvInit == ServingInit => ServingInv
BY ServingAssumption, UnaskedType
   DEF ServingInit, ServingInv, ServingTypeOK, ServedAsAsked, Protocols, At, Unasked, Asks, Stages

LEMMA ServingInvNext == ServingInv /\ [ServingNext]_servingVars => ServingInv'
<1> SUFFICES ASSUME ServingInv, [ServingNext]_servingVars PROVE ServingInv'
  OBVIOUS
<1>0. /\ request \in [Requests -> Asks] /\ limit \in Nat
      /\ visible \subseteq Rows /\ protocol \in [Holders -> Protocols]
      /\ handed \subseteq [of: Holders, types: SUBSET Supported]
      /\ cache \in [links: SUBSET Externals, fresh: BOOLEAN]
      /\ \A q \in Requests : request[q].pc = "done" => request[q].schemes \subseteq request[q].asks
  BY ServingAssumption DEF ServingInv, ServingTypeOK, ServedAsAsked, At, Asks, Stages
<1>1. ASSUME Outside, cache' \in [links: SUBSET Externals, fresh: BOOLEAN],
             request' \in [Requests -> Asks],
             \A q \in Requests : request'[q].pc = "done" => request'[q].schemes \subseteq request'[q].asks
      PROVE  ServingInv'
  BY <1>1 DEF ServingInv, ServingTypeOK, ServedAsAsked, At, Asks, Stages, Outside
<1>2. ASSUME NEW q \in Requests, NEW c \in Asks, c.pc # "done", Now(q, c), Outside, UNCHANGED cache
      PROVE  ServingInv'
  BY <1>0, <1>1, <1>2, NowType
<1>3. ASSUME UNCHANGED <<request, cache>>,
             visible' \subseteq Rows, protocol' \in [Holders -> Protocols],
             limit' \in Limits \cup {0}, handed' \subseteq [of: Holders, types: SUBSET Supported]
      PROVE  ServingInv'
  BY <1>3 DEF ServingInv, ServingTypeOK, ServedAsAsked, At
<1>4. ASSUME NEW h \in Holders, NEW p \in Protocols, SetProtocol(h, p) PROVE ServingInv'
  BY <1>3, <1>4 DEF SetProtocol, ServingInv, ServingTypeOK
<1>5. ASSUME NEW n \in Limits, SetLimit(n) PROVE ServingInv'
  BY <1>3, <1>5 DEF SetLimit, ServingInv, ServingTypeOK
<1>6. CASE GiveUrl \/ GiveGroupUrl
  <2>1. ASSUME NEW h \in Holders, NEW types \in SUBSET Supported, Hand(h, types) PROVE ServingInv'
    BY <1>3, <2>1 DEF Hand, ServingInv, ServingTypeOK
  <2>2. UrlTypes(protocol["user"]) \subseteq Supported /\ UrlTypes(protocol["group"]) \subseteq Supported
    BY <1>0, UrlTypesType DEF Holders
  <2> QED BY <1>6, <2>1, <2>2 DEF GiveUrl, GiveGroupUrl, Holders
<1>7. CASE RowsChange
  BY <1>3, <1>7 DEF RowsChange, ServingInv, ServingTypeOK
<1>8. ASSUME NEW q \in Requests, Arrive(q) PROVE ServingInv'
  <2>1. ASSUME NEW url \in handed
        PROVE  LET c == [Unasked EXCEPT !.pc = "user", !.of = url.of, !.types = url.types,
                                        !.given = TRUE]
               IN  c \in Asks /\ c.pc # "done"
    BY <1>0, <2>1, UnaskedType DEF Asks, Stages
  <2>2. ASSUME NEW types \in {{}, {"unheard-of"}, {"vmess", "hy2"}, Supported}, NEW h \in Holders
        PROVE  LET c == [Unasked EXCEPT !.pc = "user", !.of = h, !.types = types]
               IN  c \in Asks /\ c.pc # "done"
    <3>1. types \in SUBSET (Supported \cup {"unheard-of"}) BY DEF Supported
    <3> QED BY <3>1, UnaskedType DEF Asks, Stages
  <2> QED BY <1>2, <1>8, <2>1, <2>2 DEF Arrive
<1>9. ASSUME NEW q \in Requests, ReadUser(q) PROVE ServingInv'
  <2> DEFINE c == [request[q] EXCEPT !.limit = Effective(limit)]
  <2>1. c \in Asks BY <1>0, EffectiveType DEF Asks
  <2>2. Settled(c, protocol["user"]) \in Asks BY <2>1, SettledType
  <2>3. Settled(c, protocol["user"]).pc = "keys" BY <2>1 DEF Settled, Asks
  <2>4. [c EXCEPT !.pc = "group"] \in Asks /\ [c EXCEPT !.pc = "group"].pc = "group"
    BY <2>1 DEF Asks, Stages
  <2>5. Unasked.pc # "done" BY DEF Unasked
  <2>6. \/ Now(q, Unasked) \/ Now(q, Settled(c, protocol["user"]))
        \/ Now(q, [c EXCEPT !.pc = "group"])
    BY <1>9 DEF ReadUser
  <2>7. Outside /\ UNCHANGED cache BY <1>9 DEF ReadUser
  <2> HIDE DEF c
  <2> QED BY <1>2, <2>2, <2>3, <2>4, <2>5, <2>6, <2>7, UnaskedType
<1>10. ASSUME NEW q \in Requests, ReadGroup(q) PROVE ServingInv'
  <2>1. PICK p : Now(q, Settled(request[q], p)) BY <1>10 DEF ReadGroup
  <2>2. Settled(request[q], p) \in Asks BY <1>0, SettledType
  <2>3. Settled(request[q], p).pc = "keys" BY <1>0 DEF Settled, Asks
  <2> QED BY <1>2, <1>10, <2>1, <2>2, <2>3 DEF ReadGroup
<1>11. ASSUME NEW q \in Requests, NEW found \in SUBSET Supported, NEW pc \in {"fallback", "links"},
              Now(q, [request[q] EXCEPT !.pc = pc, !.schemes = found]), Outside, UNCHANGED cache
       PROVE  ServingInv'
  <2>0. request[q] \in Asks /\ pc \in Stages /\ found \in SUBSET Supported BY <1>0 DEF Stages
  <2>1. [request[q] EXCEPT !.pc = pc, !.schemes = found] \in Asks BY <2>0 DEF Asks
  <2>2. [request[q] EXCEPT !.pc = pc, !.schemes = found].pc # "done" BY <1>0 DEF Asks
  <2> QED BY <1>2, <1>11, <2>1, <2>2
<1>12. ASSUME NEW q \in Requests, Keys(q) PROVE ServingInv'
  <2>1. PICK countries \in SUBSET Places, tagged \in {Tagged, Rows}, recent \in {{}, Rows} :
          LET matching == {r \in visible \cap tagged \cap recent : RegionOf[r] \in countries}
              found == Schemes(First(matching, request[q].limit))
          IN  Now(q, [request[q] EXCEPT !.pc = IF found = {} THEN "fallback" ELSE "links",
                                        !.schemes = found])
    BY <1>12 DEF Keys
  <2> DEFINE matching == {r \in visible \cap tagged \cap recent : RegionOf[r] \in countries}
             found == Schemes(First(matching, request[q].limit))
  <2>2. First(matching, request[q].limit) \subseteq Rows
    BY <1>0, FirstSubset
  <2>3. found \in SUBSET Supported BY <2>2, SchemesType
  <2>4. Now(q, [request[q] EXCEPT !.pc = IF found = {} THEN "fallback" ELSE "links",
                                  !.schemes = found])
    BY <2>1
  <2>5. Outside /\ UNCHANGED cache BY <1>12 DEF Keys
  <2> HIDE DEF matching, found
  <2> QED BY <1>11, <2>3, <2>4, <2>5
<1>13. ASSUME NEW q \in Requests, Fallback(q) PROVE ServingInv'
  <2>1. PICK rows \in {First(visible, request[q].limit), {}} :
          Now(q, [request[q] EXCEPT !.pc = "links", !.schemes = Schemes(rows)])
    BY <1>13 DEF Fallback
  <2>2. rows \in SUBSET Rows BY <1>0, FirstSubset
  <2>3. Schemes(rows) \in SUBSET Supported BY <2>2, SchemesType
  <2> QED BY <1>11, <1>13, <2>1, <2>3 DEF Fallback
<1>14. ASSUME NEW q \in Requests, NEW links \in SUBSET request[q].asks, Respond(q, links), Outside,
              cache' \in [links: SUBSET Externals, fresh: BOOLEAN]
       PROVE  ServingInv'
  BY <1>0, <1>1, <1>14, RespondResult
<1>15. ASSUME NEW q \in Requests, Cached(q) PROVE ServingInv'
  BY <1>0, <1>14, <1>15 DEF Cached
<1>16. ASSUME NEW q \in Requests, Stale(q) PROVE ServingInv'
  <2>1. [request[q] EXCEPT !.pc = "fetch"] \in Asks BY <1>0 DEF Asks, Stages
  <2>2. [request[q] EXCEPT !.pc = "fetch"].pc # "done" BY <1>0 DEF Asks
  <2> QED BY <1>2, <1>16, <2>1, <2>2 DEF Stale
<1>17. ASSUME NEW q \in Requests, FetchExternal(q) PROVE ServingInv'
  <2>1. CASE Respond(q, {}) /\ UNCHANGED cache
    BY <1>0, <1>14, <1>17, <2>1 DEF FetchExternal
  <2>2. CASE \E links \in Extracted(request[q].asks) :
               Respond(q, links) /\ cache' = [links |-> links, fresh |-> TRUE]
    <3>1. PICK links \in Extracted(request[q].asks) :
            Respond(q, links) /\ cache' = [links |-> links, fresh |-> TRUE]
      BY <2>2
    <3>2. links \in SUBSET request[q].asks /\ links \in SUBSET Externals BY DEF Extracted
    <3> QED BY <1>14, <1>17, <3>1, <3>2 DEF FetchExternal
  <2> QED BY <1>17, <2>1, <2>2 DEF FetchExternal
<1>18. CASE Expires BY <1>0, <1>1, <1>18 DEF Expires
<1>19. CASE UNCHANGED servingVars
  BY <1>19 DEF servingVars, ServingInv, ServingTypeOK, ServedAsAsked, At
<1> QED BY <1>4, <1>5, <1>6, <1>7, <1>8, <1>9, <1>10, <1>12, <1>13, <1>15, <1>16, <1>17, <1>18, <1>19
        DEF ServingNext

\* Settings, requests and the cache keep their shape.
THEOREM TypeCorrect == ServingSpec => []ServingTypeOK
<1> QED BY ServingInvInit, ServingInvNext, PTL DEF ServingSpec, ServingInv

\* No caller is answered with a link of a scheme it did not ask for, whoever
\* filled the external cache and whichever query found the rows.
THEOREM AnswersAsAsked == ServingSpec => []ServedAsAsked
<1> QED BY ServingInvInit, ServingInvNext, PTL DEF ServingSpec, ServingInv
=============================================================================
