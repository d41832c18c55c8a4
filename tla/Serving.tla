------------------------------ MODULE Serving -------------------------------
(***************************************************************************)
(* utils/sub_server.py, handle_subscription: how the request of a client   *)
(* application becomes a list of links.  The user's row and the group's    *)
(* are read, then the rows of the pool, the whole pool if the filters      *)
(* leave nothing, and the links of an external subscription, which one     *)
(* cache of the process keeps for five minutes for every caller.  The URL  *)
(* the bot hands out names the protocols that were set at the time.        *)
(***************************************************************************)
EXTENDS Naturals, FiniteSets

CONSTANTS
  Rows,      \* rows of the pool
  SchemeOf,  \* [Rows -> Active]
  RegionOf,  \* [Rows -> region]
  Tagged,    \* the rows that have the tag some settings ask for
  Rank,      \* [Rows -> Nat]: ru_status, then QUIC, then speed
  Requests,
  Externals, \* schemes of links the external subscription may hold
  Limits     \* what users set subscription_limit to; 0 is no limit

\* utils/protocols.py
Supported == {"vless", "vmess", "trojan", "ss", "ssr", "hysteria2", "hy2", "tuic"}
Active == {"vless", "trojan", "hy2", "hysteria2", "tuic"}
Quic == {"hy2", "hysteria2", "tuic"}
Both == Active \ {"trojan"}

ASSUME ServingAssumption ==
  /\ SchemeOf \in [Rows -> Active] /\ Rank \in [Rows -> Nat]
  /\ Tagged \subseteq Rows /\ Externals \subseteq Supported
  /\ Limits \subseteq Nat
  /\ \A a, b \in Rows : Rank[a] = Rank[b] => a = b

VARIABLES
  visible,   \* rows that are active and fast enough
  protocol,  \* protocol_filter of the user's row and of the group's
  limit,     \* subscription_limit of the user's row
  handed,    \* the URLs the bot has handed out: whose, and the types they name
  request,   \* request[q]: what is known of it, and how far it is
  cache      \* _external_cache: its links' schemes, and whether it is fresh

servingVars == <<visible, protocol, limit, handed, request, cache>>

Places == {RegionOf[r] : r \in Rows}
Protocols == {"none", "vless", "hy2", "trojan", "both"}
Holders == {"user", "group"}
Clients == {"links", "singbox", "clash"}

Unasked == [pc |-> "idle", of |-> "user", given |-> FALSE, types |-> {}, asks |-> {},
            meant |-> {}, limit |-> 0, schemes |-> {}]

ServingInit ==
  /\ visible = Rows
  /\ protocol = [h \in Holders |-> "none"] /\ limit = 0
  /\ handed = {}
  /\ request = [q \in Requests |-> Unasked]
  /\ cache = [links |-> {}, fresh |-> FALSE]

At(q, pc) == request[q].pc = pc
Now(q, c) == request' = [request EXCEPT ![q] = c]
Outside == UNCHANGED <<visible, protocol, limit, handed>>
-----------------------------------------------------------------------------
(* The bot. *)

\* set_protocol_action, set_group_protocol_action: no button sets "both".
SetProtocol(h, p) ==
  /\ p # "both" /\ protocol' = [protocol EXCEPT ![h] = p]
  /\ UNCHANGED <<visible, limit, handed, request, cache>>

\* A button's number, or one the user types.
SetLimit(n) ==
  /\ limit' = n
  /\ UNCHANGED <<visible, protocol, handed, request, cache>>

\* _build_subscription_url
UrlTypes(p) ==
  CASE p = "vless" -> {"vless"}
    [] p = "hy2" -> Quic
    [] p = "trojan" -> {"trojan"}
    [] OTHER -> {}

Hand(h, types) ==
  /\ handed' = handed \cup {[of |-> h, types |-> types]}
  /\ UNCHANGED <<visible, protocol, limit, request, cache>>

\* give_subscription_menu; the QR code of show_main_qr never names types.
GiveUrl == \E types \in {UrlTypes(protocol["user"]), {}} : Hand("user", types)

\* view_group and show_group_qr.
GiveGroupUrl == Hand("group", UrlTypes(protocol["group"]))

RowsChange ==
  /\ \E r \in Rows : visible' = (visible \ {r}) \cup ({r} \ visible)
  /\ UNCHANGED <<protocol, limit, handed, request, cache>>
-----------------------------------------------------------------------------
(* A request. *)

\* Without an id, 401.  The types come with a URL of the bot, or are the
\* caller's own; {} where none are named.
Arrive(q) ==
  /\ request[q].pc \in {"idle", "done"}
  /\ \/ \E url \in handed :
          Now(q, [Unasked EXCEPT !.pc = "user", !.of = url.of, !.types = url.types,
                                 !.given = TRUE])
     \/ \E types \in {{}, {"unheard-of"}, {"vmess", "hy2"}, Supported}, h \in Holders :
          Now(q, [Unasked EXCEPT !.pc = "user", !.of = h, !.types = types])
  /\ Outside /\ UNCHANGED cache

\* protocol_filter as types: "both" and "hy2" stand for several.
SettingsTypes(p) ==
  CASE p = "none" -> {} [] p = "both" -> Both [] p = "hy2" -> Quic [] OTHER -> {p}

\* If nothing is asked for, or nothing that is supported, the active schemes
\* are meant.
Allowed(types) == IF types \cap Supported = {} THEN Active ELSE types \cap Supported

\* The types of the URL come before those of the settings.
Settled(c, p) ==
  LET meant == Allowed(SettingsTypes(p))
      asks == IF c.types = {} THEN meant ELSE Allowed(c.types)
  IN  [c EXCEPT !.pc = "keys", !.types = {}, !.asks = asks,
                !.meant = IF c.given THEN meant ELSE asks]

\* _resolve_effective_limit
Effective(n) == IF n > 5000 THEN 5000 ELSE n

\* get_user: 404 if there is none, or it cannot be read.  With a group in the
\* id, its row is next.
ReadUser(q) ==
  /\ At(q, "user")
  /\ LET c == [request[q] EXCEPT !.limit = Effective(limit)]
     IN  \/ Now(q, Unasked)
         \/ c.of = "user" /\ Now(q, Settled(c, protocol["user"]))
         \/ c.of = "group" /\ Now(q, [c EXCEPT !.pc = "group"])
  /\ Outside /\ UNCHANGED cache

\* get_group_by_name: the group may have been deleted.
ReadGroup(q) ==
  /\ At(q, "group")
  /\ \E p \in {protocol["group"], "none"} : Now(q, Settled(request[q], p))
  /\ Outside /\ UNCHANGED cache

\* ORDER BY ... LIMIT
First(S, n) ==
  {r \in S : n = 0 \/ Cardinality({s \in S : Rank[s] < Rank[r]}) < n}

Schemes(S) == {SchemeOf[r] : r \in S}

\* get_smart_keys, with the filters that were read: countries ("__EMPTY__" is
\* none of them; NULL, and a group that was deleted, is all), a tag or none,
\* and auto_clean, for the rows checked in the last half hour.  A query that
\* fails finds nothing.
Keys(q) ==
  /\ At(q, "keys")
  /\ \E countries \in SUBSET Places, tagged \in {Tagged, Rows}, recent \in {{}, Rows} :
       LET matching == {r \in visible \cap tagged \cap recent : RegionOf[r] \in countries}
           found == Schemes(First(matching, request[q].limit))
       IN  Now(q, [request[q] EXCEPT !.pc = IF found = {} THEN "fallback" ELSE "links",
                                     !.schemes = found])
  /\ Outside /\ UNCHANGED cache

\* Nothing matched: everything, within the limit.
Fallback(q) ==
  /\ At(q, "fallback")
  /\ \E rows \in {First(visible, request[q].limit), {}} :
       Now(q, [request[q] EXCEPT !.pc = "links", !.schemes = Schemes(rows)])
  /\ Outside /\ UNCHANGED cache

\* ClashGenerator and SingBoxGenerator are given what the parsers can read.
Readable(client, scheme) ==
  CASE client = "links" -> TRUE
    [] client = "clash" -> scheme \in {"vless", "trojan"}
    [] client = "singbox" -> scheme \in {"vless", "trojan", "hy2", "hysteria2"}

\* The rows found are filtered now; the limit has been applied before.
Respond(q, external) ==
  LET c == request[q]
  IN  \E client \in Clients :
        Now(q, [c EXCEPT !.pc = "done", !.limit = 0,
                         !.schemes = {s \in (@ \cap c.asks) \cup external : Readable(client, s)}])

\* Mutant: what is cached is handed to any caller.
CachedToAll(q) ==
  /\ At(q, "links") /\ cache.fresh
  /\ Respond(q, cache.links)
  /\ Outside /\ UNCHANGED cache

\* _get_external_links: the cache, filtered for this caller.
Cached(q) ==
  /\ At(q, "links") /\ cache.fresh
  /\ Respond(q, cache.links \cap request[q].asks)
  /\ Outside /\ UNCHANGED cache

Stale(q) ==
  /\ At(q, "links") /\ ~cache.fresh
  /\ Now(q, [request[q] EXCEPT !.pc = "fetch"])
  /\ Outside /\ UNCHANGED cache

\* _decode_subscription_text and _extract_links: a body that is no list of
\* links, plain or in base64, is an empty one, and is cached as well.
Extracted(allowed) == {Externals \cap allowed, {}}

\* The links of this caller's schemes are what is cached, for all.  Without a
\* URL, and if the request fails, nothing is.
FetchExternal(q) ==
  /\ At(q, "fetch")
  /\ \/ Respond(q, {}) /\ UNCHANGED cache
     \/ \E links \in Extracted(request[q].asks) :
          Respond(q, links) /\ cache' = [links |-> links, fresh |-> TRUE]
  /\ Outside

Expires ==
  /\ cache.fresh
  /\ cache' = [cache EXCEPT !.fresh = FALSE]
  /\ Outside /\ UNCHANGED request

ServingNext ==
  \/ \E h \in Holders, p \in Protocols : SetProtocol(h, p)
  \/ \E n \in Limits : SetLimit(n)
  \/ GiveUrl \/ GiveGroupUrl \/ RowsChange \/ Expires
  \/ \E q \in Requests : \/ Arrive(q) \/ ReadUser(q) \/ ReadGroup(q) \/ Keys(q)
                         \/ Fallback(q) \/ Cached(q) \/ Stale(q) \/ FetchExternal(q)

ServingSpec == ServingInit /\ [][ServingNext]_servingVars
-----------------------------------------------------------------------------
ServingTypeOK ==
  /\ visible \subseteq Rows /\ protocol \in [Holders -> Protocols] /\ limit \in Limits \cup {0}
  /\ handed \subseteq [of: Holders, types: SUBSET Supported]
  /\ request \in [Requests ->
       [pc: {"idle", "user", "group", "keys", "fallback", "links", "fetch", "done"},
        of: Holders, given: BOOLEAN, types: SUBSET (Supported \cup {"unheard-of"}),
        asks: SUBSET Supported, meant: SUBSET Supported, limit: Nat,
        schemes: SUBSET Supported]]
  /\ cache \in [links: SUBSET Externals, fresh: BOOLEAN]

\* Whoever filled the cache, and whichever query found the rows: a caller is
\* answered with links of the schemes that it asked for.
ServedAsAsked == \A q \in Requests : At(q, "done") => request[q].schemes \subseteq request[q].asks

\* "Изменения применяются мгновенно при следующем обновлении": a client that
\* refreshes the URL it was given gets the protocols that are set.
SettingsApply == \A q \in Requests : At(q, "done") => request[q].asks = request[q].meant
=============================================================================
