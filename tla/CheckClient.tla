----------------------------- MODULE CheckClient -----------------------------
(***************************************************************************)
(* utils/checker/__init__.py and api.py: how a bot or worker process       *)
(* checks a link, for the two callers that act on the verdict: a stability *)
(* run deletes a dead row, a collector run refuses a dead link.  First a   *)
(* TCP probe of the server, through a proxy when the chain is on, then the *)
(* checker service over HTTP, then some more probes for the jitter.        *)
(* The coroutines of a process share one cached proxy.  A failure is       *)
(* blamed by the phase it strikes in: "Factor ..." is a verdict about the  *)
(* link, "SYS_ERR ..." is none.                                            *)
(***************************************************************************)
EXTENDS Naturals

CONSTANTS
  Links,      \* one coroutine each
  CallerOf,   \* [Links -> {"stability", "collector"}]
  KindOf,     \* [Links -> {"vless", "trojan", "other"}]
  Upstream,   \* proxies that ProxyPool.acquire_working_proxy may return
  HttpOnes,   \* those of them that speak HTTP CONNECT and not SOCKS5
  NoUpstream,
  Samples,    \* TCP_JITTER_SAMPLES
  MaxOutages  \* bound: servers and proxies that go down

ASSUME CheckClientAssumption ==
  /\ CallerOf \in [Links -> {"stability", "collector"}]
  /\ KindOf \in [Links -> {"vless", "trojan", "other"}]
  /\ HttpOnes \subseteq Upstream /\ NoUpstream \notin Upstream
  /\ Samples \in Nat \ {0} /\ MaxOutages \in Nat

VARIABLES
  chain,    \* CHECKER_USE_RU_PROXY_CHAIN of this process
  check,    \* check[l]: where the coroutine of link l is
  cached,   \* _cached_tcp_proxy
  dead,     \* proxies and servers (named by their links) that are down
  outages,
  excuse    \* history: links with a reason to be blamed

clientVars == <<chain, check, cached, dead, outages, excuse>>

Fresh == [pc |-> "start", via |-> NoUpstream, sample |-> 0, retried |-> FALSE,
          verdict |-> "none"]

ClientInit ==
  /\ chain \in BOOLEAN
  /\ check = [l \in Links |-> Fresh]
  /\ cached = NoUpstream
  /\ dead = {} /\ outages = 0
  /\ excuse = {l \in Links : KindOf[l] # "vless"}

\* The proxy has accepted what it was sent: from here on its failures read
\* as failures of the server behind it.
PastGreeting == {"ask", "tunnel"}

Put(l, c) == check' = [check EXCEPT ![l] = c]
Goto(l, pc) == Put(l, [check[l] EXCEPT !.pc = pc])
Works(x) == x \notin dead
World == UNCHANGED <<chain, dead, outages>>
Quiet == World /\ UNCHANGED <<cached, excuse>>
Blame(l) == excuse' = excuse \cup {l}
-----------------------------------------------------------------------------
(* How a stage ends. *)

Judge(l, v) == Put(l, [check[l] EXCEPT !.pc = "done", !.verdict = v])

\* "Factor 1" and its like, for both callers, in both stages.
Condemn(l) == Judge(l, "dead")

\* SYS_ERR: the collector tries the stage once more, a vless link's only.
Abstain(l) ==
  IF CallerOf[l] = "collector" /\ KindOf[l] = "vless" /\ ~check[l].retried
  THEN Put(l, [check[l] EXCEPT !.pc = "acquire", !.retried = TRUE,
                               !.sample = IF @ = 0 THEN 0 ELSE 1])
  ELSE Judge(l, "sys_err")

\* A probe came through: the first one leads to the service, the others to
\* the next sample with the proxy there is.
Probed(l) ==
  LET n == check[l].sample
  IN  IF n = 0 THEN Goto(l, "service")
      ELSE IF n < Samples THEN Put(l, [check[l] EXCEPT !.pc = "connect", !.sample = n + 1])
      ELSE Goto(l, "measured")
-----------------------------------------------------------------------------
(* The probe: process_subscription and measure_tcp_jitter. *)

\* Only vless and trojan links are parsed; the others are "Factor 0".
Parse(l) ==
  /\ check[l].pc = "start"
  /\ IF KindOf[l] = "other" THEN Condemn(l) ELSE Goto(l, "acquire")
  /\ excuse' = IF KindOf[l] = "vless" /\ Works(l) THEN excuse \ {l} ELSE excuse
  /\ World /\ UNCHANGED cached

Acquire(l) ==
  /\ check[l].pc = "acquire"
  /\ Put(l, [check[l] EXCEPT !.pc = IF chain /\ cached = NoUpstream THEN "pool" ELSE "connect",
                             !.via = IF chain THEN cached ELSE NoUpstream])
  /\ Quiet

\* acquire_working_proxy: whoever comes last fills, or clears, the cache.
PoolAnswers(l) ==
  /\ check[l].pc = "pool"
  /\ \/ \E p \in Upstream : /\ cached' = p
                            /\ Put(l, [check[l] EXCEPT !.pc = "connect", !.via = p])
     \/ cached' = NoUpstream /\ Abstain(l)
  /\ World /\ UNCHANGED excuse

\* A failure that is the proxy's: whatever is cached by now is dropped.
Disown(l) == cached' = NoUpstream /\ Abstain(l) /\ World /\ UNCHANGED excuse

Connect(l) ==
  LET p == check[l].via
  IN  /\ check[l].pc = "connect"
      /\ IF p = NoUpstream
         THEN (IF Works(l) THEN Probed(l) ELSE Condemn(l)) /\ Quiet
         ELSE IF ~Works(p) THEN Disown(l)
         ELSE Goto(l, IF p \in HttpOnes THEN "tunnel" ELSE "greeting") /\ Quiet

\* Mutant: the phase is entered before the request for it is written.
GreetingEarly(l) ==
  /\ check[l].pc \in {"greeting", "auth"}
  /\ \/ /\ Works(check[l].via)
        /\ \E pc \in IF check[l].pc = "auth" THEN {"ask"} ELSE {"auth", "ask"} : Goto(l, pc)
        /\ Quiet
     \/ ~Works(check[l].via) /\ Condemn(l) /\ Quiet

\* SOCKS5: greeting, and user and password if the proxy asks for them.  It may
\* refuse our methods or our password.
Greeting(l) ==
  /\ check[l].pc \in {"greeting", "auth"}
  /\ \/ /\ Works(check[l].via)
        /\ \E pc \in IF check[l].pc = "auth" THEN {"ask"} ELSE {"auth", "ask"} : Goto(l, pc)
        /\ Quiet
     \/ Disown(l)

\* SOCKS5 CONNECT.  Silence, a closed connection, a general failure and a
\* reply that is none are all "Factor 1"; some other error is the proxy's.
Ask(l) ==
  LET p == check[l].via
  IN  /\ check[l].pc = "ask"
      /\ \/ Works(p) /\ Works(l) /\ Probed(l) /\ Quiet
         \/ ~(Works(p) /\ Works(l)) /\ Condemn(l) /\ Quiet
         \/ Works(p) /\ Condemn(l) /\ Blame(l) /\ World /\ UNCHANGED cached
         \/ ~Works(p) /\ Disown(l)

\* HTTP CONNECT: an empty reply, silence and any code but 401, 403 and 407
\* are "Factor 1".
AskHttp(l) ==
  LET p == check[l].via
  IN  /\ check[l].pc = "tunnel"
      /\ \/ Works(p) /\ Works(l) /\ Probed(l) /\ Quiet
         \/ ~(Works(p) /\ Works(l)) /\ Condemn(l) /\ Quiet
         \/ Works(p) /\ Condemn(l) /\ Blame(l) /\ World /\ UNCHANGED cached
         \/ Disown(l)

\* 25 seconds.
CacheExpires ==
  /\ cached # NoUpstream
  /\ cached' = NoUpstream
  /\ World /\ UNCHANGED <<check, excuse>>
-----------------------------------------------------------------------------
(* The service, and what the callers do after it. *)

\* CheckerAPI.check: the service found the link good or bad; or it is busy,
\* offline, too slow, answers nonsense, or had itself no verdict.
Replies == {"passed", "failed", "SYS_ERR"}

\* _check_via_checker, and what follows it in the callers.  A trojan link that
\* passed is added by the collector, and condemned by a stability run, which
\* parses it as vless.
Service(l) ==
  /\ check[l].pc = "service"
  /\ \E reply \in Replies :
       \/ /\ reply = "passed"
          /\ IF KindOf[l] = "vless"
             THEN Put(l, [check[l] EXCEPT !.pc = "acquire", !.sample = 1, !.retried = FALSE])
             ELSE Judge(l, IF CallerOf[l] = "stability" THEN "dead" ELSE "alive")
          /\ UNCHANGED excuse
       \/ reply = "failed" /\ Condemn(l) /\ Blame(l)
       \/ reply = "SYS_ERR" /\ Abstain(l) /\ UNCHANGED excuse
  /\ World /\ UNCHANGED cached

\* Jitter and speed against their limits.
Measured(l) ==
  /\ check[l].pc = "measured"
  /\ \/ Judge(l, "alive") /\ UNCHANGED excuse
     \/ Condemn(l) /\ Blame(l)
  /\ World /\ UNCHANGED cached

\* The batch processor gives up, or an exception: no verdict.
Dropped(l) ==
  /\ check[l].pc \notin {"start", "done"}
  /\ Judge(l, "sys_err")
  /\ Quiet
-----------------------------------------------------------------------------
(* Servers and proxies fail and recover. *)

\* A link may be blamed for its server's failure, and for that of a proxy it
\* cannot tell from it.
Fails(x) ==
  /\ outages < MaxOutages /\ outages' = outages + 1
  /\ x \notin dead /\ dead' = dead \cup {x}
  /\ excuse' = excuse \cup {l \in Links :
       l = x \/ (check[l].pc \in PastGreeting /\ check[l].via = x)}
  /\ UNCHANGED <<chain, check, cached>>

Recovers(x) ==
  /\ x \in dead /\ dead' = dead \ {x}
  /\ UNCHANGED <<chain, check, cached, outages, excuse>>

ClientNext ==
  \/ \E l \in Links : \/ Parse(l) \/ Acquire(l) \/ PoolAnswers(l) \/ Connect(l)
                      \/ Greeting(l) \/ Ask(l) \/ AskHttp(l) \/ Service(l)
                      \/ Measured(l) \/ Dropped(l)
  \/ CacheExpires
  \/ \E x \in Links \cup Upstream : Fails(x) \/ Recovers(x)

ClientSpec == ClientInit /\ [][ClientNext]_clientVars
-----------------------------------------------------------------------------
ClientTypeOK ==
  /\ chain \in BOOLEAN
  /\ check \in [Links -> [pc: {"start", "acquire", "pool", "connect", "greeting", "auth",
                               "ask", "tunnel", "service", "measured", "done"},
                          via: Upstream \cup {NoUpstream}, sample: 0..Samples,
                          retried: BOOLEAN, verdict: {"none", "alive", "dead", "sys_err"}]]
  /\ cached \in Upstream \cup {NoUpstream}
  /\ dead \subseteq Links \cup Upstream /\ outages \in 0..MaxOutages
  /\ excuse \subseteq Links

\* A vless link gets the verdict that deletes its row only if its server was
\* down during the check, the service or a measurement found against it, or
\* its proxy failed after it had accepted the greeting: never because a
\* proxy was dead when the cache handed it out, or the service could not be
\* reached.
ClientBlame == \A l \in Links : check[l].verdict = "dead" => l \in excuse
=============================================================================
