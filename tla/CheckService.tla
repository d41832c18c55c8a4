---------------------------- MODULE CheckService ----------------------------
(***************************************************************************)
(* Requests to the checker service: check_handler of                       *)
(* utils/checker/service.py takes a proxy from the pool, starts an xray    *)
(* process that reaches the link through it (utils/checker/xray.py),       *)
(* probes the link and, when the link fails, probes the proxy again to     *)
(* know which of the two to blame.  An answer with SYS_ERR ("sys") does    *)
(* not count against the link.                                             *)
(*                                                                         *)
(* An xray and its config file live and end together.  Ports are left out, *)
(* and whether a link or a proxy works is left to chance at every probe.   *)
(***************************************************************************)
EXTENDS ProxyPool

CONSTANTS
  Modes,        \* direct: no RU chain; paid: RU_PAID_PROXIES is set; pool
  Paid,         \* _paid_proxies
  MaxAttempts,  \* max_attempts of acquire_working_proxy
  NoProxy

ASSUME CheckServiceAssumption ==
  /\ Modes \subseteq {"direct", "paid", "pool"}
  /\ Paid \in Seq(Proxies) /\ Paid # <<>>
  /\ MaxAttempts \in Nat \ {0}
  /\ NoProxy \notin Proxies

VARIABLES
  mode,      \* the configuration
  check,     \* check[c]: where a request is, and its answer
  xray       \* the requests whose xray runs

checkVars == <<mode, check, xray>>
vars == <<poolVars, checkVars>>

\* px: the upstream proxy; nth: the paid one that is probed; left: attempts;
\* said: the error text.  heard is history: the proxy has answered the request
\* since its link failed.
Idle(said) == [pc |-> "idle", px |-> NoProxy, nth |-> 0, left |-> 0, said |-> said,
               heard |-> FALSE]

Init ==
  /\ EmptyPool
  /\ mode \in Modes
  /\ check = [c \in Checks |-> Idle("none")]
  /\ xray = {}

Chain == mode # "direct"
At(c, pc) == check[c].pc = pc
To(c, st) == check' = [check EXCEPT ![c] = st]
Go(c, pc) == To(c, [check[c] EXCEPT !.pc = pc])
Reply(c, said) == To(c, [Idle(said) EXCEPT !.heard = check[c].heard])

Request(c) ==
  /\ At(c, "idle")
  /\ To(c, [Idle("none") EXCEPT !.pc = "asked", !.left = MaxAttempts])
  /\ UNCHANGED <<poolVars, mode, xray>>

\* On to start_xray with the proxy p.
Onward(c, p) == To(c, [Idle("none") EXCEPT !.pc = "boot", !.px = p])

Straight(c) ==
  /\ At(c, "asked") /\ ~Chain
  /\ Onward(c, NoProxy)
  /\ UNCHANGED <<poolVars, mode, xray>>
-----------------------------------------------------------------------------
(* acquire_working_proxy *)

PaidFirst(c) ==
  /\ At(c, "asked") /\ mode = "paid"
  /\ To(c, [check[c] EXCEPT !.pc = "paid", !.nth = 1])
  /\ UNCHANGED <<poolVars, mode, xray>>

PaidAnswers(c) ==
  /\ At(c, "paid")
  /\ Onward(c, Paid[check[c].nth])
  /\ UNCHANGED <<poolVars, mode, xray>>

PaidFails(c) ==
  /\ At(c, "paid")
  /\ IF check[c].nth < Len(Paid) THEN To(c, [check[c] EXCEPT !.nth = @ + 1]) ELSE Reply(c, "sys")
  /\ UNCHANGED <<poolVars, mode, xray>>

\* The loop of attempts, up to the next await or the end: a proxy cached as
\* healthy is taken as it is, another is probed.  When none is left a task is
\* given a refresh, unless one runs or less than a minute has passed since.
LookFor(c, pool, from, marked, well, minute) ==
  IF check[c].left > 0 /\ OpenSteps(pool, from, marked) # {}
  THEN LET p == Picked(pool, from, marked)
       IN  /\ IF p \in well THEN Onward(c, p)
              ELSE To(c, [check[c] EXCEPT !.pc = "probe", !.px = p, !.left = @ - 1])
           /\ cursor' = After(pool, from, marked)
           /\ UNCHANGED asked
  ELSE /\ Reply(c, "sys")
       /\ cursor' = from
       /\ IF minute /\ holder = Nobody THEN \E t \in Tasks : asked' = asked \cup {t}
          ELSE UNCHANGED asked

\* A recent refresh may be a minute old or not.
Elapsed == IF age = "due" THEN {TRUE} ELSE BOOLEAN

NoPool(c) ==
  /\ At(c, "asked") /\ mode = "pool" /\ proxies = <<>>
  /\ holder # Nobody \/ age # "due"
  /\ Reply(c, "sys")
  /\ UNCHANGED <<poolVars, mode, xray>>

RefreshFirst(c) ==
  /\ At(c, "asked") /\ mode = "pool" /\ holder = Nobody /\ age = "due"
  /\ Go(c, "refresh") /\ holder' = c
  /\ UNCHANGED <<proxies, cursor, bad, health, age, asked, mode, xray>>

Refreshed(c) ==
  /\ At(c, "refresh") /\ holder' = Nobody
  /\ \E valid \in Validated : \E pool \in Shuffles(valid) :
       LET new == Renewed(pool)
       IN  /\ proxies' = new.proxies /\ health' = new.health /\ age' = "recent"
           /\ IF new.proxies = <<>> THEN Reply(c, "sys") /\ UNCHANGED <<cursor, asked>>
              ELSE LookFor(c, new.proxies, new.cursor, bad, new.health, FALSE)
  /\ UNCHANGED <<bad, mode, xray>>

Pick(c) ==
  /\ At(c, "asked") /\ mode = "pool" /\ proxies # <<>>
  /\ holder # Nobody \/ age # "due"
  /\ \E minute \in Elapsed : LookFor(c, proxies, cursor, bad, health, minute)
  /\ UNCHANGED <<proxies, bad, health, age, holder, mode, xray>>

ProbeAnswers(c) ==
  /\ At(c, "probe")
  /\ health' = health \cup {check[c].px}
  /\ Onward(c, check[c].px)
  /\ UNCHANGED <<proxies, cursor, bad, age, holder, asked, mode, xray>>

\* Mutant: attempts that fail are not counted.
ProbeFailsUncounted(c) ==
  /\ At(c, "probe")
  /\ bad' = Marked(check[c].px) /\ health' = Unwell(check[c].px)
  /\ IF OpenSteps(proxies, cursor, bad') # {}
     THEN /\ To(c, [check[c] EXCEPT !.px = Picked(proxies, cursor, bad')])
          /\ cursor' = After(proxies, cursor, bad') /\ UNCHANGED asked
     ELSE Reply(c, "sys") /\ UNCHANGED <<cursor, asked>>
  /\ UNCHANGED <<proxies, age, holder, mode, xray>>

ProbeFails(c) ==
  /\ At(c, "probe")
  /\ bad' = Marked(check[c].px) /\ health' = Unwell(check[c].px)
  /\ \E minute \in Elapsed : LookFor(c, proxies, cursor, bad', health', minute)
  /\ UNCHANGED <<proxies, age, holder, mode, xray>>
-----------------------------------------------------------------------------
(* start_xray *)

\* The link is refused before anything is started.
Refuse(c) ==
  /\ At(c, "boot") /\ Reply(c, "config")
  /\ UNCHANGED <<poolVars, mode, xray>>

\* The config file or the process cannot be made.
Unable(c) ==
  /\ At(c, "boot") /\ Reply(c, "sys")
  /\ UNCHANGED <<poolVars, mode, xray>>

Launch(c) ==
  /\ At(c, "boot") /\ Go(c, "bind")
  /\ xray' = xray \cup {c}
  /\ UNCHANGED <<poolVars, mode>>

\* It ends at once or before it listens: the handler makes SYS_ERR of
\* "Xray Crashed".
Crash(c) ==
  /\ At(c, "bind") /\ Reply(c, "sys")
  /\ xray' = xray \ {c}
  /\ UNCHANGED <<poolVars, mode>>

\* The request's answer is known, and its xray is to be stopped.
Answer(c, said) == To(c, [Idle(said) EXCEPT !.pc = "clean"])
BlameLink(c, alibi) == To(c, [Idle("link") EXCEPT !.pc = "clean", !.heard = alibi])

\* Mutant: a process that does not listen in time is left to itself.
BindTimeoutLeaves(c) ==
  /\ At(c, "bind") /\ Reply(c, "sys")
  /\ UNCHANGED <<poolVars, mode, xray>>

BindTimeout(c) ==
  /\ At(c, "bind") /\ Answer(c, "sys")
  /\ UNCHANGED <<poolVars, mode, xray>>

Listening(c) ==
  /\ At(c, "bind") /\ Go(c, "line")
  /\ UNCHANGED <<poolVars, mode, xray>>
-----------------------------------------------------------------------------
(* check_handler: the probes of the link *)

\* What the probes of region, AI and advertisements leave of a success: an
\* exception among them takes it back.
Furnished == {"ok", "sys"}

\* The link answers, and the speed test, whose failure counts only with the
\* chain, is passed or skipped.
Passes(c) ==
  /\ At(c, "line")
  /\ \E said \in Furnished : Answer(c, said)
  /\ UNCHANGED <<poolVars, mode, xray>>

Fails(c) ==
  /\ At(c, "line")
  /\ IF Chain THEN Go(c, "recheck") ELSE Answer(c, "link")
  /\ UNCHANGED <<poolVars, mode, xray>>

\* Mutant: the second probe trusts the cache.
ProxyAliveCached(c) ==
  /\ At(c, "recheck")
  /\ BlameLink(c, check[c].px \notin health)
  /\ health' = health \cup {check[c].px}
  /\ UNCHANGED <<proxies, cursor, bad, age, holder, asked, mode, xray>>

\* probe_proxy(force=True) looks at no cache.
ProxyAlive(c) ==
  /\ At(c, "recheck")
  /\ BlameLink(c, TRUE)
  /\ health' = health \cup {check[c].px}
  /\ UNCHANGED <<proxies, cursor, bad, age, holder, asked, mode, xray>>

ProxyDead(c) ==
  /\ At(c, "recheck") /\ Answer(c, "sys")
  /\ bad' = Marked(check[c].px) /\ health' = Unwell(check[c].px)
  /\ UNCHANGED <<proxies, cursor, age, holder, asked, mode, xray>>

\* finally: terminate, wait, kill, remove the file.
Clean(c) ==
  /\ At(c, "clean") /\ Reply(c, check[c].said)
  /\ xray' = xray \ {c}
  /\ UNCHANGED <<poolVars, mode>>
-----------------------------------------------------------------------------
(* The service *)

\* The service is stopped or killed and starts again.  The xrays that are left
\* then, each in a session of its own, are no longer any request's;
\* cleanup_zombies stops them when they are 300 seconds old.
Restart ==
  /\ LosePool
  /\ xray' = {}
  /\ check' = [c \in Checks |-> IF At(c, "idle") THEN check[c] ELSE Idle("sys")]
  /\ UNCHANGED mode

Step(c) ==
  \/ Straight(c) \/ PaidFirst(c) \/ PaidAnswers(c) \/ PaidFails(c)
  \/ NoPool(c) \/ RefreshFirst(c) \/ Refreshed(c) \/ Pick(c) \/ ProbeAnswers(c) \/ ProbeFails(c)
  \/ Refuse(c) \/ Unable(c) \/ Launch(c) \/ Crash(c) \/ BindTimeout(c) \/ Listening(c)
  \/ Passes(c) \/ Fails(c) \/ ProxyAlive(c) \/ ProxyDead(c) \/ Clean(c)

Next ==
  \/ \E c \in Checks : Request(c) \/ Step(c)
  \/ Chain /\ PoolStep /\ UNCHANGED checkVars
  \/ Restart

Spec == Init /\ [][Next]_vars

\* The awaits of a request have timeouts, but for those of the Redis cache, which
\* is taken to answer or to fail: weak fairness of Step(c), which is possible
\* unless c is idle, written out.
Fairness == \A c \in Checks : []<>At(c, "idle") \/ []<><<check'[c] # check[c]>>_vars
FairSpec == Spec /\ Fairness
-----------------------------------------------------------------------------
Phases == {"idle", "asked", "paid", "refresh", "probe", "boot", "bind", "line",
           "recheck", "clean"}
Requests == [pc : Phases, px : Proxies \cup {NoProxy}, nth : 0..Len(Paid),
             left : 0..MaxAttempts, said : {"none", "ok", "link", "config", "sys"},
             heard : BOOLEAN]

\* A request that refreshes the pool holds the lock, and with the chain every
\* xray has an upstream proxy.
Coherent ==
  \A c \in Checks :
    /\ At(c, "refresh") <=> holder = c
    /\ At(c, "paid") => mode = "paid" /\ check[c].nth > 0
    /\ At(c, "refresh") \/ At(c, "probe") => mode = "pool"
    /\ At(c, "recheck") => Chain
    /\ check[c].pc \in {"probe", "boot", "bind", "line", "recheck"} =>
         (check[c].px = NoProxy <=> ~Chain)

TypeOK ==
  /\ PoolTypeOK
  /\ mode \in Modes
  /\ check \in [Checks -> Requests]
  /\ xray \subseteq Checks
  /\ Coherent

\* A link that xray accepts is blamed only if the proxy it was reached through
\* has answered this very request after the link had failed.
BlameNeedsAlibi == \A c \in Checks : Chain /\ check[c].said = "link" => check[c].heard

\* An xray runs exactly as long as its request needs it or has to stop it.
XrayOwned ==
  \A c \in Checks :
    c \in xray <=> check[c].pc \in {"bind", "line", "recheck", "clean"}

\* A request that has attempts left gives up only when every proxy of the pool
\* is in cooldown, wherever the other requests have moved the cursor.
GivesUpLast ==
  [][\A c \in Checks :
       check[c].pc \in {"asked", "refresh", "probe"} /\ check[c].left > 0 /\ proxies' # <<>>
         /\ check'[c].pc = "idle"
       => InPool(proxies') \subseteq bad']_vars

\* Once the pool has proxies it keeps some as long as the service runs.
KeepsPool == [][proxies # <<>> /\ proxies' = <<>> => Restart]_vars

\* Every request is answered.
Answered == \A c \in Checks : ~At(c, "idle") ~> At(c, "idle")
=============================================================================
