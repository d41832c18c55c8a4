------------------------- MODULE CheckClient_proofs --------------------------
(***************************************************************************)
(* Proofs about the checker client, for any number of links, proxies and   *)
(* samples: what a dead verdict on a vless link may rest on.               *)
(***************************************************************************)
EXTENDS CheckClient, TLAPS

Phases == {"start", "acquire", "pool", "connect", "greeting", "auth", "ask", "tunnel",
           "service", "measured", "done"}
Verdicts == {"none", "alive", "dead", "sys_err"}
Checks == [pc: Phases, via: Upstream \cup {NoUpstream}, sample: 0..Samples,
           retried: BOOLEAN, verdict: Verdicts]

LEMMA InitType == ClientInit => ClientTypeOK
<1>1. Fresh \in Checks
  BY CheckClientAssumption DEF Fresh, Checks, Phases, Verdicts
<1> QED BY <1>1, CheckClientAssumption DEF ClientInit, ClientTypeOK, Checks, Phases, Verdicts

\* Whatever ends a stage leaves a record of a coroutine.
LEMMA StageType ==
  ASSUME ClientTypeOK, NEW l \in Links
  PROVE  /\ \A pc \in Phases : Goto(l, pc) => check' \in [Links -> Checks]
         /\ \A v \in Verdicts : Judge(l, v) => check' \in [Links -> Checks]
         /\ Condemn(l) => check' \in [Links -> Checks]
         /\ Abstain(l) => check' \in [Links -> Checks]
         /\ Probed(l) => check' \in [Links -> Checks]
<1>0. check \in [Links -> Checks] BY DEF ClientTypeOK, Checks, Phases, Verdicts
<1>1. ASSUME NEW c \in Checks, Put(l, c) PROVE check' \in [Links -> Checks]
  BY <1>0, <1>1 DEF Put
<1>2. ASSUME NEW pc \in Phases PROVE Goto(l, pc) => check' \in [Links -> Checks]
  BY <1>0, <1>1 DEF Goto, Checks
<1>3. ASSUME NEW v \in Verdicts PROVE Judge(l, v) => check' \in [Links -> Checks]
  BY <1>0, <1>1 DEF Judge, Checks, Phases
<1>4. Condemn(l) => check' \in [Links -> Checks]
  BY <1>3 DEF Condemn, Verdicts
<1>5. Abstain(l) => check' \in [Links -> Checks]
  <2> DEFINE c == [check[l] EXCEPT !.pc = "acquire", !.retried = TRUE,
                                   !.sample = IF @ = 0 THEN 0 ELSE 1]
  <2>1. check[l] \in Checks BY <1>0
  <2>2. 0 \in 0..Samples /\ 1 \in 0..Samples BY CheckClientAssumption
  <2>3. c \in Checks BY <2>1, <2>2 DEF Checks, Phases
  <2>4. Put(l, c) => check' \in [Links -> Checks] BY <1>1, <2>3
  <2>5. Judge(l, "sys_err") => check' \in [Links -> Checks] BY <1>3 DEF Verdicts
  <2> QED BY <2>4, <2>5 DEF Abstain
<1>6. Probed(l) => check' \in [Links -> Checks]
  <2> DEFINE n == check[l].sample
             c == [check[l] EXCEPT !.pc = "connect", !.sample = n + 1]
  <2>1. check[l] \in Checks /\ n \in 0..Samples BY <1>0 DEF Checks
  <2>2. n < Samples => n + 1 \in 0..Samples BY <2>1, CheckClientAssumption
  <2>3. n < Samples => c \in Checks BY <2>1, <2>2 DEF Checks, Phases
  <2>4. n < Samples /\ Put(l, c) => check' \in [Links -> Checks] BY <1>1, <2>3
  <2>5. Goto(l, "service") \/ Goto(l, "measured") => check' \in [Links -> Checks]
    BY <1>2 DEF Phases
  <2> QED BY <2>4, <2>5 DEF Probed
<1> QED BY <1>2, <1>3, <1>4, <1>5, <1>6

LEMMA NextType == ClientTypeOK /\ [ClientNext]_clientVars => ClientTypeOK'
<1> SUFFICES ASSUME ClientTypeOK, [ClientNext]_clientVars PROVE ClientTypeOK'
  OBVIOUS
<1> USE DEF World, Quiet, Blame, Disown
<1>0. check \in [Links -> Checks] BY DEF ClientTypeOK, Checks, Phases, Verdicts
<1>1. ASSUME check' \in [Links -> Checks], World,
             cached' \in Upstream \cup {NoUpstream}, excuse' \subseteq Links
      PROVE  ClientTypeOK'
  BY <1>1 DEF ClientTypeOK, Checks, Phases, Verdicts
<1>2. ASSUME NEW l \in Links, Parse(l) PROVE ClientTypeOK'
  BY <1>1, <1>2, StageType DEF Parse, ClientTypeOK, Phases
<1>3. ASSUME NEW l \in Links, Acquire(l) PROVE ClientTypeOK'
  <2>1. check' \in [Links -> Checks]
    <3> DEFINE c == [check[l] EXCEPT !.pc = IF chain /\ cached = NoUpstream THEN "pool" ELSE "connect",
                                     !.via = IF chain THEN cached ELSE NoUpstream]
    <3>1. check[l] \in Checks /\ cached \in Upstream \cup {NoUpstream}
      BY <1>0 DEF ClientTypeOK
    <3>2. c \in Checks BY <3>1 DEF Checks, Phases
    <3>3. check' = [check EXCEPT ![l] = c] BY <1>3 DEF Acquire, Put
    <3> QED BY <1>0, <3>2, <3>3
  <2> QED BY <1>1, <1>3, <2>1 DEF Acquire, ClientTypeOK
<1>4. ASSUME NEW l \in Links, PoolAnswers(l) PROVE ClientTypeOK'
  <2>1. check' \in [Links -> Checks]
    <3>1. ASSUME NEW u \in Upstream PROVE [check[l] EXCEPT !.pc = "connect", !.via = u] \in Checks
      BY <1>0 DEF Checks, Phases
    <3>2. CASE Abstain(l) BY <3>2, StageType
    <3>3. CASE \E u \in Upstream : Put(l, [check[l] EXCEPT !.pc = "connect", !.via = u])
      BY <1>0, <3>1, <3>3 DEF Put
    <3> QED BY <1>4, <3>2, <3>3 DEF PoolAnswers
  <2> QED BY <1>1, <1>4, <2>1 DEF PoolAnswers, ClientTypeOK
<1>5. ASSUME NEW l \in Links, Connect(l) PROVE ClientTypeOK'
  <2>1. check' \in [Links -> Checks] BY <1>5, StageType DEF Connect, Phases
  <2> QED BY <1>1, <1>5, <2>1 DEF Connect, ClientTypeOK
<1>6. ASSUME NEW l \in Links, Greeting(l) PROVE ClientTypeOK'
  <2>1. check' \in [Links -> Checks] BY <1>6, StageType DEF Greeting, Phases
  <2> QED BY <1>1, <1>6, <2>1 DEF Greeting, ClientTypeOK
<1>7. ASSUME NEW l \in Links, Ask(l) \/ AskHttp(l) PROVE ClientTypeOK'
  <2>1. check' \in [Links -> Checks] BY <1>7, StageType DEF Ask, AskHttp
  <2> QED BY <1>1, <1>7, <2>1 DEF Ask, AskHttp, ClientTypeOK
<1>8. ASSUME NEW l \in Links, Service(l) PROVE ClientTypeOK'
  <2>1. ASSUME Put(l, [check[l] EXCEPT !.pc = "acquire", !.sample = 1, !.retried = FALSE])
        PROVE  check' \in [Links -> Checks]
    <3>1. 1 \in 0..Samples BY CheckClientAssumption
    <3>2. [check[l] EXCEPT !.pc = "acquire", !.sample = 1, !.retried = FALSE] \in Checks
      BY <1>0, <3>1 DEF Checks, Phases
    <3> QED BY <1>0, <2>1, <3>2 DEF Put
  <2>2. check' \in [Links -> Checks]
    BY <1>8, <2>1, StageType DEF Service, Verdicts
  <2> QED BY <1>1, <1>8, <2>2 DEF Service, ClientTypeOK
<1>9. ASSUME NEW l \in Links, Measured(l) \/ Dropped(l) PROVE ClientTypeOK'
  <2>1. check' \in [Links -> Checks] BY <1>9, StageType DEF Measured, Dropped, Verdicts
  <2> QED BY <1>1, <1>9, <2>1 DEF Measured, Dropped, ClientTypeOK
<1>10. CASE CacheExpires BY <1>0, <1>1, <1>10 DEF CacheExpires, ClientTypeOK
<1>11. ASSUME NEW x \in Links \cup Upstream, Fails(x) PROVE ClientTypeOK'
  BY <1>11, CheckClientAssumption DEF Fails, ClientTypeOK
<1>12. ASSUME NEW x \in Links \cup Upstream, Recovers(x) PROVE ClientTypeOK'
  BY <1>12 DEF Recovers, ClientTypeOK
<1>13. CASE UNCHANGED clientVars BY <1>13 DEF clientVars, ClientTypeOK
<1> QED BY <1>2, <1>3, <1>4, <1>5, <1>6, <1>7, <1>8, <1>9, <1>10, <1>11, <1>12, <1>13
        DEF ClientNext

\* The coroutines' records, the cache and the outages keep their shape.
THEOREM TypeCorrect == ClientSpec => []ClientTypeOK
<1> QED BY InitType, NextType, PTL DEF ClientSpec
-----------------------------------------------------------------------------
(* Who may be blamed.  A server that is down excuses its link; so does a     *)
(* proxy that went down after it had accepted the link's greeting.           *)

BlameInv ==
  \A l \in Links :
    /\ KindOf[l] # "vless" => l \in excuse
    /\ l \in dead => l \in excuse
    /\ check[l].pc \in PastGreeting /\ check[l].via \in dead => l \in excuse
    /\ check[l].pc = "start" => check[l].verdict = "none"
    /\ check[l].verdict = "dead" => l \in excuse

LEMMA BlameImplies == BlameInv => ClientBlame
BY DEF BlameInv, ClientBlame

LEMMA BlameInit == ClientInit => BlameInv
<1>1. ASSUME ClientInit, NEW l \in Links
      PROVE  check[l] = Fresh /\ dead = {} /\ (KindOf[l] # "vless" => l \in excuse)
  BY <1>1 DEF ClientInit
<1>2. Fresh.pc = "start" /\ Fresh.verdict = "none" BY DEF Fresh
<1> QED BY <1>1, <1>2 DEF BlameInv, PastGreeting

\* The other links' records are as they were.
LEMMA OthersKeep ==
  ASSUME ClientTypeOK, NEW l \in Links, NEW k \in Links \ {l}
  PROVE  /\ \A c : Put(l, c) => check'[k] = check[k]
         /\ \A pc : Goto(l, pc) => check'[k] = check[k]
         /\ \A v : Judge(l, v) => check'[k] = check[k]
         /\ Condemn(l) \/ Abstain(l) \/ Probed(l) => check'[k] = check[k]
BY DEF ClientTypeOK, Put, Goto, Judge, Condemn, Abstain, Probed

\* What becomes of the link itself.
LEMMA StageResult ==
  ASSUME ClientTypeOK, NEW l \in Links
  PROVE  /\ \A c : Put(l, c) => check'[l] = c
         /\ \A pc : Goto(l, pc) => /\ check'[l].pc = pc /\ check'[l].via = check[l].via
                                   /\ check'[l].verdict = check[l].verdict
         /\ \A v : Judge(l, v) => check'[l].pc = "done" /\ check'[l].verdict = v
         /\ Condemn(l) => check'[l].pc = "done"
         /\ Abstain(l) => /\ check'[l].pc \in {"acquire", "done"}
                          /\ check'[l].verdict \in {check[l].verdict, "sys_err"}
         /\ Probed(l) => /\ check'[l].pc \in {"service", "connect", "measured"}
                         /\ check'[l].verdict = check[l].verdict
<1>0. check \in [Links -> Checks] /\ check[l] \in Checks
  BY DEF ClientTypeOK, Checks, Phases, Verdicts
<1>1. ASSUME NEW c, Put(l, c) PROVE check'[l] = c BY <1>0, <1>1 DEF Put
<1>2. ASSUME NEW pc, Goto(l, pc)
      PROVE  /\ check'[l].pc = pc /\ check'[l].via = check[l].via
             /\ check'[l].verdict = check[l].verdict
  <2>1. check'[l] = [check[l] EXCEPT !.pc = pc] BY <1>1, <1>2 DEF Goto
  <2> QED BY <1>0, <2>1 DEF Checks
<1>3. ASSUME NEW v, Judge(l, v) PROVE check'[l].pc = "done" /\ check'[l].verdict = v
  <2>1. check'[l] = [check[l] EXCEPT !.pc = "done", !.verdict = v] BY <1>1, <1>3 DEF Judge
  <2> QED BY <1>0, <2>1 DEF Checks
<1>4. Condemn(l) => check'[l].pc = "done" BY <1>3 DEF Condemn
<1>5. ASSUME Abstain(l)
      PROVE  /\ check'[l].pc \in {"acquire", "done"}
             /\ check'[l].verdict \in {check[l].verdict, "sys_err"}
  <2> DEFINE c == [check[l] EXCEPT !.pc = "acquire", !.retried = TRUE,
                                   !.sample = IF @ = 0 THEN 0 ELSE 1]
  <2>1. c.pc = "acquire" /\ c.verdict = check[l].verdict BY <1>0 DEF Checks
  <2>2. CASE Put(l, c)
    <3>1. check'[l] = c BY <1>1, <2>2
    <3> QED BY <2>1, <3>1
  <2>3. CASE Judge(l, "sys_err") BY <1>3, <2>3
  <2> QED BY <1>5, <2>2, <2>3 DEF Abstain
<1>6. ASSUME Probed(l)
      PROVE  /\ check'[l].pc \in {"service", "connect", "measured"}
             /\ check'[l].verdict = check[l].verdict
  <2> DEFINE c == [check[l] EXCEPT !.pc = "connect", !.sample = check[l].sample + 1]
  <2>1. c.pc = "connect" /\ c.verdict = check[l].verdict BY <1>0 DEF Checks
  <2>2. CASE Put(l, c)
    <3>1. check'[l] = c BY <1>1, <2>2
    <3> QED BY <2>1, <3>1
  <2>3. CASE Goto(l, "service") \/ Goto(l, "measured") BY <1>2, <2>3
  <2> QED BY <1>6, <2>2, <2>3 DEF Probed
<1> QED BY <1>1, <1>2, <1>3, <1>4, <1>5, <1>6

LEMMA BlameNext == ClientTypeOK /\ BlameInv /\ [ClientNext]_clientVars => BlameInv'
<1> SUFFICES ASSUME ClientTypeOK, BlameInv, [ClientNext]_clientVars PROVE BlameInv'
  OBVIOUS
<1> USE DEF World, Quiet, Blame, PastGreeting
<1>1. ASSUME NEW l \in Links, UNCHANGED dead, excuse \subseteq excuse',
             \A k \in Links \ {l} : check'[k] = check[k],
             check'[l].pc \in PastGreeting /\ check'[l].via \in dead => l \in excuse',
             check'[l].pc # "start",
             check'[l].verdict = "dead" => l \in excuse'
      PROVE  BlameInv'
  BY <1>1 DEF BlameInv
<1>2. ASSUME NEW l \in Links, Parse(l) PROVE BlameInv'
  <2>1. \A k \in Links \ {l} : check'[k] = check[k] /\ (k \in excuse => k \in excuse')
    BY <1>2, OthersKeep DEF Parse
  <2>2. CASE KindOf[l] = "other"
    BY <1>2, <2>1, <2>2, StageResult DEF Parse, BlameInv
  <2>3. CASE KindOf[l] # "other"
    <3>1. check'[l].pc = "acquire" /\ check'[l].verdict = "none"
      BY <1>2, <2>3, StageResult DEF Parse, BlameInv
    <3> QED BY <1>2, <2>1, <3>1 DEF Parse, BlameInv, Works
  <2> QED BY <2>2, <2>3
<1>3. ASSUME NEW l \in Links, Acquire(l) PROVE BlameInv'
  <2>1. \A k \in Links \ {l} : check'[k] = check[k] BY <1>3, OthersKeep DEF Acquire
  <2>2. check'[l].pc \in {"pool", "connect"} /\ check'[l].verdict = check[l].verdict
    BY <1>3 DEF Acquire, Put, ClientTypeOK
  <2> QED BY <1>1, <1>3, <2>1, <2>2 DEF Acquire, BlameInv
<1>4. ASSUME NEW l \in Links, PoolAnswers(l) PROVE BlameInv'
  <2>1. \A k \in Links \ {l} : check'[k] = check[k] BY <1>4, OthersKeep DEF PoolAnswers
  <2>2. /\ check'[l].pc \in {"connect", "acquire", "done"}
        /\ check'[l].verdict \in {check[l].verdict, "sys_err"}
    <3>1. CASE Abstain(l) BY <3>1, StageResult
    <3>2. CASE \E u \in Upstream : Put(l, [check[l] EXCEPT !.pc = "connect", !.via = u])
      <4>1. PICK u \in Upstream : check'[l] = [check[l] EXCEPT !.pc = "connect", !.via = u]
        BY <3>2, StageResult
      <4> QED BY <4>1 DEF ClientTypeOK
    <3> QED BY <1>4, <3>1, <3>2 DEF PoolAnswers
  <2> QED BY <1>1, <1>4, <2>1, <2>2 DEF PoolAnswers, BlameInv
<1>5. ASSUME NEW l \in Links, Disown(l), check[l].pc # "start" PROVE BlameInv'
  <2>1. \A k \in Links \ {l} : check'[k] = check[k] BY <1>5, OthersKeep DEF Disown
  <2>2. check'[l].pc \in {"acquire", "done"} /\ check'[l].verdict \in {check[l].verdict, "sys_err"}
    BY <1>5, StageResult DEF Disown
  <2> QED BY <1>1, <1>5, <2>1, <2>2 DEF Disown, BlameInv
<1>6. ASSUME NEW l \in Links, Probed(l), UNCHANGED <<dead, excuse>> PROVE BlameInv'
  <2>1. \A k \in Links \ {l} : check'[k] = check[k] BY <1>6, OthersKeep
  <2>2. check'[l].pc \in {"service", "connect", "measured"} /\ check'[l].verdict = check[l].verdict
    BY <1>6, StageResult
  <2> QED BY <1>1, <1>6, <2>1, <2>2 DEF BlameInv
<1>7. ASSUME NEW l \in Links, Condemn(l), UNCHANGED dead, excuse \subseteq excuse', l \in excuse'
      PROVE  BlameInv'
  <2>1. \A k \in Links \ {l} : check'[k] = check[k] BY <1>7, OthersKeep
  <2>2. check'[l].pc = "done" BY <1>7, StageResult
  <2> QED BY <1>1, <1>7, <2>1, <2>2
<1>8. ASSUME NEW l \in Links, NEW pc \in Phases \ {"start"}, Goto(l, pc),
             UNCHANGED <<dead, excuse>>, check[l].via \notin dead
      PROVE  BlameInv'
  <2>1. \A k \in Links \ {l} : check'[k] = check[k] BY <1>8, OthersKeep
  <2>2. /\ check'[l].pc = pc /\ check'[l].via = check[l].via
        /\ check'[l].verdict = check[l].verdict
    BY <1>8, StageResult
  <2> QED BY <1>1, <1>8, <2>1, <2>2 DEF BlameInv
<1>9. ASSUME NEW l \in Links, Connect(l) PROVE BlameInv'
  <2>1. CASE check[l].via = NoUpstream
    BY <1>6, <1>7, <1>9, <2>1 DEF Connect, Works, BlameInv
  <2>2. CASE check[l].via # NoUpstream /\ ~Works(check[l].via)
    BY <1>5, <1>9, <2>2 DEF Connect
  <2>3. CASE check[l].via # NoUpstream /\ Works(check[l].via)
    BY <1>8, <1>9, <2>3 DEF Connect, Works, Phases
  <2> QED BY <2>1, <2>2, <2>3
<1>10. ASSUME NEW l \in Links, Greeting(l) PROVE BlameInv'
  <2>1. CASE Works(check[l].via) /\ UNCHANGED <<dead, excuse>> /\ \E pc \in {"auth", "ask"} : Goto(l, pc)
    BY <1>8, <2>1 DEF Works, Phases
  <2>2. CASE Disown(l) BY <1>5, <1>10, <2>2 DEF Greeting
  <2> QED BY <1>10, <2>1, <2>2 DEF Greeting
<1>11. ASSUME NEW l \in Links, Ask(l) \/ AskHttp(l) PROVE BlameInv'
  <2>1. check[l].pc \in {"ask", "tunnel"} BY <1>11 DEF Ask, AskHttp
  <2>2. CASE Probed(l) /\ Quiet BY <1>6, <2>2
  <2>3. CASE ~(Works(check[l].via) /\ Works(l)) /\ Condemn(l) /\ Quiet
    <3>1. l \in excuse BY <2>1, <2>3 DEF BlameInv, Works
    <3> QED BY <1>7, <2>3, <3>1
  <2>4. CASE Condemn(l) /\ Blame(l) /\ World BY <1>7, <2>4
  <2>5. CASE Disown(l) BY <1>5, <2>1, <2>5
  <2> QED BY <1>11, <2>2, <2>3, <2>4, <2>5 DEF Ask, AskHttp
<1>12. ASSUME NEW l \in Links, Service(l) PROVE BlameInv'
  <2>1. check[l].pc = "service" /\ UNCHANGED dead BY <1>12 DEF Service
  <2>2. CASE Put(l, [check[l] EXCEPT !.pc = "acquire", !.sample = 1, !.retried = FALSE])
             /\ UNCHANGED excuse
    <3>1. \A k \in Links \ {l} : check'[k] = check[k] BY <2>2, OthersKeep
    <3>2. check'[l].pc = "acquire" /\ check'[l].verdict = check[l].verdict
      <4>1. check'[l] = [check[l] EXCEPT !.pc = "acquire", !.sample = 1, !.retried = FALSE]
        BY <2>2, StageResult
      <4> QED BY <4>1 DEF ClientTypeOK
    <3> QED BY <1>1, <2>1, <2>2, <3>1, <3>2 DEF BlameInv
  <2>3. CASE /\ KindOf[l] # "vless" /\ UNCHANGED excuse
             /\ Judge(l, IF CallerOf[l] = "stability" THEN "dead" ELSE "alive")
    <3>1. \A k \in Links \ {l} : check'[k] = check[k] BY <2>3, OthersKeep
    <3>2. check'[l].pc = "done" BY <2>3, StageResult
    <3> QED BY <1>1, <2>1, <2>3, <3>1, <3>2 DEF BlameInv
  <2>4. CASE Condemn(l) /\ Blame(l) BY <1>7, <2>1, <2>4
  <2>5. CASE Abstain(l) /\ UNCHANGED excuse
    <3>1. \A k \in Links \ {l} : check'[k] = check[k] BY <2>5, OthersKeep
    <3>2. /\ check'[l].pc \in {"acquire", "done"}
          /\ check'[l].verdict \in {check[l].verdict, "sys_err"}
      BY <2>5, StageResult
    <3> QED BY <1>1, <2>1, <2>5, <3>1, <3>2 DEF BlameInv
  <2> QED BY <1>12, <2>2, <2>3, <2>4, <2>5 DEF Service
<1>13. ASSUME NEW l \in Links, NEW v \in {"alive", "sys_err"}, Judge(l, v),
              UNCHANGED <<dead, excuse>>
       PROVE  BlameInv'
  <2>1. \A k \in Links \ {l} : check'[k] = check[k] BY <1>13, OthersKeep
  <2>2. check'[l].pc = "done" /\ check'[l].verdict = v BY <1>13, StageResult
  <2> QED BY <1>1, <1>13, <2>1, <2>2
<1>14. ASSUME NEW l \in Links, Measured(l) PROVE BlameInv'
  BY <1>7, <1>13, <1>14 DEF Measured
<1>15. ASSUME NEW l \in Links, Dropped(l) PROVE BlameInv'
  BY <1>13, <1>15 DEF Dropped
<1>16. CASE CacheExpires BY <1>16 DEF CacheExpires, BlameInv
<1>17. ASSUME NEW x \in Links \cup Upstream, Fails(x) PROVE BlameInv'
  BY <1>17 DEF Fails, BlameInv
<1>18. ASSUME NEW x \in Links \cup Upstream, Recovers(x) PROVE BlameInv'
  BY <1>18 DEF Recovers, BlameInv
<1>19. CASE UNCHANGED clientVars BY <1>19 DEF clientVars, BlameInv
<1> QED BY <1>2, <1>3, <1>4, <1>9, <1>10, <1>11, <1>12, <1>14, <1>15, <1>16, <1>17, <1>18, <1>19
        DEF ClientNext

\* A vless row is condemned for its server's failure, the service's finding, a
\* measurement, or a proxy that failed past its greeting: never for a dead
\* proxy of the cache or an unreachable service.
THEOREM BlameIsDeserved == ClientSpec => []ClientBlame
<1>1. ClientSpec => []BlameInv
  BY BlameInit, BlameNext, TypeCorrect, PTL DEF ClientSpec
<1> QED BY <1>1, BlameImplies, PTL
=============================================================================
