------------------------ MODULE CheckService_proofs ------------------------
(***************************************************************************)
(* Proofs about the checker service and its pool, for every set of         *)
(* requests and proxies, every length of the pool and number of attempts.  *)
(***************************************************************************)
EXTENDS CheckService, FiniteSetTheorems, WellFoundedInduction, TLAPS

-----------------------------------------------------------------------------
(* The scan of the pool *)

LEMMA LeastElement ==
  ASSUME NEW S, S \subseteq Nat, S # {}
  PROVE  \E x \in S : \A y \in S : x <= y
<1> DEFINE R == OpToRel(<, Nat)
<1>1. \E x \in S : \A y \in S : ~ (<<y, x>> \in R)
  <2>1. IsWellFoundedOn(R, Nat) BY NatLessThanWellFounded
  <2> HIDE DEF R
  <2> QED BY <2>1, WFMin
<1>2. \A x, y \in Nat : y < x => <<y, x>> \in R
  BY DEF OpToRel
<1> HIDE DEF R
<1>3. \A x, y \in S : x \in Nat /\ y \in Nat /\ (~ (y < x) => x <= y) OBVIOUS
<1> QED BY <1>1, <1>2, <1>3

\* _pick_candidate finds a proxy of the pool that is not marked, if the scan
\* meets one, and leaves the cursor within the pool.
LEMMA ScanFinds ==
  ASSUME NEW pool \in Seq(Proxies), NEW from \in Nat, NEW marked,
         OpenSteps(pool, from, marked) # {}
  PROVE  /\ Picked(pool, from, marked) \in InPool(pool) \ marked
         /\ Picked(pool, from, marked) \in Proxies
         /\ After(pool, from, marked) \in 0..(Len(pool) - 1)
<1> DEFINE S == OpenSteps(pool, from, marked)
           k == FirstStep(pool, from, marked)
<1>1. S \subseteq Nat /\ Len(pool) \in Nat /\ Len(pool) > 0
  BY DEF OpenSteps
<1>2. k \in S
  <2>1. \E x \in S : \A y \in S : x <= y BY <1>1, LeastElement
  <2> QED BY <2>1 DEF FirstStep
<1>3. k \in Nat /\ Slot(pool, from, k) \notin marked
  BY <1>1, <1>2 DEF OpenSteps
<1>4. (from + k) % Len(pool) \in 0..(Len(pool) - 1)
      /\ (from + k + 1) % Len(pool) \in 0..(Len(pool) - 1)
  BY <1>1, <1>3
<1>5. Slot(pool, from, k) \in InPool(pool)
  BY <1>1, <1>4 DEF Slot, InPool
<1>6. Slot(pool, from, k) \in Proxies
  BY <1>5 DEF InPool
<1> QED BY <1>3, <1>4, <1>5, <1>6 DEF Picked, After

\* It gives up only when every proxy of the pool is marked: the scan goes all
\* around, wherever it starts.
LEMMA ScanCovers ==
  ASSUME NEW pool \in Seq(Proxies), NEW from \in 0..(Len(pool) - 1), NEW marked,
         OpenSteps(pool, from, marked) = {}
  PROVE  InPool(pool) \subseteq marked
<1> DEFINE n == Len(pool)
<1> SUFFICES ASSUME NEW i \in 1..n PROVE pool[i] \in marked
  BY DEF InPool
<1> DEFINE k == IF i - 1 >= from THEN i - 1 - from ELSE i - 1 - from + n
<1>0. n \in Nat /\ from \in Nat OBVIOUS
<1>1. k \in 0..(n - 1) BY <1>0
<1>2. (from + k) % n = i - 1
  <2>1. CASE i - 1 >= from
    <3>1. from + k = i - 1 /\ i - 1 \in 0..(n - 1) BY <1>0, <2>1
    <3>2. \A a \in 0..(n - 1) : a % n = a BY <1>0
    <3> QED BY <3>1, <3>2
  <2>2. CASE ~ (i - 1 >= from)
    <3>1. from + k = i - 1 + n /\ i - 1 \in 0..(n - 1) BY <1>0, <2>2
    <3>2. \A a \in 0..(n - 1) : (a + n) % n = a BY <1>0
    <3> QED BY <3>1, <3>2
  <2> QED BY <2>1, <2>2
<1> HIDE DEF k
<1>3. Slot(pool, from, k) = pool[i]
  <2>1. (i - 1) + 1 = i OBVIOUS
  <2> QED BY <1>2, <2>1 DEF Slot
<1> QED BY <1>1, <1>3 DEF OpenSteps
-----------------------------------------------------------------------------
(* What a refresh leaves *)

LEMMA ShuffleType ==
  ASSUME NEW valid \in SUBSET Proxies, NEW pool \in Shuffles(valid)
  PROVE  pool \in Seq(Proxies) /\ Len(pool) <= MaxPool
<1> DEFINE n == IF Cardinality(valid) < MaxPool THEN Cardinality(valid) ELSE MaxPool
<1>1. Cardinality(valid) \in Nat
  BY FS_Subset, FS_CardinalityType, ProxyPoolAssumption
<1>2. n \in Nat /\ n <= MaxPool BY <1>1, ProxyPoolAssumption
<1>3. pool \in [1..n -> valid] BY DEF Shuffles
<1> HIDE DEF n
<1>4. pool \in [1..n -> Proxies] BY <1>3
<1> QED BY <1>2, <1>4

\* The pool, the cursor and the cache fit each other after a refresh, and a
\* pool that had proxies has some.
LEMMA RenewedFits ==
  ASSUME PoolTypeOK, NEW valid \in SUBSET Proxies, NEW pool \in Shuffles(valid),
         NEW new, new = Renewed(pool)
  PROVE  /\ new.proxies \in Seq(Proxies) /\ Len(new.proxies) <= MaxPool
         /\ new.cursor \in Nat /\ new.health \subseteq Proxies
         /\ new.proxies = <<>> => new.cursor = 0 /\ proxies = <<>>
         /\ new.proxies # <<>> => new.cursor < Len(new.proxies)
<1>1. pool \in Seq(Proxies) /\ Len(pool) <= MaxPool BY ShuffleType
<1>2. CASE pool = <<>>
  BY <1>2 DEF Renewed, PoolTypeOK
<1>3. CASE pool # <<>>
  <2>1. Len(pool) > 0 BY <1>1, <1>3
  <2> QED BY <1>1, <1>3, <2>1 DEF Renewed
<1> QED BY <1>2, <1>3
-----------------------------------------------------------------------------
(* Steps of one request *)

\* The part of TypeOK about a request whose record is st.
Fits(st) ==
  /\ st.pc = "paid" => mode = "paid" /\ st.nth > 0
  /\ st.pc \in {"refresh", "probe"} => mode = "pool"
  /\ st.pc = "recheck" => Chain
  /\ st.pc \in {"probe", "boot", "bind", "line", "recheck"} => (st.px = NoProxy <=> ~Chain)

\* The part of BlameNeedsAlibi: a link that is blamed is blamed with an alibi of
\* the proxy, or was before.
Alibi(st, c) ==
  st.said = "link" /\ Chain =>
    \/ st.heard
    \/ check[c].said = "link" /\ st.heard = check[c].heard

\* The shapes a step gives to the record of its request.
LEMMA Shapes ==
  ASSUME TypeOK, NEW c \in Checks
  PROVE  /\ \A said \in {"none", "ok", "link", "config", "sys"} :
              /\ Idle(said) \in Requests
              /\ \A h \in BOOLEAN : [Idle(said) EXCEPT !.heard = h] \in Requests
              /\ [Idle(said) EXCEPT !.pc = "clean"] \in Requests
         /\ \A h \in BOOLEAN : [Idle("link") EXCEPT !.pc = "clean", !.heard = h] \in Requests
         /\ [Idle("none") EXCEPT !.pc = "asked", !.left = MaxAttempts] \in Requests
         /\ \A p \in Proxies \cup {NoProxy} :
              [Idle("none") EXCEPT !.pc = "boot", !.px = p] \in Requests
         /\ \A pc \in Phases : [check[c] EXCEPT !.pc = pc] \in Requests
<1> USE CheckServiceAssumption DEF Requests, Phases
<1>1. check[c] \in Requests BY DEF TypeOK
<1>2. Len(Paid) \in Nat BY CheckServiceAssumption
<1>3. \A said \in {"none", "ok", "link", "config", "sys"} : Idle(said) \in Requests
  BY <1>2 DEF Idle
<1>4. ASSUME NEW r \in Requests, NEW pc \in Phases, NEW h \in BOOLEAN,
             NEW p \in Proxies \cup {NoProxy}
      PROVE  /\ [r EXCEPT !.pc = pc] \in Requests
             /\ [r EXCEPT !.heard = h] \in Requests
             /\ [r EXCEPT !.pc = pc, !.heard = h] \in Requests
             /\ [r EXCEPT !.pc = pc, !.left = MaxAttempts] \in Requests
             /\ [r EXCEPT !.pc = pc, !.px = p] \in Requests
  <2> HIDE DEF Phases
  <2>1. [r EXCEPT !.pc = pc] \in Requests OBVIOUS
  <2>2. [r EXCEPT !.heard = h] \in Requests OBVIOUS
  <2>3. [r EXCEPT !.pc = pc, !.heard = h] \in Requests OBVIOUS
  <2>4. [r EXCEPT !.pc = pc, !.left = MaxAttempts] \in Requests
    <3>1. MaxAttempts \in 0..MaxAttempts BY CheckServiceAssumption
    <3> QED BY <3>1
  <2>5. [r EXCEPT !.pc = pc, !.px = p] \in Requests OBVIOUS
  <2> QED BY <2>1, <2>2, <2>3, <2>4, <2>5
<1>5. {"asked", "boot", "clean"} \subseteq Phases OBVIOUS
<1> HIDE DEF Requests, Phases
<1>6. NoProxy \in Proxies \cup {NoProxy} /\ TRUE \in BOOLEAN OBVIOUS
<1> QED BY <1>1, <1>3, <1>4, <1>5, <1>6

\* What a step of request c does: its new record is st.
Needs(pc) == pc \in {"bind", "line", "recheck", "clean"}
Effect(c, st) ==
  /\ To(c, st) /\ UNCHANGED mode /\ PoolTypeOK'
  /\ Fits(st) /\ Alibi(st, c)
  /\ (holder' = c) <=> (st.pc = "refresh")
  /\ holder' # holder => {holder, holder'} \subseteq {c, Nobody}
  /\ xray' = IF Needs(st.pc) THEN xray \cup {c} ELSE xray \ {c}

LEMMA EffectType ==
  ASSUME TypeOK, NEW c \in Checks, NEW st \in Requests, Effect(c, st)
  PROVE  TypeOK'
<1> USE DEF Effect
<1>1. check' \in [Checks -> Requests] BY DEF To, TypeOK
<1>2. check'[c] = st BY DEF To, TypeOK
<1>3. \A d \in Checks \ {c} : check'[d] = check[d] BY DEF To, TypeOK
<1>4. Chain' <=> Chain BY DEF Chain
<1>5. \A d \in Checks \ {c} : holder' = d <=> holder = d
  BY ProxyPoolAssumption
<1>6. Coherent'
  <2> SUFFICES ASSUME NEW d \in Checks
               PROVE /\ At(d, "refresh")' <=> holder' = d
                     /\ At(d, "paid")' => mode' = "paid" /\ check'[d].nth > 0
                     /\ At(d, "refresh")' \/ At(d, "probe")' => mode' = "pool"
                     /\ At(d, "recheck")' => Chain'
                     /\ check'[d].pc \in {"probe", "boot", "bind", "line", "recheck"} =>
                          (check'[d].px = NoProxy <=> ~Chain')
    BY DEF Coherent
  <2>1. CASE d = c BY <1>2, <1>4, <2>1 DEF Fits, At
  <2>2. CASE d # c
    BY <1>3, <1>4, <1>5, <2>2 DEF At, TypeOK, Coherent
  <2> QED BY <2>1, <2>2
<1>7. xray' \subseteq Checks BY DEF TypeOK
<1> QED BY <1>1, <1>6, <1>7 DEF TypeOK

\* The loop of attempts hands the request a proxy of the pool, cached or to be
\* probed, or gives up; with attempts left only when every proxy is marked.
LEMMA LookForFits ==
  ASSUME TypeOK, NEW c \in Checks, NEW pool \in Seq(Proxies), NEW from \in Nat,
         pool = <<>> => from = 0, pool # <<>> => from < Len(pool),
         NEW marked, NEW well, NEW minute, LookFor(c, pool, from, marked, well, minute)
  PROVE  /\ cursor' \in Nat
         /\ pool = <<>> => cursor' = 0
         /\ pool # <<>> => cursor' < Len(pool)
         /\ asked' \subseteq Tasks
         /\ \E st \in Requests :
              /\ To(c, st)
              /\ \/ st.pc \in {"boot", "probe"} /\ st.px \in Proxies
                 \/ /\ st.pc = "idle"
                    /\ check[c].left > 0 => InPool(pool) \subseteq marked
              /\ Alibi(st, c)
<1>0. check[c] \in Requests /\ asked \subseteq Tasks BY DEF TypeOK, PoolTypeOK
<1>1. CASE check[c].left > 0 /\ OpenSteps(pool, from, marked) # {}
  <2> DEFINE p == Picked(pool, from, marked)
             probing == [check[c] EXCEPT !.pc = "probe", !.px = p, !.left = @ - 1]
             going == [Idle("none") EXCEPT !.pc = "boot", !.px = p]
  <2>0. p \in Proxies /\ After(pool, from, marked) \in 0..(Len(pool) - 1)
    BY <1>1, ScanFinds
  <2>1. /\ p \in Proxies /\ After(pool, from, marked) \in Nat
        /\ pool # <<>> /\ After(pool, from, marked) < Len(pool)
    BY <2>0
  <2>2. cursor' = After(pool, from, marked) /\ asked' = asked
        /\ (To(c, going) \/ To(c, probing))
    BY <1>1 DEF LookFor, Onward
  <2> HIDE DEF p
  <2>3. probing \in Requests /\ probing.pc = "probe" /\ probing.px = p
        /\ probing.said = check[c].said /\ probing.heard = check[c].heard
    <3>1. check[c].left - 1 \in 0..MaxAttempts
      BY <1>0, <1>1, CheckServiceAssumption DEF Requests
    <3> QED BY <1>0, <2>1, <3>1 DEF Requests, Phases
  <2>4. going \in Requests /\ going.pc = "boot" /\ going.px = p /\ going.said = "none"
    <3>1. going \in Requests BY <2>1, Shapes
    <3> QED BY <3>1 DEF Idle
  <2> HIDE DEF probing, going
  <2> QED BY <1>0, <2>1, <2>2, <2>3, <2>4 DEF Alibi
<1>2. CASE ~ (check[c].left > 0 /\ OpenSteps(pool, from, marked) # {})
  <2> DEFINE st == [Idle("sys") EXCEPT !.heard = check[c].heard]
  <2>1. To(c, st) /\ cursor' = from /\ asked' \subseteq asked \cup Tasks
    BY <1>2 DEF LookFor, Reply
  <2>2. st \in Requests /\ st.pc = "idle" /\ st.said = "sys"
    <3>1. check[c].heard \in BOOLEAN BY <1>0 DEF Requests
    <3>2. st \in Requests BY <3>1, Shapes
    <3> QED BY <3>2 DEF Idle
  <2>3. check[c].left > 0 => InPool(pool) \subseteq marked
    <3>1. CASE pool = <<>> BY <3>1 DEF InPool
    <3>2. CASE pool # <<>>
      <4>1. from \in 0..(Len(pool) - 1) BY <3>2
      <4> QED BY <1>2, <4>1, ScanCovers
    <3> QED BY <3>1, <3>2
  <2> HIDE DEF st
  <2> QED BY <1>0, <2>1, <2>2, <2>3 DEF Alibi
<1> QED BY <1>1, <1>2

\* Every step of a request has such an effect, when the xrays are the requests'
\* own before it.
LEMMA StepEffect ==
  ASSUME TypeOK, XrayOwned, NEW c \in Checks, Request(c) \/ Step(c)
  PROVE  \E st \in Requests : Effect(c, st)
<1> DEFINE now == check[c]
<1>1. /\ now \in Requests /\ PoolTypeOK /\ mode \in Modes
      /\ (c \in xray <=> Needs(now.pc))
      /\ (now.pc = "refresh" <=> holder = c)
      /\ now.pc = "paid" => mode = "paid" /\ now.nth > 0
      /\ now.pc \in {"refresh", "probe"} => mode = "pool"
      /\ now.pc = "recheck" => Chain
      /\ now.pc \in {"probe", "boot", "bind", "line", "recheck"} => (now.px = NoProxy <=> ~Chain)
  BY DEF TypeOK, Coherent, XrayOwned, At, Needs
<1>2. c # Nobody BY ProxyPoolAssumption
<1>3. ASSUME UNCHANGED poolVars PROVE PoolTypeOK' /\ holder' = holder
  BY <1>1, <1>3 DEF PoolTypeOK, poolVars, InPool
<1>4. now.heard \in BOOLEAN /\ now.px \in Proxies \cup {NoProxy} BY <1>1 DEF Requests
\* Steps that leave the pool and the xrays alone.
<1>5. ASSUME UNCHANGED <<poolVars, mode, xray>>, NEW st \in Requests, To(c, st),
             now.pc # "refresh", st.pc # "refresh", Needs(now.pc) <=> Needs(st.pc),
             Fits(st), Alibi(st, c)
      PROVE  Effect(c, st)
  BY <1>1, <1>3, <1>5 DEF Effect
<1>6. CASE Request(c)
  <2> DEFINE st == [Idle("none") EXCEPT !.pc = "asked", !.left = MaxAttempts]
  <2>1. st \in Requests BY Shapes
  <2>2. st.pc = "asked" /\ st.said = "none" BY DEF Idle
  <2>3. To(c, st) /\ UNCHANGED <<poolVars, mode, xray>> /\ now.pc = "idle" BY <1>6 DEF Request, At
  <2> HIDE DEF st
  <2> QED BY <1>5, <2>1, <2>2, <2>3 DEF Fits, Alibi, Needs
<1>7. ASSUME NEW said \in {"ok", "sys", "config"}, Reply(c, said),
             UNCHANGED <<poolVars, mode, xray>>, ~Needs(now.pc), now.pc # "refresh"
      PROVE  \E st \in Requests : Effect(c, st)
  <2> DEFINE st == [Idle(said) EXCEPT !.heard = now.heard]
  <2>1. st \in Requests BY <1>4, Shapes
  <2>2. st.pc = "idle" /\ st.said = said BY DEF Idle
  <2>3. To(c, st) BY <1>7 DEF Reply
  <2> HIDE DEF st
  <2> QED BY <1>5, <1>7, <2>1, <2>2, <2>3 DEF Fits, Alibi, Needs
<1>8. ASSUME NEW p \in Proxies \cup {NoProxy}, Onward(c, p), p = NoProxy <=> ~Chain,
             UNCHANGED <<poolVars, mode, xray>>, ~Needs(now.pc), now.pc # "refresh"
      PROVE  \E st \in Requests : Effect(c, st)
  <2> DEFINE st == [Idle("none") EXCEPT !.pc = "boot", !.px = p]
  <2>1. st \in Requests BY Shapes
  <2>2. st.pc = "boot" /\ st.px = p /\ st.said = "none" BY DEF Idle
  <2>3. To(c, st) BY <1>8 DEF Onward
  <2> HIDE DEF st
  <2> QED BY <1>5, <1>8, <2>1, <2>2, <2>3 DEF Fits, Alibi, Needs
\* Steps that change what is known of the proxies.
<1>9. ASSUME UNCHANGED <<proxies, cursor, age, holder, asked, mode, xray>>,
             bad' \subseteq Proxies, health' \subseteq Proxies,
             NEW st \in Requests, To(c, st), now.pc # "refresh", st.pc # "refresh",
             Needs(now.pc) <=> Needs(st.pc), Fits(st), Alibi(st, c)
      PROVE  Effect(c, st)
  <2>1. PoolTypeOK' BY <1>1, <1>9 DEF PoolTypeOK
  <2> QED BY <1>1, <1>9, <2>1 DEF Effect
\* Steps that start or stop the xray.
<1>10. ASSUME UNCHANGED <<poolVars, mode>>, NEW st \in Requests, To(c, st),
              now.pc # "refresh", st.pc # "refresh",
              xray' = IF Needs(st.pc) THEN xray \cup {c} ELSE xray \ {c},
              Fits(st), Alibi(st, c)
       PROVE  Effect(c, st)
  BY <1>1, <1>3, <1>10 DEF Effect
<1>11. CASE Straight(c)
  BY <1>8, <1>11 DEF Straight, At, Needs
<1>12. CASE PaidFirst(c)
  <2> DEFINE st == [now EXCEPT !.pc = "paid", !.nth = 1]
  <2>1. st \in Requests
    <3>1. 1 \in 0..Len(Paid) BY CheckServiceAssumption
    <3> QED BY <1>1, <3>1 DEF Requests, Phases
  <2>2. st.pc = "paid" /\ st.nth = 1 /\ st.said = now.said /\ st.heard = now.heard
    BY <1>1 DEF Requests
  <2>3. To(c, st) /\ UNCHANGED <<poolVars, mode, xray>> /\ now.pc = "asked" /\ mode = "paid"
    BY <1>12 DEF PaidFirst, At
  <2> HIDE DEF st
  <2> QED BY <1>5, <2>1, <2>2, <2>3 DEF Fits, Alibi, Needs
<1>13. CASE PaidAnswers(c)
  <2>1. now.pc = "paid" /\ Onward(c, Paid[now.nth]) /\ UNCHANGED <<poolVars, mode, xray>>
    BY <1>13 DEF PaidAnswers, At
  <2>2. now.nth \in 1..Len(Paid) BY <1>1, <2>1, CheckServiceAssumption DEF Requests
  <2>3. Paid[now.nth] \in Proxies BY <2>2, CheckServiceAssumption
  <2>4. Chain BY <1>1, <2>1 DEF Chain
  <2> QED BY <1>8, <2>1, <2>3, <2>4, CheckServiceAssumption DEF Needs
<1>14. CASE PaidFails(c)
  <2>1. now.pc = "paid" /\ UNCHANGED <<poolVars, mode, xray>> BY <1>14 DEF PaidFails, At
  <2>2. CASE now.nth < Len(Paid)
    <3> DEFINE st == [now EXCEPT !.nth = @ + 1]
    <3>1. st \in Requests
      <4>1. now.nth + 1 \in 0..Len(Paid) BY <1>1, <2>2, CheckServiceAssumption DEF Requests
      <4> QED BY <1>1, <4>1 DEF Requests
    <3>2. st.pc = "paid" /\ st.nth > 0 /\ st.said = now.said /\ st.heard = now.heard
      BY <1>1, <2>1 DEF Requests
    <3>3. To(c, st) BY <1>14, <2>2 DEF PaidFails
    <3> HIDE DEF st
    <3> QED BY <1>1, <1>5, <2>1, <3>1, <3>2, <3>3 DEF Fits, Alibi, Needs
  <2>3. CASE ~ (now.nth < Len(Paid))
    BY <1>7, <1>14, <2>1, <2>3 DEF PaidFails, Needs
  <2> QED BY <2>2, <2>3
<1>15. CASE NoPool(c)
  BY <1>7, <1>15 DEF NoPool, At, Needs
<1>16. CASE RefreshFirst(c)
  <2> DEFINE st == [now EXCEPT !.pc = "refresh"]
  <2>1. st \in Requests BY Shapes DEF Phases
  <2>2. st.pc = "refresh" /\ st.said = now.said /\ st.heard = now.heard BY <1>1 DEF Requests
  <2>3. /\ To(c, st) /\ holder = Nobody /\ holder' = c /\ mode = "pool" /\ now.pc = "asked"
        /\ UNCHANGED <<proxies, cursor, bad, health, age, asked, mode, xray>>
    BY <1>16 DEF RefreshFirst, Go, At
  <2>4. PoolTypeOK' BY <1>1, <2>3 DEF PoolTypeOK
  <2> HIDE DEF st
  <2> QED BY <1>1, <2>1, <2>2, <2>3, <2>4 DEF Effect, Fits, Alibi, Needs
\* A proxy from the loop of attempts.
<1>17. ASSUME NEW st \in Requests, To(c, st), Alibi(st, c), mode = "pool", UNCHANGED <<mode, xray>>,
              PoolTypeOK', st.pc = "idle" \/ (st.pc \in {"boot", "probe"} /\ st.px \in Proxies),
              now.pc \in {"asked", "refresh", "probe"}, holder' # c,
              holder' # holder => {holder, holder'} \subseteq {c, Nobody}
       PROVE  Effect(c, st)
  <2>1. Chain BY <1>17 DEF Chain
  <2>2. st.px \in Proxies => st.px # NoProxy BY CheckServiceAssumption
  <2> QED BY <1>1, <1>17, <2>1, <2>2 DEF Effect, Fits, Needs
<1>18. CASE Refreshed(c)
  <2>1. now.pc = "refresh" /\ holder = c /\ holder' = Nobody /\ mode = "pool"
    BY <1>1, <1>18 DEF Refreshed, At
  <2>0. PICK valid \in SUBSET Proxies : \E pool \in Shuffles(valid) :
          LET new == Renewed(pool)
          IN  /\ proxies' = new.proxies /\ health' = new.health /\ age' = "recent"
              /\ IF new.proxies = <<>> THEN Reply(c, "sys") /\ UNCHANGED <<cursor, asked>>
                 ELSE LookFor(c, new.proxies, new.cursor, bad, new.health, FALSE)
    BY <1>18 DEF Refreshed, Validated
  <2>2. PICK pool \in Shuffles(valid) :
          LET new == Renewed(pool)
          IN  /\ proxies' = new.proxies /\ health' = new.health /\ age' = "recent"
              /\ IF new.proxies = <<>> THEN Reply(c, "sys") /\ UNCHANGED <<cursor, asked>>
                 ELSE LookFor(c, new.proxies, new.cursor, bad, new.health, FALSE)
    BY <2>0
  <2> DEFINE new == Renewed(pool)
  <2>3. /\ new.proxies \in Seq(Proxies) /\ Len(new.proxies) <= MaxPool
        /\ new.cursor \in Nat /\ new.health \subseteq Proxies
        /\ new.proxies = <<>> => new.cursor = 0 /\ proxies = <<>>
        /\ new.proxies # <<>> => new.cursor < Len(new.proxies)
    BY <1>1, RenewedFits
  <2>4. /\ proxies' = new.proxies /\ health' = new.health /\ age' = "recent"
        /\ IF new.proxies = <<>> THEN Reply(c, "sys") /\ UNCHANGED <<cursor, asked>>
           ELSE LookFor(c, new.proxies, new.cursor, bad, new.health, FALSE)
        /\ UNCHANGED <<bad, mode, xray>>
    BY <1>18, <2>2 DEF Refreshed
  <2> HIDE DEF new
  <2>5. CASE new.proxies = <<>>
    <3> DEFINE st == [Idle("sys") EXCEPT !.heard = now.heard]
    <3>1. st \in Requests BY <1>4, Shapes
    <3>2. st.pc = "idle" /\ st.said = "sys" BY DEF Idle
    <3>3. To(c, st) /\ UNCHANGED <<cursor, asked>> BY <2>4, <2>5 DEF Reply
    <3>4. PoolTypeOK' BY <1>1, <2>1, <2>3, <2>4, <2>5, <3>3 DEF PoolTypeOK
    <3> HIDE DEF st
    <3> QED BY <1>2, <1>17, <2>1, <2>4, <3>1, <3>2, <3>3, <3>4 DEF Alibi
  <2>6. CASE new.proxies # <<>>
    <3>1. LookFor(c, new.proxies, new.cursor, bad, new.health, FALSE) BY <2>4, <2>6
    <3>2. /\ cursor' \in Nat /\ cursor' < Len(new.proxies) /\ asked' \subseteq Tasks
          /\ \E st \in Requests :
               /\ To(c, st) /\ Alibi(st, c)
               /\ st.pc = "idle" \/ (st.pc \in {"boot", "probe"} /\ st.px \in Proxies)
      BY <2>3, <2>6, <3>1, LookForFits
    <3>3. PoolTypeOK' BY <1>1, <2>1, <2>3, <2>4, <2>6, <3>2 DEF PoolTypeOK
    <3> QED BY <1>2, <1>17, <2>1, <2>4, <3>2, <3>3
  <2> QED BY <2>5, <2>6
<1>19. ASSUME NEW marked \in SUBSET Proxies, NEW well \in SUBSET Proxies, NEW minute,
              bad' = marked, health' = well, mode = "pool", now.pc \in {"asked", "probe"},
              LookFor(c, proxies, cursor, marked, well, minute),
              UNCHANGED <<proxies, age, holder, mode, xray>>
       PROVE  \E st \in Requests : Effect(c, st)
  <2>1. /\ proxies \in Seq(Proxies) /\ cursor \in Nat
        /\ proxies = <<>> => cursor = 0
        /\ proxies # <<>> => cursor < Len(proxies)
    BY <1>1 DEF PoolTypeOK
  <2>2. /\ cursor' \in Nat /\ asked' \subseteq Tasks
        /\ proxies = <<>> => cursor' = 0
        /\ proxies # <<>> => cursor' < Len(proxies)
        /\ \E st \in Requests :
             /\ To(c, st) /\ Alibi(st, c)
             /\ st.pc = "idle" \/ (st.pc \in {"boot", "probe"} /\ st.px \in Proxies)
    BY <1>19, <2>1, LookForFits
  <2>3. PoolTypeOK' BY <1>1, <1>19, <2>2 DEF PoolTypeOK
  <2>4. holder' # c BY <1>1, <1>19
  <2> QED BY <1>17, <1>19, <2>2, <2>3, <2>4
<1>20. CASE Pick(c)
  <2>1. PICK minute \in Elapsed : LookFor(c, proxies, cursor, bad, health, minute)
    BY <1>20 DEF Pick
  <2>2. /\ now.pc = "asked" /\ mode = "pool" /\ bad' = bad /\ health' = health
        /\ UNCHANGED <<proxies, age, holder, mode, xray>>
    BY <1>20 DEF Pick, At
  <2>3. bad \in SUBSET Proxies /\ health \in SUBSET Proxies BY <1>1 DEF PoolTypeOK
  <2> QED BY <1>19, <2>1, <2>2, <2>3
\* What is known of the proxy of a request stays within the proxies.
<1>21. ASSUME now.px \in Proxies
       PROVE  /\ Marked(now.px) \in SUBSET Proxies /\ Unwell(now.px) \in SUBSET Proxies
              /\ health \cup {now.px} \subseteq Proxies
  BY <1>1, <1>21 DEF PoolTypeOK, Marked, Unwell
<1>22. CASE ProbeFails(c)
  <2>1. /\ now.pc = "probe" /\ bad' = Marked(now.px) /\ health' = Unwell(now.px)
        /\ UNCHANGED <<proxies, age, holder, mode, xray>>
    BY <1>22 DEF ProbeFails, At
  <2>2. PICK minute \in Elapsed : LookFor(c, proxies, cursor, bad', health', minute)
    BY <1>22 DEF ProbeFails
  <2>3. now.px \in Proxies /\ mode = "pool" BY <1>1, <1>4, <2>1 DEF Chain
  <2> QED BY <1>19, <1>21, <2>1, <2>2, <2>3
<1>23. CASE ProbeAnswers(c)
  <2> DEFINE st == [Idle("none") EXCEPT !.pc = "boot", !.px = now.px]
  <2>1. st \in Requests BY <1>4, Shapes
  <2>2. st.pc = "boot" /\ st.px = now.px /\ st.said = "none" BY DEF Idle
  <2>3. /\ To(c, st) /\ now.pc = "probe" /\ health' = health \cup {now.px}
        /\ UNCHANGED <<proxies, cursor, bad, age, holder, asked, mode, xray>>
    BY <1>23 DEF ProbeAnswers, Onward, At
  <2>4. Chain /\ now.px \in Proxies BY <1>1, <1>4, <2>3 DEF Chain
  <2>5. bad' \subseteq Proxies /\ health' \subseteq Proxies
    BY <1>1, <1>21, <2>3, <2>4 DEF PoolTypeOK
  <2> HIDE DEF st
  <2> QED BY <1>1, <1>9, <2>1, <2>2, <2>3, <2>5 DEF Fits, Alibi, Needs
<1>24. CASE Refuse(c)
  BY <1>7, <1>24 DEF Refuse, At, Needs
<1>25. CASE Unable(c)
  BY <1>7, <1>25 DEF Unable, At, Needs
\* Steps to another phase of the same request.
<1>26. ASSUME NEW pc \in {"bind", "line", "recheck"}, Go(c, pc), pc = "recheck" => Chain,
              now.pc \in {"boot", "bind", "line"}, UNCHANGED <<poolVars, mode>>,
              xray' = xray \cup {c}
       PROVE  \E st \in Requests : Effect(c, st)
  <2> DEFINE st == [now EXCEPT !.pc = pc]
  <2>1. st \in Requests BY Shapes DEF Phases
  <2>2. st.pc = pc /\ st.px = now.px /\ st.said = now.said /\ st.heard = now.heard
    BY <1>1 DEF Requests
  <2>3. To(c, st) BY <1>26 DEF Go
  <2> HIDE DEF st
  <2>4. Fits(st) BY <1>1, <1>26, <2>2 DEF Fits
  <2>5. Alibi(st, c) BY <2>2 DEF Alibi
  <2>6. now.pc # "refresh" /\ st.pc # "refresh" /\ Needs(st.pc) BY <1>26, <2>2 DEF Needs
  <2> QED BY <1>10, <1>26, <2>1, <2>3, <2>4, <2>5, <2>6
<1>27. CASE Launch(c)
  BY <1>26, <1>27 DEF Launch, At
<1>28. CASE Listening(c)
  <2>1. now.pc = "bind" /\ Go(c, "line") /\ UNCHANGED <<poolVars, mode, xray>>
    BY <1>28 DEF Listening, At
  <2>2. xray' = xray \cup {c} BY <1>1, <2>1 DEF Needs
  <2> QED BY <1>26, <2>1, <2>2
\* Steps to the end of a request.
<1>29. ASSUME NEW st \in Requests, To(c, st), st.pc \in {"idle", "clean"},
              UNCHANGED <<proxies, cursor, age, holder, asked, mode>>,
              bad' \subseteq Proxies, health' \subseteq Proxies, Alibi(st, c),
              Needs(now.pc), xray' = IF st.pc = "clean" THEN xray ELSE xray \ {c}
       PROVE  Effect(c, st)
  <2>1. PoolTypeOK' BY <1>1, <1>29 DEF PoolTypeOK
  <2>2. Fits(st) BY <1>29 DEF Fits
  <2>3. xray' = IF Needs(st.pc) THEN xray \cup {c} ELSE xray \ {c} BY <1>1, <1>29 DEF Needs
  <2>4. holder' = holder /\ holder # c /\ st.pc # "refresh" BY <1>1, <1>29 DEF Needs
  <2> QED BY <1>29, <2>1, <2>2, <2>3, <2>4 DEF Effect
<1>30. ASSUME NEW said \in {"none", "ok", "link", "config", "sys"}, Answer(c, said)
       PROVE  \E st \in Requests :
                To(c, st) /\ st.pc = "clean" /\ st.said = said
  <2> DEFINE st == [Idle(said) EXCEPT !.pc = "clean"]
  <2>1. st \in Requests BY Shapes
  <2>2. st.pc = "clean" /\ st.said = said BY DEF Idle
  <2>3. To(c, st) BY <1>30 DEF Answer
  <2> HIDE DEF st
  <2> QED BY <2>1, <2>2, <2>3
<1>31. ASSUME NEW said \in {"none", "ok", "link", "config", "sys"}, Reply(c, said)
       PROVE  \E st \in Requests :
                To(c, st) /\ st.pc = "idle" /\ st.said = said /\ st.heard = now.heard
  <2> DEFINE st == [Idle(said) EXCEPT !.heard = now.heard]
  <2>1. st \in Requests BY <1>4, Shapes
  <2>2. st.pc = "idle" /\ st.said = said /\ st.heard = now.heard BY DEF Idle
  <2>3. To(c, st) BY <1>31 DEF Reply
  <2> HIDE DEF st
  <2> QED BY <2>1, <2>2, <2>3
<1>32. /\ bad \subseteq Proxies /\ health \subseteq Proxies
       /\ UNCHANGED poolVars => UNCHANGED <<proxies, cursor, bad, health, age, holder, asked>>
  BY <1>1 DEF PoolTypeOK, poolVars
<1>33. CASE Crash(c)
  <2>1. /\ now.pc = "bind" /\ Reply(c, "sys") /\ UNCHANGED <<poolVars, mode>>
        /\ xray' = xray \ {c}
    BY <1>33 DEF Crash, At
  <2> QED BY <1>29, <1>31, <1>32, <2>1 DEF Alibi, Needs
<1>34. CASE BindTimeout(c)
  <2>1. now.pc = "bind" /\ Answer(c, "sys") /\ UNCHANGED <<poolVars, mode, xray>>
    BY <1>34 DEF BindTimeout, At
  <2> QED BY <1>29, <1>30, <1>32, <2>1 DEF Alibi, Needs
<1>35. CASE Passes(c)
  <2>1. PICK said \in {"ok", "sys"} : Answer(c, said) BY <1>35 DEF Passes, Furnished
  <2>2. now.pc = "line" /\ UNCHANGED <<poolVars, mode, xray>> BY <1>35 DEF Passes, At
  <2>3. PICK st \in Requests : To(c, st) /\ st.pc = "clean" /\ st.said = said BY <1>30, <2>1
  <2> QED BY <1>29, <1>32, <2>2, <2>3 DEF Alibi, Needs
<1>36. CASE Fails(c)
  <2>1. now.pc = "line" /\ UNCHANGED <<poolVars, mode, xray>> BY <1>36 DEF Fails, At
  <2>2. CASE Chain
    <3>1. xray' = xray \cup {c} BY <1>1, <2>1 DEF Needs
    <3>2. Go(c, "recheck") BY <1>36, <2>2 DEF Fails
    <3> QED BY <1>26, <2>1, <2>2, <3>1, <3>2
  <2>3. CASE ~Chain
    <3>1. Answer(c, "link") BY <1>36, <2>3 DEF Fails
    <3> QED BY <1>29, <1>30, <1>32, <2>1, <2>3, <3>1 DEF Alibi, Needs
  <2> QED BY <2>2, <2>3
<1>37. CASE ProxyAlive(c)
  <2> DEFINE st == [Idle("link") EXCEPT !.pc = "clean", !.heard = TRUE]
  <2>1. /\ now.pc = "recheck" /\ To(c, st)
        /\ health' = health \cup {now.px}
        /\ UNCHANGED <<proxies, cursor, bad, age, holder, asked, mode, xray>>
    BY <1>37 DEF ProxyAlive, BlameLink, At
  <2>2. now.px \in Proxies BY <1>1, <1>4, <2>1
  <2>3. st \in Requests BY Shapes
  <2>4. st.pc = "clean" /\ st.heard BY DEF Idle
  <2> HIDE DEF st
  <2> QED BY <1>21, <1>29, <1>32, <2>1, <2>2, <2>3, <2>4 DEF Alibi, Needs
<1>38. CASE ProxyDead(c)
  <2>1. /\ now.pc = "recheck" /\ Answer(c, "sys")
        /\ bad' = Marked(now.px) /\ health' = Unwell(now.px)
        /\ UNCHANGED <<proxies, cursor, age, holder, asked, mode, xray>>
    BY <1>38 DEF ProxyDead, At
  <2>2. now.px \in Proxies BY <1>1, <1>4, <2>1
  <2> QED BY <1>21, <1>29, <1>30, <2>1, <2>2 DEF Alibi, Needs
<1>39. CASE Clean(c)
  <2>1. now.said \in {"none", "ok", "link", "config", "sys"} BY <1>1 DEF Requests
  <2>2. /\ now.pc = "clean" /\ Reply(c, now.said) /\ UNCHANGED <<poolVars, mode>>
        /\ xray' = xray \ {c}
    BY <1>39 DEF Clean, At
  <2>3. PICK st \in Requests :
          To(c, st) /\ st.pc = "idle" /\ st.said = now.said /\ st.heard = now.heard
    BY <1>31, <2>1, <2>2
  <2> QED BY <1>29, <1>32, <2>2, <2>3 DEF Alibi, Needs
<1> QED
  BY <1>6, <1>11, <1>12, <1>13, <1>14, <1>15, <1>16, <1>18, <1>20, <1>22, <1>23, <1>24, <1>25,
     <1>27, <1>28, <1>33, <1>34, <1>35, <1>36, <1>37, <1>38, <1>39 DEF Step
-----------------------------------------------------------------------------
(* The invariants *)

IInv == TypeOK /\ XrayOwned /\ BlameNeedsAlibi

LEMMA InitInv == Init => IInv
<1> SUFFICES ASSUME Init PROVE IInv OBVIOUS
<1> USE CheckServiceAssumption, ProxyPoolAssumption DEF Init
<1>1. PoolTypeOK BY DEF PoolTypeOK, EmptyPool
<1>2. \A c \in Checks : check[c] = Idle("none") OBVIOUS
<1>3. Idle("none") \in Requests
  <2>1. Len(Paid) \in Nat OBVIOUS
  <2> QED BY <2>1 DEF Idle, Requests, Phases
<1>4. Coherent
  <2>1. \A c \in Checks : holder # c BY DEF EmptyPool
  <2> QED BY <1>2, <2>1 DEF Coherent, At, Idle
<1>5. TypeOK BY <1>1, <1>3, <1>4 DEF TypeOK
<1>6. XrayOwned /\ BlameNeedsAlibi BY <1>2 DEF XrayOwned, BlameNeedsAlibi, Idle
<1> QED BY <1>5, <1>6 DEF IInv

\* A step of one request keeps the invariant.
LEMMA RequestKeeps ==
  ASSUME IInv, NEW c \in Checks, Request(c) \/ Step(c)
  PROVE  IInv'
<1> USE DEF IInv
<1>1. PICK st \in Requests : Effect(c, st) BY StepEffect
<1>2. TypeOK' BY <1>1, EffectType
<1>3. check' = [check EXCEPT ![c] = st] /\ check \in [Checks -> Requests]
  BY <1>1 DEF Effect, To, TypeOK
<1>4. check'[c] = st /\ \A d \in Checks \ {c} : check'[d] = check[d] BY <1>3
<1>5. XrayOwned'
  <2>1. xray' = IF Needs(st.pc) THEN xray \cup {c} ELSE xray \ {c} BY <1>1 DEF Effect
  <2> QED BY <1>4, <2>1 DEF XrayOwned, Needs
<1>6. BlameNeedsAlibi'
  <2>1. (Chain' <=> Chain) /\ Alibi(st, c) BY <1>1 DEF Effect, Chain
  <2> QED BY <1>4, <2>1 DEF BlameNeedsAlibi, Alibi
<1> QED BY <1>2, <1>5, <1>6

\* So does a step of the pool, which belongs to no request.
LEMMA PoolKeeps ==
  ASSUME IInv, PoolStep, UNCHANGED checkVars
  PROVE  IInv'
<1> USE DEF IInv
<1>1. check' = check /\ mode' = mode /\ xray' = xray BY DEF checkVars
<1>2. PoolTypeOK BY DEF TypeOK
<1>3. PoolTypeOK' /\ \A c \in Checks : holder' = c <=> holder = c
  <2>1. CASE Ages BY <1>2, <2>1 DEF Ages, PoolTypeOK
  <2>2. ASSUME NEW r \in Forcers, Begin(r) PROVE PoolTypeOK' /\ \A c \in Checks : holder' = c <=> holder = c
    <3>1. PoolTypeOK' BY <1>2, <2>2 DEF Begin, PoolTypeOK
    <3> QED BY <2>2, <3>1, ProxyPoolAssumption DEF Begin
  <2>3. ASSUME NEW r \in Forcers, End(r) PROVE PoolTypeOK' /\ \A c \in Checks : holder' = c <=> holder = c
    <3>1. PICK valid \in SUBSET Proxies : \E pool \in Shuffles(valid) :
            LET new == Renewed(pool)
            IN  proxies' = new.proxies /\ cursor' = new.cursor /\ health' = new.health
      BY <2>3 DEF End, Validated
    <3>2. PICK pool \in Shuffles(valid) :
            LET new == Renewed(pool)
            IN  proxies' = new.proxies /\ cursor' = new.cursor /\ health' = new.health
      BY <3>1
    <3> DEFINE new == Renewed(pool)
    <3>3. /\ new.proxies \in Seq(Proxies) /\ Len(new.proxies) <= MaxPool
          /\ new.cursor \in Nat /\ new.health \subseteq Proxies
          /\ new.proxies = <<>> => new.cursor = 0
          /\ new.proxies # <<>> => new.cursor < Len(new.proxies)
      BY <1>2, RenewedFits
    <3>4. proxies' = new.proxies /\ cursor' = new.cursor /\ health' = new.health BY <3>2
    <3> HIDE DEF new
    <3>5. PoolTypeOK' BY <1>2, <2>3, <3>3, <3>4 DEF End, PoolTypeOK
    <3> QED BY <2>3, <3>5, ProxyPoolAssumption DEF End
  <2>4. ASSUME NEW p \in Proxies, CooldownEnds(p) \/ HealthExpires(p)
        PROVE  PoolTypeOK' /\ holder' = holder
    BY <1>2, <2>4 DEF CooldownEnds, HealthExpires, PoolTypeOK
  <2>5. Ages => holder' = holder BY DEF Ages
  <2> QED BY <2>1, <2>2, <2>3, <2>4, <2>5 DEF PoolStep
<1>4. Coherent' BY <1>1, <1>3 DEF Coherent, TypeOK, At, Chain
<1>5. TypeOK' BY <1>1, <1>3, <1>4 DEF TypeOK
<1>6. XrayOwned' BY <1>1 DEF XrayOwned
<1>7. BlameNeedsAlibi' BY <1>1 DEF BlameNeedsAlibi, Chain
<1> QED BY <1>5, <1>6, <1>7

\* And a restart, after which no request is under way.
LEMMA RestartKeeps ==
  ASSUME IInv, Restart
  PROVE  IInv'
<1> USE ProxyPoolAssumption DEF IInv, Restart
<1>1. PoolTypeOK' BY DEF PoolTypeOK, LosePool
<1>2. \A c \in Checks :
        /\ check'[c] \in Requests /\ check'[c].pc = "idle"
        /\ check'[c].said = "link" => check'[c] = check[c]
  <2> SUFFICES ASSUME NEW c \in Checks
               PROVE /\ check'[c] \in Requests /\ check'[c].pc = "idle"
                     /\ check'[c].said = "link" => check'[c] = check[c]
    OBVIOUS
  <2>1. CASE At(c, "idle") BY <2>1 DEF At, TypeOK
  <2>2. CASE ~At(c, "idle")
    <3>1. check'[c] = Idle("sys") BY <2>2
    <3>2. Idle("sys") \in Requests BY Shapes
    <3> QED BY <3>1, <3>2 DEF Idle
  <2> QED BY <2>1, <2>2
<1>3. check' \in [Checks -> Requests] BY <1>2
<1>4. Coherent'
  <2>1. \A c \in Checks : holder' # c BY DEF LosePool
  <2> QED BY <1>2, <2>1 DEF Coherent, At
<1>5. TypeOK' BY <1>1, <1>3, <1>4 DEF TypeOK
<1>6. XrayOwned' BY <1>2 DEF XrayOwned
<1>7. BlameNeedsAlibi' BY <1>2 DEF BlameNeedsAlibi, Chain
<1> QED BY <1>5, <1>6, <1>7

LEMMA StepInv == IInv /\ [Next]_vars => IInv'
<1> SUFFICES ASSUME IInv, [Next]_vars PROVE IInv' OBVIOUS
<1>1. CASE \E c \in Checks : Request(c) \/ Step(c) BY <1>1, RequestKeeps
<1>2. CASE PoolStep /\ UNCHANGED checkVars BY <1>2, PoolKeeps
<1>3. CASE Restart BY <1>3, RestartKeeps
<1>4. CASE UNCHANGED vars
  BY <1>4 DEF vars, poolVars, checkVars, IInv, TypeOK, PoolTypeOK, Coherent, At, Chain,
              XrayOwned, BlameNeedsAlibi
<1> QED BY <1>1, <1>2, <1>3, <1>4 DEF Next

LEMMA Invariance == Spec => []IInv
<1> QED BY InitInv, StepInv, PTL DEF Spec

\* The pool, its cursor and the records of the requests have their types and
\* fit each other, whatever refreshes and restarts do.
THEOREM TypeCorrect == Spec => []TypeOK
<1>1. IInv => TypeOK BY DEF IInv
<1> QED BY <1>1, Invariance, PTL

\* start_xray and the finally of check_handler leave no xray behind and take
\* none away from a request that uses it.
THEOREM EveryXrayOwned == Spec => []XrayOwned
<1>1. IInv => XrayOwned BY DEF IInv
<1> QED BY <1>1, Invariance, PTL

\* The service blames a link only after its proxy has answered.
THEOREM BlameIsChecked == Spec => []BlameNeedsAlibi
<1>1. IInv => BlameNeedsAlibi BY DEF IInv
<1> QED BY <1>1, Invariance, PTL
-----------------------------------------------------------------------------
(* What a step may never do *)

\* Only refreshes change the pool, and none empties it.
LEMMA KeepStep ==
  ASSUME TypeOK, NEW c \in Checks, Request(c) \/ Step(c), proxies # <<>>
  PROVE  proxies' # <<>>
<1>1. CASE Refreshed(c)
  <2>1. PICK valid \in SUBSET Proxies : \E pool \in Shuffles(valid) : proxies' = Renewed(pool).proxies
    BY <1>1 DEF Refreshed, Validated
  <2>2. PICK pool \in Shuffles(valid) : proxies' = Renewed(pool).proxies BY <2>1
  <2> DEFINE new == Renewed(pool)
  <2>3. new.proxies = <<>> => proxies = <<>> BY RenewedFits DEF TypeOK
  <2> HIDE DEF new
  <2> QED BY <2>2, <2>3 DEF new
<1>2. CASE ~Refreshed(c)
  <2>1. proxies' = proxies
    BY <1>2 DEF Step, poolVars, Request, Straight, PaidFirst, PaidAnswers, PaidFails, NoPool,
                RefreshFirst, Pick, ProbeAnswers, ProbeFails, Refuse, Unable, Launch, Crash,
                BindTimeout, Listening, Passes, Fails, ProxyAlive, ProxyDead, Clean
  <2> QED BY <2>1
<1> QED BY <1>1, <1>2

\* Once it has proxies the pool keeps some: a refresh that validates nothing
\* leaves the previous ones.
THEOREM PoolIsKept == Spec => KeepsPool
<1>1. ASSUME TypeOK, [Next]_vars
      PROVE  [proxies # <<>> /\ proxies' = <<>> => Restart]_vars
  <2>1. ASSUME NEW c \in Checks, Request(c) \/ Step(c), proxies # <<>> PROVE proxies' # <<>>
    BY <1>1, <2>1, KeepStep
  <2>2. ASSUME PoolStep, proxies # <<>> PROVE proxies' # <<>>
    <3>1. CASE \E r \in Forcers : End(r)
      <4>1. PICK valid \in SUBSET Proxies : \E pool \in Shuffles(valid) : proxies' = Renewed(pool).proxies
        BY <3>1 DEF End, Validated
      <4>2. PICK pool \in Shuffles(valid) : proxies' = Renewed(pool).proxies BY <4>1
      <4> DEFINE new == Renewed(pool)
      <4>3. new.proxies = <<>> => proxies = <<>> BY <1>1, RenewedFits DEF TypeOK
      <4> HIDE DEF new
      <4> QED BY <2>2, <4>2, <4>3 DEF new
    <3>2. CASE ~ \E r \in Forcers : End(r)
      BY <2>2, <3>2 DEF PoolStep, Ages, Begin, CooldownEnds, HealthExpires
    <3> QED BY <3>1, <3>2
  <2>3. CASE UNCHANGED vars BY <2>3 DEF vars, poolVars
  <2> QED BY <1>1, <2>1, <2>2, <2>3 DEF Next
<1> QED BY <1>1, TypeCorrect, PTL DEF Spec, KeepsPool

\* A step that ends the search of its request has found every proxy marked.
LEMMA GivesUpStep ==
  ASSUME TypeOK, NEW c \in Checks, Request(c) \/ Step(c),
         check[c].pc \in {"asked", "refresh", "probe"}, check[c].left > 0,
         proxies' # <<>>, check'[c].pc = "idle"
  PROVE  InPool(proxies') \subseteq bad'
<1>1. \A st : To(c, st) => check'[c] = st BY DEF To, TypeOK
<1>2. check[c] \in Requests /\ PoolTypeOK BY DEF TypeOK
<1>3. \A p : ~Onward(c, p)
  <2> SUFFICES ASSUME NEW p, Onward(c, p) PROVE FALSE OBVIOUS
  <2>1. check'[c] = [Idle("none") EXCEPT !.pc = "boot", !.px = p] BY <1>1 DEF Onward
  <2> QED BY <2>1 DEF Idle
<1>4. CASE Refreshed(c)
  <2>0. PICK valid \in SUBSET Proxies : \E pool \in Shuffles(valid) :
          LET new == Renewed(pool)
          IN  /\ proxies' = new.proxies /\ health' = new.health /\ age' = "recent"
              /\ IF new.proxies = <<>> THEN Reply(c, "sys") /\ UNCHANGED <<cursor, asked>>
                 ELSE LookFor(c, new.proxies, new.cursor, bad, new.health, FALSE)
    BY <1>4 DEF Refreshed, Validated
  <2>1. PICK pool \in Shuffles(valid) :
          LET new == Renewed(pool)
          IN  /\ proxies' = new.proxies /\ health' = new.health /\ age' = "recent"
              /\ IF new.proxies = <<>> THEN Reply(c, "sys") /\ UNCHANGED <<cursor, asked>>
                 ELSE LookFor(c, new.proxies, new.cursor, bad, new.health, FALSE)
    BY <2>0
  <2> DEFINE new == Renewed(pool)
  <2>2. /\ new.proxies \in Seq(Proxies) /\ new.cursor \in Nat
        /\ new.proxies = <<>> => new.cursor = 0
        /\ new.proxies # <<>> => new.cursor < Len(new.proxies)
    BY <1>2, RenewedFits
  <2>3. /\ proxies' = new.proxies /\ bad' = bad
        /\ new.proxies # <<>> => LookFor(c, new.proxies, new.cursor, bad, new.health, FALSE)
    BY <1>4, <2>1 DEF Refreshed
  <2> HIDE DEF new
  <2>4. \E st \in Requests :
          /\ To(c, st)
          /\ \/ st.pc \in {"boot", "probe"} /\ st.px \in Proxies
             \/ /\ st.pc = "idle"
                /\ check[c].left > 0 => InPool(new.proxies) \subseteq bad
          /\ Alibi(st, c)
    BY <2>2, <2>3, LookForFits
  <2> QED BY <1>1, <2>3, <2>4
<1>5. ASSUME NEW marked, NEW well, NEW minute,
             LookFor(c, proxies, cursor, marked, well, minute),
             bad' = marked, proxies' = proxies
      PROVE  InPool(proxies') \subseteq bad'
  <2>1. /\ proxies \in Seq(Proxies) /\ cursor \in Nat
        /\ proxies = <<>> => cursor = 0
        /\ proxies # <<>> => cursor < Len(proxies)
    BY <1>2 DEF PoolTypeOK
  <2>2. \E st \in Requests :
          /\ To(c, st)
          /\ \/ st.pc \in {"boot", "probe"} /\ st.px \in Proxies
             \/ /\ st.pc = "idle"
                /\ check[c].left > 0 => InPool(proxies) \subseteq marked
          /\ Alibi(st, c)
    BY <1>5, <2>1, LookForFits
  <2> QED BY <1>1, <1>5, <2>2
<1>6. CASE Pick(c)
  <2>1. PICK minute \in Elapsed : LookFor(c, proxies, cursor, bad, health, minute)
    BY <1>6 DEF Pick
  <2>2. bad' = bad /\ proxies' = proxies BY <1>6 DEF Pick
  <2> QED BY <1>5, <2>1, <2>2
<1>7. CASE ProbeFails(c)
  <2>1. PICK minute \in Elapsed : LookFor(c, proxies, cursor, bad', health', minute)
    BY <1>7 DEF ProbeFails
  <2>2. proxies' = proxies BY <1>7 DEF ProbeFails
  <2> QED BY <1>5, <2>1, <2>2
<1>8. ~NoPool(c) BY DEF NoPool, poolVars
<1>9. ~PaidFirst(c)
  <2> SUFFICES ASSUME PaidFirst(c) PROVE FALSE OBVIOUS
  <2>1. check'[c] = [check[c] EXCEPT !.pc = "paid", !.nth = 1] BY <1>1 DEF PaidFirst
  <2> QED BY <1>2, <2>1 DEF Requests
<1>10. ~RefreshFirst(c)
  <2> SUFFICES ASSUME RefreshFirst(c) PROVE FALSE OBVIOUS
  <2>1. check'[c] = [check[c] EXCEPT !.pc = "refresh"] BY <1>1 DEF RefreshFirst, Go
  <2> QED BY <1>2, <2>1 DEF Requests
<1>11. ~Straight(c) /\ ~ProbeAnswers(c) BY <1>3 DEF Straight, ProbeAnswers
<1> QED
  BY <1>4, <1>6, <1>7, <1>8, <1>9, <1>10, <1>11
  DEF Step, At, Request, PaidAnswers, PaidFails, Refuse, Unable, Launch, Crash, BindTimeout,
      Listening, Passes, Fails, ProxyAlive, ProxyDead, Clean

\* A request gives up only when every proxy of the pool is in cooldown.
THEOREM NobodyGivesUpEarly == Spec => GivesUpLast
<1>1. ASSUME TypeOK, [Next]_vars
      PROVE  [\A c \in Checks :
                check[c].pc \in {"asked", "refresh", "probe"} /\ check[c].left > 0 /\ proxies' # <<>>
                  /\ check'[c].pc = "idle"
                => InPool(proxies') \subseteq bad']_vars
  <2> SUFFICES ASSUME ~ UNCHANGED vars, NEW c \in Checks,
                      check[c].pc \in {"asked", "refresh", "probe"}, check[c].left > 0,
                      proxies' # <<>>, check'[c].pc = "idle"
               PROVE  InPool(proxies') \subseteq bad'
    OBVIOUS
  <2>1. CASE Request(c) \/ Step(c) BY <1>1, <2>1, GivesUpStep
  <2>2. ASSUME NEW d \in Checks, Request(d) \/ Step(d), d # c PROVE check'[c] = check[c]
    <3>1. \A st : To(d, st) => check'[c] = check[c] BY <1>1, <2>2 DEF To, TypeOK
    <3>2. \E st : To(d, st)
      <4>1. \A m, pool, from, marked, well :
              LookFor(d, pool, from, marked, well, m) => \E st : To(d, st)
        BY DEF LookFor, Onward, Reply
      <4> QED
        BY <2>2, <4>1
        DEF Step, Request, Straight, PaidFirst, PaidAnswers, PaidFails, NoPool, RefreshFirst,
            Refreshed, Pick, Elapsed, ProbeAnswers, ProbeFails, Refuse, Unable, Launch, Crash,
            BindTimeout, Listening, Passes, Fails, ProxyAlive, ProxyDead, Clean, Onward, Reply,
            Go, Answer, BlameLink
    <3> QED BY <3>1, <3>2
  <2>3. CASE PoolStep /\ UNCHANGED checkVars BY <2>3 DEF checkVars
  <2>4. CASE Restart BY <2>4 DEF Restart, LosePool
  <2> QED BY <1>1, <2>1, <2>2, <2>3, <2>4 DEF Next
<1> QED BY <1>1, TypeCorrect, PTL DEF Spec, GivesUpLast
=============================================================================
